---------------------------- MODULE Templates_proofs ----------------------------
(***************************************************************************)
(* Theorems about StringTemplate and about StructuredData, whose values    *)
(* are named by a template, for every value of the constants.              *)
(***************************************************************************)
EXTENDS StringTemplate, StructuredData, BasicLemmas, SequenceTheorems

--------------------------------------------------------------------------------
(* StringTemplate.Format.                                                  *)

\* What is known of the template in every lemma below.
TemplateOK == template \in Seq(ToSet(template)) /\ length \in Nat

\* The character k is the first one from n on that is not in chars, or the last of all.
IsWhile(chars, n, k) == /\ k = length \/ template[k] \notin chars
                        /\ Run(n, k - 1, chars)

\* Where a loop of the scanner stops.
LEMMA WhileFacts ==
  ASSUME TemplateOK, NEW chars, NEW n \in 1..length
  PROVE  While(chars, n) \in n..length /\ IsWhile(chars, n, While(chars, n))
<1> DEFINE T == {k \in n..length : k = length \/ template[k] \notin chars}
           P(k) == /\ k = length \/ template[k] \notin chars
                   /\ \A m \in n..(k - 1) : template[m] \in chars
<1>1. length \in Nat /\ n \in Nat /\ n >= 1
  BY DEF TemplateOK
<1>2. length \in T /\ T \in SUBSET Nat
  BY <1>1
<1>3. PICK k \in T : \A m \in T : k <= m
  <2> HIDE DEF T
  <2> QED BY <1>2, LeastNat
<1>4. k \in n..length /\ P(k)
  <2>1. ASSUME NEW m \in n..(k - 1) PROVE template[m] \in chars
    <3>1. m \in n..length /\ ~(k <= m)
      BY <1>1, <1>3
    <3> QED BY <1>3, <3>1
  <2> QED BY <1>3, <2>1
<1>5. While(chars, n) = CHOOSE j \in n..length : P(j)
  BY Zenon DEF While
<1> HIDE DEF P
<1>6. While(chars, n) \in n..length /\ P(While(chars, n))
  BY <1>4, <1>5
<1> QED BY <1>6 DEF P, IsWhile, Run

\* There is one such character only.
LEMMA WhileIs ==
  ASSUME TemplateOK, NEW chars, NEW n \in 1..length, NEW k \in n..length,
         template[k] \notin chars, Run(n, k - 1, chars)
  PROVE  While(chars, n) = k
<1> DEFINE m == While(chars, n)
<1>1. m \in n..length /\ IsWhile(chars, n, m)
  BY WhileFacts
<1>2. length \in Nat /\ n \in Nat /\ m \in Nat /\ k \in Nat
  BY <1>1 DEF TemplateOK
<1> HIDE DEF m
<1>3. ~(m < k)
  <2> SUFFICES ASSUME m < k PROVE FALSE
    OBVIOUS
  <2>1. m \in n..(k - 1) /\ m # length
    BY <1>1, <1>2
  <2> QED BY <1>1, <2>1 DEF Run, IsWhile
<1>4. ~(k < m)
  <2> SUFFICES ASSUME k < m PROVE FALSE
    OBVIOUS
  <2>1. k \in n..(m - 1)
    BY <1>1, <1>2
  <2> QED BY <1>1, <2>1 DEF Run, IsWhile
<1> QED BY <1>2, <1>3, <1>4 DEF m

\* From n to c are such characters and then blanks up to d; what follows is neither.
Parts(chars, n, c, d) ==
  /\ c \in n..d /\ Run(n, c, chars) /\ Run(c + 1, d, Blank)
  /\ template[d + 1] \notin chars /\ template[d + 1] \notin Blank

\* The two loops that read a part and the blanks after it stop where the grammar ends them.
LEMMA PartsAreRead ==
  ASSUME TemplateOK, NEW chars, "BLANK" \notin chars, NEW n \in 1..length,
         NEW d \in n..(length - 1), NEW c, Parts(chars, n, c, d)
  PROVE  While(chars, n) = c + 1 /\ While(Blank, c + 1) = d + 1
<1>1. length \in Nat /\ n \in Nat /\ d \in Nat /\ c \in n..d /\ c \in Nat /\ c + 1 \in 1..length
      /\ c + 1 \in n..length /\ (c + 1) - 1 = c /\ d + 1 \in (c + 1)..length /\ (d + 1) - 1 = d
  BY DEF TemplateOK, Parts
<1>2. template[c + 1] \notin chars
  <2>1. CASE c < d
    <3>1. c + 1 \in (c + 1)..d
      BY <1>1, <2>1
    <3>2. template[c + 1] = "BLANK"
      BY <3>1 DEF Parts, Run, Blank
    <3> QED BY <3>2
  <2>2. CASE c = d
    BY <2>2 DEF Parts
  <2> QED BY <1>1, <2>1, <2>2
<1>3. While(chars, n) = c + 1
  BY <1>1, <1>2, WhileIs DEF Parts
<1>4. While(Blank, c + 1) = d + 1
  BY <1>1, WhileIs DEF Parts
<1> QED BY <1>3, <1>4

--------------------------------------------------------------------------------
(* The readings of an item, one by one.                                    *)

Ending(width, left, format) == [width |-> width, left |-> left, format |-> format]

Filled(name, w) == [name |-> name, width |-> w.width, left |-> w.left, format |-> w.format]

\* The readings of a format up to a closing brace.
LEMMA FormatsElements ==
  ASSUME TemplateOK, NEW a \in 1..length, NEW m \in Closes(a), NEW f
  PROVE  f \in Formats(a, m - 1) <=>
           \/ m = a /\ f = NoFormat
           \/ /\ a < m /\ template[a] = "COLON" /\ f = SubSeq(template, a + 1, m - 1)
              /\ \A k \in (a + 1)..(m - 1) : template[k] \notin Braces
<1>1. a \in Nat /\ m \in Nat /\ a <= m /\ length \in Nat
  BY DEF TemplateOK, Closes
<1>2. (m - 1 < a <=> m = a) /\ (~(m - 1 < a) <=> a < m)
  BY <1>1
<1> QED BY <1>2 DEF Formats

\* A number from j to c after a comma at a and blanks, with or without a minus sign.
NumberAt(a, c, j) ==
  /\ j \in (a + 1)..c /\ template[a] = "COMMA" /\ Run(j, c, Digits)
  /\ \/ Run(a + 1, j - 1, Blank)
     \/ template[j - 1] = "MINUS" /\ Run(a + 1, j - 2, Blank)

Aligned(j, c, format) == Ending(Number(SubSeq(template, j, c)), template[j - 1] = "MINUS", format)

\* The two forms of a tail y from a to q: a format alone; an alignment that ends at c, with a
\* number from j on, blanks up to d, and a format.
TailIsPlain(a, q, y) == \E f \in Formats(a, q) : y = Ending(0, FALSE, f)

TailIsAligned(a, q, y, c, d, j) ==
  \E f \in Formats(d + 1, q) :
    c <= d /\ Run(c + 1, d, Blank) /\ NumberAt(a, c, j) /\ y = Aligned(j, c, f)

\* The readings of what follows a name.
LEMMA TailsElements ==
  ASSUME NEW a \in Nat, NEW q \in Int, NEW y
  PROVE  y \in Tails(a, q) <=>
           \/ TailIsPlain(a, q, y)
           \/ \E c \in a..q, d \in a..q, j \in a..q : TailIsAligned(a, q, y, c, d, j)
<1> DEFINE Places == {d \in (a..q) \X (a..q) : d[1] <= d[2] /\ Run(d[1] + 1, d[2], Blank)}
           By(c) == {[width |-> w.width, left |-> w.left, format |-> f] :
                       w \in Alignments(a, c[1]), f \in Formats(c[2] + 1, q)}
           Plain == {[width |-> 0, left |-> FALSE, format |-> f] : f \in Formats(a, q)}
<1>1. Tails(a, q) = Plain \cup (UNION {By(c) : c \in Places})
  BY SMT DEF Tails
<1>2. y \in Plain <=> TailIsPlain(a, q, y)
  BY DEF Ending, TailIsPlain
<1>3. ASSUME NEW c \in a..q, NEW d \in a..q
      PROVE  y \in By(<<c, d>>) <=>
               \E j \in a..q : \E f \in Formats(d + 1, q) : NumberAt(a, c, j) /\ y = Aligned(j, c, f)
  <2>1. y \in By(<<c, d>>) <=>
          \E w \in Alignments(a, c), f \in Formats(d + 1, q) : y = Ending(w.width, w.left, f)
    BY DEF Ending
  <2>2. ASSUME NEW w
        PROVE  w \in Alignments(a, c) <=>
                 \E j \in a..q : /\ NumberAt(a, c, j)
                                 /\ w = [width |-> Number(SubSeq(template, j, c)),
                                         left |-> template[j - 1] = "MINUS"]
    <3>1. \A j \in (a + 1)..c : j \in a..q
      BY <1>3
    <3> QED BY <3>1 DEF Alignments, NumberAt
  <2> HIDE DEF By
  <2>3. ASSUME NEW f \in Formats(d + 1, q)
        PROVE  (\E w \in Alignments(a, c) : y = Ending(w.width, w.left, f)) <=>
                 \E j \in a..q : NumberAt(a, c, j) /\ y = Aligned(j, c, f)
    <3> DEFINE v(j) == [width |-> Number(SubSeq(template, j, c)), left |-> template[j - 1] = "MINUS"]
    <3>1. \A w : w \in Alignments(a, c) <=> \E j \in a..q : NumberAt(a, c, j) /\ w = v(j)
      BY <2>2
    <3>2. \A j : Ending(v(j).width, v(j).left, f) = Aligned(j, c, f)
      <4>1. ASSUME NEW j PROVE Ending(v(j).width, v(j).left, f) = Aligned(j, c, f)
        <5>1. v(j).width = Number(SubSeq(template, j, c)) /\ v(j).left = (template[j - 1] = "MINUS")
          OBVIOUS
        <5> HIDE DEF v
        <5> QED BY <5>1, Zenon DEF Aligned
      <4> QED BY <4>1
    <3> HIDE DEF v
    <3>3. ASSUME NEW w \in Alignments(a, c), y = Ending(w.width, w.left, f)
          PROVE  \E j \in a..q : NumberAt(a, c, j) /\ y = Aligned(j, c, f)
      <4>1. PICK j \in a..q : NumberAt(a, c, j) /\ w = v(j)
        BY <3>1
      <4> QED BY <3>2, <3>3, <4>1
    <3>4. ASSUME NEW j \in a..q, NumberAt(a, c, j), y = Aligned(j, c, f)
          PROVE  \E w \in Alignments(a, c) : y = Ending(w.width, w.left, f)
      <4>1. v(j) \in Alignments(a, c)
        BY <3>1, <3>4
      <4> QED BY <3>2, <3>4, <4>1
    <3> QED BY <3>3, <3>4
  <2> QED BY <2>1, <2>3
<1>4. y \in (UNION {By(c) : c \in Places}) <=>
        \E c \in a..q, d \in a..q : c <= d /\ Run(c + 1, d, Blank) /\ y \in By(<<c, d>>)
  <2>1. \A c \in a..q, d \in a..q : <<c, d>> \in Places <=> c <= d /\ Run(c + 1, d, Blank)
    OBVIOUS
  <2>2. \A c \in Places : /\ c = <<c[1], c[2]>> /\ c[1] \in a..q /\ c[2] \in a..q
                          /\ c[1] <= c[2] /\ Run(c[1] + 1, c[2], Blank)
    OBVIOUS
  <2>3. y \in (UNION {By(c) : c \in Places}) <=> \E c \in Places : y \in By(c)
    <3> HIDE DEF By, Places
    <3> QED BY Zenon
  <2> HIDE DEF By, Places
  <2> QED BY <2>1, <2>2, <2>3
<1> HIDE DEF By, Places, Plain
<1>5. y \in Tails(a, q) <=>
        y \in Plain \/ \E c \in a..q, d \in a..q : c <= d /\ Run(c + 1, d, Blank) /\ y \in By(<<c, d>>)
  BY <1>1, <1>4
<1> DEFINE Given(c, d) == c <= d /\ Run(c + 1, d, Blank) /\ y \in By(<<c, d>>)
           Read(c, d) == \E j \in a..q : TailIsAligned(a, q, y, c, d, j)
<1>6. ASSUME NEW c \in a..q, NEW d \in a..q PROVE Given(c, d) <=> Read(c, d)
  BY <1>3 DEF TailIsAligned
<1>7. (\E c \in a..q, d \in a..q : Given(c, d)) <=> \E c \in a..q, d \in a..q : Read(c, d)
  <2> HIDE DEF Given, Read
  <2> QED BY <1>6
<1>8. y \in Tails(a, q) <=>
        \/ TailIsPlain(a, q, y)
        \/ \E c \in a..q, d \in a..q : Read(c, d)
  BY Zenon, <1>2, <1>5, <1>7
<1> QED BY <1>8

\* The readings of an item.
LEMMA ItemsElements ==
  ASSUME NEW p \in Nat, NEW q \in Int, NEW x
  PROVE  x \in Items(p, q) <=>
           \E c \in p..q, d \in p..q : \E w \in Tails(d + 1, q) :
             /\ c <= d /\ Run(c + 1, d, Blank) /\ SubSeq(template, p, c) \in Known
             /\ x = Filled(SubSeq(template, p, c), w)
<1> DEFINE Places == {d \in (p..q) \X (p..q) : /\ d[1] <= d[2] /\ Run(d[1] + 1, d[2], Blank)
                                              /\ SubSeq(template, p, d[1]) \in Known}
           By(c) == {[name |-> SubSeq(template, p, c[1]), width |-> w.width, left |-> w.left,
                      format |-> w.format] : w \in Tails(c[2] + 1, q)}
<1>1. Items(p, q) = UNION {By(c) : c \in Places}
  BY Zenon DEF Items
<1>2. \A c \in p..q, d \in p..q :
        x \in By(<<c, d>>) <=> \E w \in Tails(d + 1, q) : x = Filled(SubSeq(template, p, c), w)
  BY DEF Filled
<1>3. \A c \in p..q, d \in p..q :
        <<c, d>> \in Places <=>
          c <= d /\ Run(c + 1, d, Blank) /\ SubSeq(template, p, c) \in Known
  OBVIOUS
<1>4. \A c \in Places : /\ c = <<c[1], c[2]>> /\ c[1] \in p..q /\ c[2] \in p..q
  OBVIOUS
<1>5. x \in (UNION {By(c) : c \in Places}) <=> \E c \in Places : x \in By(c)
  <2> HIDE DEF By, Places
  <2> QED BY Zenon
<1> HIDE DEF By, Places
<1>6. x \in Items(p, q) <=> \E c \in p..q, d \in p..q : <<c, d>> \in Places /\ x \in By(<<c, d>>)
  BY <1>1, <1>4, <1>5
<1>7. ASSUME NEW c \in p..q, NEW d \in p..q
      PROVE  (<<c, d>> \in Places /\ x \in By(<<c, d>>)) <=>
               \E w \in Tails(d + 1, q) :
                 /\ c <= d /\ Run(c + 1, d, Blank) /\ SubSeq(template, p, c) \in Known
                 /\ x = Filled(SubSeq(template, p, c), w)
  BY <1>2, <1>3
<1> QED BY Zenon, <1>6, <1>7

\* What follows a name begins with one of three characters.
LEMMA FormatStart ==
  ASSUME TemplateOK, NEW a \in 1..length, NEW m \in Closes(a), NEW f \in Formats(a, m - 1)
  PROVE  template[a] \in {"COLON", "CLOSE"}
<1>1. CASE m = a
  BY <1>1 DEF Closes
<1>2. CASE m # a
  BY <1>2, FormatsElements
<1> QED BY <1>1, <1>2

\* What follows the name and its blanks begins with one of three characters.
LEMMA TailStart ==
  ASSUME TemplateOK, NEW a \in 1..length, NEW m \in Closes(a), NEW w \in Tails(a, m - 1)
  PROVE  template[a] \in {"COMMA", "COLON", "CLOSE"}
<1>1. a \in Nat /\ m - 1 \in Int
  BY DEF Closes, TemplateOK
<1>2. CASE TailIsPlain(a, m - 1, w)
  BY <1>2, FormatStart DEF TailIsPlain
<1>3. CASE \E c, d, j : TailIsAligned(a, m - 1, w, c, d, j)
  BY <1>3 DEF TailIsAligned, NumberAt
<1> QED BY <1>1, <1>2, <1>3, TailsElements

\* A known name in the template begins and goes on with the characters of a name.
LEMMA KnownFacts ==
  ASSUME TemplateOK, NEW p \in 1..length, NEW c \in 0..length, SubSeq(template, p, c) \in Known
  PROVE  c >= p /\ template[p] \in NameStart /\ Run(p, c, NameChars)
<1> DEFINE name == SubSeq(template, p, c)
           S == ToSet(template)
<1>1. name \in Seq(NameChars) /\ name # <<>> /\ name[1] \in NameStart
  BY TemplateAssumption
<1>2. p \in Int /\ c \in Int /\ length = Len(template) /\ length \in Nat
  BY DEF TemplateOK, length
<1>3. c >= p
  BY <1>1, <1>2, SubSeqEmpty
<1>4. \A k \in p..c : template[k] \in S
  BY <1>2, <1>3 DEF TemplateOK
<1>5. /\ Len(name) = c - p + 1
      /\ \A k \in 1..(c - p + 1) : name[k] = template[p + k - 1]
  BY <1>2, <1>3, <1>4, SubSeqProperties
<1> HIDE DEF name
<1>6. \A k \in 1..(c - p + 1) : name[k] \in NameChars
  BY <1>1, <1>5
<1>7. ASSUME NEW k \in p..c PROVE template[k] \in NameChars
  <2>1. k - p + 1 \in 1..(c - p + 1) /\ p + (k - p + 1) - 1 = k
    BY <1>2, <1>3
  <2> QED BY <1>5, <1>6, <2>1
<1>8. template[p] = name[1]
  <2>1. 1 \in 1..(c - p + 1) /\ p + 1 - 1 = p
    BY <1>2, <1>3
  <2> QED BY <1>5, <2>1
<1> QED BY <1>1, <1>3, <1>7, <1>8 DEF Run

\* An item with this name, and what follows after it up to m.
Named(x, name, after, m) ==
  name \in Known /\ after <= m /\ \E w \in Tails(after, m - 1) : x = Filled(name, w)

\* The name is what the scanner reads as one, and the tail begins where it goes on.
LEMMA NameIsRead ==
  ASSUME TemplateOK, NEW p \in 1..length, NEW m \in Closes(p + 1), NEW x,
         NEW next, next = While(NameChars, p), NEW after, after = While(Blank, next),
         NEW name, name = SubSeq(template, p, next - 1)
  PROVE  x \in Items(p, m - 1) <=> Named(x, name, after, m)
<1>1. p \in Nat /\ m \in (p + 1)..length /\ template[m] = "CLOSE" /\ length \in Nat
      /\ m \in Nat /\ m - 1 \in Int
  BY DEF Closes, TemplateOK
<1>2. next \in p..length /\ IsWhile(NameChars, p, next)
  BY WhileFacts
<1>3. after \in next..length /\ IsWhile(Blank, next, after)
  BY <1>1, <1>2, WhileFacts
<1>4. ASSUME x \in Items(p, m - 1)
      PROVE  name \in Known /\ after <= m /\ \E w \in Tails(after, m - 1) : x = Filled(name, w)
  <2>1. PICK c \in p..(m - 1), d \in p..(m - 1) : \E w \in Tails(d + 1, m - 1) :
             /\ c <= d /\ Run(c + 1, d, Blank) /\ SubSeq(template, p, c) \in Known
             /\ x = Filled(SubSeq(template, p, c), w)
    BY <1>1, <1>4, ItemsElements
  <2>2. PICK w \in Tails(d + 1, m - 1) : x = Filled(SubSeq(template, p, c), w)
    BY <2>1
  <2>3. d + 1 \in 1..length /\ m \in Closes(d + 1) /\ c \in 0..length /\ c \in p..d
        /\ d \in p..(length - 1)
    BY <1>1, <2>1 DEF Closes
  <2>4. template[d + 1] \in {"COMMA", "COLON", "CLOSE"}
    BY <2>2, <2>3, TailStart
  <2>5. Parts(NameChars, p, c, d)
    <3>1. template[d + 1] \notin NameChars /\ template[d + 1] \notin Blank
      BY <2>4 DEF NameChars, NameStart, Blank
    <3> QED BY <2>1, <2>3, <3>1, KnownFacts DEF Parts
  <2>6. next = c + 1 /\ after = d + 1
    <3>1. "BLANK" \notin NameChars
      BY DEF NameChars, NameStart
    <3> QED BY <2>3, <2>5, <3>1, PartsAreRead
  <2>7. next - 1 = c /\ after <= m
    BY <1>1, <2>3, <2>6
  <2> QED BY <2>1, <2>2, <2>6, <2>7
<1>5. ASSUME name \in Known, after <= m, NEW w \in Tails(after, m - 1), x = Filled(name, w)
      PROVE  x \in Items(p, m - 1)
  <2> DEFINE c == next - 1
             d == after - 1
  <2>1. c >= p
    BY <1>1, <1>2, <1>5, KnownFacts
  <2>2. c \in p..(m - 1) /\ d \in p..(m - 1) /\ c <= d /\ d + 1 = after /\ c + 1 = next
    BY <1>1, <1>2, <1>3, <1>5, <2>1
  <2>3. Run(c + 1, d, Blank)
    BY <1>3, <2>2 DEF IsWhile
  <2> QED BY <1>1, <1>5, <2>2, <2>3, ItemsElements
<1> QED BY <1>4, <1>5 DEF Named

\* A closing brace is not read as part of a name, nor of the blanks after it.
LEMMA NameStops ==
  ASSUME TemplateOK, NEW p \in 1..length, NEW m \in Closes(p),
         NEW next, next = While(NameChars, p), NEW after, after = While(Blank, next)
  PROVE  after <= m
<1>1. p \in Nat /\ m \in p..length /\ template[m] = "CLOSE" /\ length \in Nat /\ m \in Nat
  BY DEF Closes, TemplateOK
<1>2. next \in p..length /\ IsWhile(NameChars, p, next)
  BY WhileFacts
<1>3. after \in next..length /\ IsWhile(Blank, next, after)
  BY <1>1, <1>2, WhileFacts
<1>4. ~(m < after)
  <2> SUFFICES ASSUME m < after PROVE FALSE
    OBVIOUS
  <2>1. CASE m < next
    <3>1. m \in p..(next - 1)
      BY <1>1, <1>2, <2>1
    <3>2. template[m] \in NameChars
      BY <1>2, <3>1 DEF IsWhile, Run
    <3> QED BY <1>1, <3>2 DEF NameChars, NameStart
  <2>2. CASE next <= m
    <3>1. m \in next..(after - 1)
      BY <1>1, <1>2, <1>3, <2>2
    <3>2. template[m] \in Blank
      BY <1>3, <3>1 DEF IsWhile, Run
    <3> QED BY <1>1, <3>2 DEF Blank
  <2> QED BY <1>1, <1>2, <2>1, <2>2
<1> QED BY <1>1, <1>3, <1>4

\* Without a comma, a format follows.
LEMMA PlainTail ==
  ASSUME TemplateOK, NEW a \in 1..length, template[a] # "COMMA", NEW m \in Closes(a), NEW w
  PROVE  w \in Tails(a, m - 1) <=> \E f \in Formats(a, m - 1) : w = Ending(0, FALSE, f)
<1>1. a \in Nat /\ m - 1 \in Int
  BY DEF Closes, TemplateOK
<1>2. \A c, d, j : ~TailIsAligned(a, m - 1, w, c, d, j)
  BY DEF NumberAt, TailIsAligned
<1> QED BY <1>1, <1>2, TailsElements DEF TailIsPlain

\* The number of an alignment begins where the scanner looks for it.
LEMMA NumberIsRead ==
  ASSUME TemplateOK, NEW a \in 1..length, NEW c \in 1..(length - 1), NEW j, NumberAt(a, c, j),
         NEW sign, sign = While(Blank, a + 1)
  PROVE  /\ sign < length /\ template[j] \in Digits
         /\ j = IF template[sign] = "MINUS" THEN sign + 1 ELSE sign
<1>1. /\ a \in Nat /\ c \in Nat /\ length \in Nat /\ j \in (a + 1)..c /\ j \in Nat
      /\ a + 1 \in 1..length
  BY DEF NumberAt, TemplateOK
<1>2. template[j] \in Digits /\ template[a] = "COMMA"
  BY <1>1 DEF NumberAt, Run
<1>3. template[j] \notin Blank /\ template[j] # "MINUS"
  BY <1>2 DEF Digits, Blank
<1>4. CASE Run(a + 1, j - 1, Blank)
  <2>1. j \in (a + 1)..length
    BY <1>1
  <2>2. sign = j
    BY <1>1, <1>3, <1>4, <2>1, WhileIs
  <2> QED BY <1>1, <1>2, <1>3, <2>2
<1>5. CASE template[j - 1] = "MINUS" /\ Run(a + 1, j - 2, Blank)
  <2>1. j - 1 # a
    BY <1>2, <1>5
  <2>2. j - 1 \in (a + 1)..length /\ (j - 1) - 1 = j - 2 /\ (j - 1) + 1 = j
    BY <1>1, <2>1
  <2>3. template[j - 1] \notin Blank
    BY <1>5 DEF Blank
  <2>4. sign = j - 1
    BY <1>1, <1>5, <2>2, <2>3, WhileIs
  <2> QED BY <1>1, <1>2, <1>5, <2>2, <2>4
<1> QED BY <1>4, <1>5 DEF NumberAt

\* The minus sign is the character before the number.
LEMMA SignIsRead ==
  ASSUME TemplateOK, NEW a \in 1..length, template[a] = "COMMA", a < length,
         NEW sign, sign = While(Blank, a + 1), sign < length,
         NEW first, first = IF template[sign] = "MINUS" THEN sign + 1 ELSE sign
  PROVE  /\ first \in (a + 1)..length
         /\ \/ Run(a + 1, first - 1, Blank)
            \/ template[first - 1] = "MINUS" /\ Run(a + 1, first - 2, Blank)
         /\ (template[first - 1] = "MINUS") = (template[sign] = "MINUS")
<1>1. a \in Nat /\ length \in Nat /\ a + 1 \in 1..length
  BY DEF TemplateOK
<1>2. sign \in (a + 1)..length /\ IsWhile(Blank, a + 1, sign)
  BY <1>1, WhileFacts
<1>3. Run(a + 1, sign - 1, Blank)
  BY <1>2 DEF IsWhile
<1>4. CASE template[sign] = "MINUS"
  <2>1. first = sign + 1 /\ first - 1 = sign /\ first - 2 = sign - 1
    BY <1>1, <1>2, <1>4
  <2> QED BY <1>1, <1>2, <1>3, <1>4, <2>1
<1>5. CASE template[sign] # "MINUS"
  <2>1. first = sign
    BY <1>5
  <2>2. template[sign - 1] # "MINUS"
    <3>1. CASE sign - 1 = a
      BY <3>1
    <3>2. CASE sign - 1 # a
      <4>1. sign - 1 \in (a + 1)..(sign - 1)
        BY <1>1, <1>2, <3>2
      <4>2. template[sign - 1] \in Blank
        BY <1>3, <4>1 DEF Run
      <4> QED BY <4>2 DEF Blank
    <3> QED BY <3>1, <3>2
  <2>3. (template[sign - 1] = "MINUS") = (template[sign] = "MINUS")
    BY Zenon, <1>5, <2>2
  <2> QED BY <1>2, <1>3, <2>1, <2>3
<1> QED BY <1>4, <1>5

\* A tail with this alignment, and a format from a place on.
EndsWith(w, width, left, after, m) == \E f \in Formats(after, m - 1) : w = Ending(width, left, f)

\* After a comma, the alignment and the blanks after it are what the scanner reads.
LEMMA AlignmentIsRead ==
  ASSUME TemplateOK, NEW a \in 1..length, template[a] = "COMMA", NEW m \in Closes(a), NEW w,
         NEW sign, sign = While(Blank, a + 1), sign < length,
         NEW first, first = IF template[sign] = "MINUS" THEN sign + 1 ELSE sign,
         template[first] \in Digits,
         NEW next, next = While(Digits, first), NEW after, after = While(Blank, next)
  PROVE  /\ after <= m
         /\ w \in Tails(a, m - 1) <=>
              EndsWith(w, Number(SubSeq(template, first, next - 1)), template[sign] = "MINUS", after, m)
<1>1. /\ a \in Nat /\ length \in Nat /\ m \in a..length /\ template[m] = "CLOSE" /\ m # a
      /\ a < m /\ a < length /\ m \in Nat /\ m - 1 \in Int
  BY DEF Closes, TemplateOK
<1>2. /\ first \in (a + 1)..length /\ first \in 1..length
      /\ \/ Run(a + 1, first - 1, Blank)
         \/ template[first - 1] = "MINUS" /\ Run(a + 1, first - 2, Blank)
      /\ (template[first - 1] = "MINUS") = (template[sign] = "MINUS")
  BY <1>1, SignIsRead
<1>3. next \in first..length /\ IsWhile(Digits, first, next)
  BY <1>2, WhileFacts
<1>4. after \in next..length /\ IsWhile(Blank, next, after)
  BY <1>1, <1>2, <1>3, WhileFacts
<1>5. first < m
  <2> SUFFICES ASSUME m <= first PROVE FALSE
    BY <1>1, <1>2
  <2>1. m # first
    BY <1>1 DEF Digits
  <2>2. m \in (a + 1)..(first - 1)
    BY <1>1, <1>2, <2>1
  <2>3. CASE Run(a + 1, first - 1, Blank)
    BY <1>1, <2>2, <2>3 DEF Run, Blank
  <2>4. CASE template[first - 1] = "MINUS" /\ Run(a + 1, first - 2, Blank)
    <3>1. m # first - 1
      BY <1>1, <2>4
    <3>2. m \in (a + 1)..(first - 2)
      BY <1>1, <1>2, <2>2, <3>1
    <3> QED BY <1>1, <2>4, <3>2 DEF Run, Blank
  <2> QED BY <1>2, <2>3, <2>4
<1>6. after <= m
  <2> SUFFICES ASSUME m < after PROVE FALSE
    BY <1>1, <1>4
  <2>1. CASE m < next
    <3>1. m \in first..(next - 1)
      BY <1>1, <1>2, <1>3, <1>5, <2>1
    <3> QED BY <1>1, <1>3, <3>1 DEF IsWhile, Run, Digits
  <2>2. CASE next <= m
    <3>1. m \in next..(after - 1)
      BY <1>1, <1>2, <1>3, <1>4, <2>2
    <3> QED BY <1>1, <1>4, <3>1 DEF IsWhile, Run, Blank
  <2> QED BY <1>1, <1>2, <1>3, <2>1, <2>2
<1>7. first < next
  <2> SUFFICES ASSUME next = first PROVE FALSE
    BY <1>2, <1>3
  <2>1. next = length
    BY <1>3 DEF IsWhile
  <2> QED BY <1>1, <1>4, <1>5, <1>6, <2>1
<1> DEFINE e == Number(SubSeq(template, first, next - 1))
<1>8. \A f : Aligned(first, next - 1, f) = Ending(e, template[sign] = "MINUS", f)
  BY <1>2 DEF Aligned
<1> HIDE DEF e
<1>9. ASSUME w \in Tails(a, m - 1)
      PROVE  \E f \in Formats(after, m - 1) : w = Aligned(first, next - 1, f)
  <2>1. ~\E f \in Formats(a, m - 1) : TRUE
    BY FormatStart
  <2>a. ~TailIsPlain(a, m - 1, w)
    BY <2>1 DEF TailIsPlain
  <2>c. PICK c \in a..(m - 1), d \in a..(m - 1), j \in a..(m - 1) : TailIsAligned(a, m - 1, w, c, d, j)
    BY <1>1, <1>9, <2>a, TailsElements
  <2>2. c \in a..(m - 1) /\ d \in a..(m - 1) /\ j \in a..(m - 1)
        /\ \E f \in Formats(d + 1, m - 1) :
               c <= d /\ Run(c + 1, d, Blank) /\ NumberAt(a, c, j) /\ w = Aligned(j, c, f)
    BY <2>c DEF TailIsAligned
  <2>3. PICK f \in Formats(d + 1, m - 1) : w = Aligned(j, c, f)
    BY <2>2
  <2>4. /\ d + 1 \in 1..length /\ m \in Closes(d + 1) /\ c \in 1..(length - 1)
        /\ c \in j..d /\ d \in j..(length - 1) /\ j \in 1..length
    BY <1>1, <2>2 DEF Closes, NumberAt
  <2>5. j = first
    BY <2>2, <2>4, NumberIsRead
  <2>6. template[d + 1] \in {"COLON", "CLOSE"}
    BY <2>3, <2>4, FormatStart
  <2>7. Parts(Digits, j, c, d)
    BY <2>2, <2>4, <2>6 DEF Parts, NumberAt, Digits, Blank
  <2>8. next = c + 1 /\ after = d + 1
    <3>1. "BLANK" \notin Digits
      BY DEF Digits
    <3> QED BY <2>4, <2>5, <2>7, <3>1, PartsAreRead
  <2>9. next - 1 = c
    BY <2>4, <2>8
  <2> QED BY <2>3, <2>5, <2>8, <2>9
<1>10. ASSUME NEW f \in Formats(after, m - 1), w = Aligned(first, next - 1, f)
       PROVE  w \in Tails(a, m - 1)
  <2> DEFINE c == next - 1
             d == after - 1
  <2>1. /\ c \in a..(m - 1) /\ d \in a..(m - 1) /\ first \in a..(m - 1) /\ c <= d
        /\ d + 1 = after /\ c + 1 = next /\ first \in (a + 1)..c
    BY <1>1, <1>2, <1>3, <1>4, <1>5, <1>6, <1>7
  <2>2. Run(c + 1, d, Blank) /\ Run(first, c, Digits)
    BY <1>3, <1>4, <2>1 DEF IsWhile
  <2>3. NumberAt(a, c, first)
    BY <1>2, <2>1, <2>2 DEF NumberAt
  <2> HIDE DEF c, d
  <2>4. w = Aligned(first, c, f)
    BY <1>10 DEF c
  <2>5. TailIsAligned(a, m - 1, w, c, d, first)
    BY <2>1, <2>2, <2>3, <2>4 DEF TailIsAligned
  <2> QED BY <1>1, <2>1, <2>5, TailsElements
<1>11. w \in Tails(a, m - 1) <=> \E f \in Formats(after, m - 1) : w = Aligned(first, next - 1, f)
  BY <1>9, <1>10
<1> QED BY <1>6, <1>8, <1>11 DEF e, EndsWith

\* A format runs up to the next brace, which has to be the closing one.
LEMMA FormatIsRead ==
  ASSUME TemplateOK, NEW a \in 1..length, template[a] = "COLON", NEW m \in Closes(a), NEW f,
         NEW next, next = While(NoBrace, a + 1)
  PROVE  next <= m /\ (f \in Formats(a, m - 1) <=> m = next /\ f = SubSeq(template, a + 1, next - 1))
<1>1. /\ a \in Nat /\ length \in Nat /\ m \in a..length /\ template[m] = "CLOSE" /\ m # a
      /\ a < m /\ m \in (a + 1)..length /\ a + 1 \in 1..length
  BY DEF Closes, TemplateOK
<1>2. next \in (a + 1)..length /\ IsWhile(NoBrace, a + 1, next)
  BY <1>1, WhileFacts
<1>3. template[m] \notin NoBrace
  BY <1>1 DEF NoBrace, Braces
<1>4. next <= m
  <2> SUFFICES ASSUME m < next PROVE FALSE
    BY <1>1, <1>2
  <2>1. m \in (a + 1)..(next - 1)
    BY <1>1, <1>2
  <2> QED BY <1>2, <1>3, <2>1 DEF IsWhile, Run
<1>5. ASSUME f \in Formats(a, m - 1) PROVE m = next /\ f = SubSeq(template, a + 1, next - 1)
  <2>1. /\ f = SubSeq(template, a + 1, m - 1)
        /\ \A k \in (a + 1)..(m - 1) : template[k] \notin Braces
    BY <1>1, <1>5, FormatsElements
  <2>2. Run(a + 1, m - 1, NoBrace)
    BY <1>1, <2>1 DEF Run, NoBrace
  <2>3. next = m
    BY <1>1, <1>3, <2>2, WhileIs
  <2> QED BY <2>1, <2>3
<1>6. ASSUME m = next, f = SubSeq(template, a + 1, next - 1) PROVE f \in Formats(a, m - 1)
  <2>1. \A k \in (a + 1)..(m - 1) : template[k] \notin Braces
    BY <1>2, <1>6 DEF IsWhile, Run, NoBrace
  <2> QED BY <1>1, <1>6, <2>1, FormatsElements
<1> QED BY <1>4, <1>5, <1>6

\* Without a colon there is no format.
LEMMA NoFormatIsRead ==
  ASSUME TemplateOK, NEW a \in 1..length, template[a] # "COLON", NEW m \in Closes(a), NEW f
  PROVE  f \in Formats(a, m - 1) <=> m = a /\ f = NoFormat
BY FormatsElements

--------------------------------------------------------------------------------
(* What the grammar reads ahead of a place.                                *)

\* A sequence, of whatever.
IsSeq(s) == \E S : s \in Seq(S)

\* Two sequences make a sequence.
LEMMA ConcatIsSeq == ASSUME NEW r, NEW s, IsSeq(r), IsSeq(s) PROVE IsSeq(r \o s)
<1>1. PICK R : r \in Seq(R)
  BY DEF IsSeq
<1>2. PICK S : s \in Seq(S)
  BY DEF IsSeq
<1>3. r \in Seq(R \cup S) /\ s \in Seq(R \cup S)
  BY <1>1, <1>2
<1>4. r \o s \in Seq(R \cup S)
  BY <1>3, ConcatProperties
<1> QED BY <1>4 DEF IsSeq

\* Concatenation is associative, whatever the elements are.
LEMMA Associative ==
  ASSUME NEW r, NEW s, NEW u, IsSeq(r), IsSeq(s), IsSeq(u)
  PROVE  (r \o s) \o u = r \o (s \o u)
<1>1. PICK R : r \in Seq(R)
  BY DEF IsSeq
<1>2. PICK S : s \in Seq(S)
  BY DEF IsSeq
<1>3. PICK U : u \in Seq(U)
  BY DEF IsSeq
<1> DEFINE A == R \cup S \cup U
<1>4. r \in Seq(A) /\ s \in Seq(A) /\ u \in Seq(A)
  BY <1>1, <1>2, <1>3
<1> QED BY <1>4, ConcatAssociative

\* One more element at the end.
LEMMA Extended ==
  ASSUME NEW s, IsSeq(s), NEW x
  PROVE  /\ IsSeq(Append(s, x)) /\ IsSeq(<<x>>) /\ Append(s, x) = s \o <<x>>
         /\ IsSeq(<<>>) /\ s \o <<>> = s /\ <<>> \o s = s
<1>1. PICK S : s \in Seq(S)
  BY DEF IsSeq
<1> DEFINE A == S \cup {x}
<1>2. s \in Seq(A) /\ x \in A /\ <<x>> \in Seq(A) /\ <<>> \in Seq(A)
  BY <1>1
<1>3. Append(s, x) \in Seq(A) /\ Append(s, x) = s \o <<x>>
  BY <1>2, AppendProperties
<1>4. s \o <<>> = s /\ <<>> \o s = s
  BY <1>2, ConcatEmptySeq
<1> QED BY <1>2, <1>3, <1>4 DEF IsSeq

\* An element may be written before what follows it is read.
LEMMA AppendAhead ==
  ASSUME NEW b, IsSeq(b), NEW e, IsSeq(e), NEW x
  PROVE  /\ (Append(b, x) \o e) = (b \o (<<x>> \o e))
         /\ Append(b \o e, x) = (b \o Append(e, x))
<1>1. PICK y : y = <<x>>
  OBVIOUS
<1>2. IsSeq(y) /\ Append(b, x) = (b \o y) /\ Append(e, x) = (e \o y)
  BY <1>1, Extended
<1>3. ((b \o y) \o e) = (b \o (y \o e))
  BY <1>2, Associative
<1>4. ((b \o e) \o y) = (b \o (e \o y))
  BY <1>2, Associative
<1>5. IsSeq(b \o e)
  BY ConcatIsSeq
<1>6. Append(b \o e, x) = ((b \o e) \o y)
  BY <1>1, <1>5, Extended
<1> QED BY <1>1, <1>2, <1>3, <1>4, <1>6

\* R has the readings from each character of the template on.
IsReadings(R) == R = [n \in 1..(length + 1) |-> ReadingsAt(n, R)]

From == CHOOSE R : IsReadings(R)

\* The readings from a place on need those from later ones only.
LEMMA LaterOnly ==
  ASSUME TemplateOK, NEW n \in 1..(length + 1), NEW R, NEW Q,
         \A k \in (n + 1)..(length + 1) : R[k] = Q[k]
  PROVE  ReadingsAt(n, R) = ReadingsAt(n, Q)
<1>1. length \in Nat /\ n \in Nat /\ n >= 1
  BY DEF TemplateOK
<1>2. n # length + 1 => R[n + 1] = Q[n + 1]
  BY <1>1
<1>3. n < length => R[n + 2] = Q[n + 2]
  BY <1>1
<1> DEFINE After(x, m, P) == Ahead(x, P[m + 1])
           Item(m, P) == UNION {After(x, m, P) : x \in Items(n + 1, m - 1)}
<1>4. ASSUME NEW m \in Closes(n + 2) PROVE Item(m, R) = Item(m, Q)
  <2>1. m + 1 \in (n + 1)..(length + 1)
    BY <1>1 DEF Closes
  <2>2. R[m + 1] = Q[m + 1]
    BY <2>1
  <2> QED BY <2>2
<1>5. (UNION {Item(m, R) : m \in Closes(n + 2)}) = (UNION {Item(m, Q) : m \in Closes(n + 2)})
  <2> HIDE DEF Item
  <2> QED BY <1>4
<1> QED BY <1>2, <1>3, <1>5 DEF ReadingsAt

\* The readings from each character on satisfy their own equations.
LEMMA FromFacts ==
  ASSUME TemplateOK
  PROVE  /\ Readings = From[1]
         /\ \A n \in 1..(length + 1) : From[n] = ReadingsAt(n, From)
<1> DEFINE l == length + 1
           Good(n, g) == /\ g = [k \in 1..l |-> g[k]]
                         /\ \A k \in (n + 1)..l : g[k] = ReadingsAt(k, g)
           T == {n \in Nat : \E g : Good(n, g)}
<1>1. l \in Nat
  BY DEF TemplateOK
<1>2. l \in T
  <2>1. Good(l, [k \in 1..l |-> k])
    BY <1>1
  <2> QED BY <1>1, <2>1
<1>3. ASSUME NEW n \in 0..l, n + 1 \in T, n < l PROVE n \in T
  <2>1. PICK g : Good(n + 1, g)
    BY <1>3
  <2> DEFINE h == [k \in 1..l |-> IF k = n + 1 THEN ReadingsAt(k, g) ELSE g[k]]
  <2>2. h = [k \in 1..l |-> h[k]]
    OBVIOUS
  <2>3. ASSUME NEW k \in (n + 1)..l PROVE h[k] = ReadingsAt(k, h)
    <3>1. k \in 1..l /\ \A j \in (k + 1)..l : g[j] = h[j]
      BY <1>1, <1>3, <2>3
    <3>2. k \in 1..(length + 1) /\ \A j \in (k + 1)..(length + 1) : g[j] = h[j]
      BY <3>1
    <3> HIDE DEF h
    <3>3. ReadingsAt(k, g) = ReadingsAt(k, h)
      BY <3>2, LaterOnly
    <3>4. CASE k = n + 1
      BY <3>1, <3>3, <3>4 DEF h
    <3>5. CASE k # n + 1
      <4>1. k \in ((n + 1) + 1)..l
        BY <1>1, <1>3, <2>3, <3>5
      <4>2. g[k] = ReadingsAt(k, g)
        BY <2>1, <4>1
      <4> QED BY <3>1, <3>3, <3>5, <4>2 DEF h
    <3> QED BY <3>4, <3>5
  <2>4. Good(n, h)
    <3> HIDE DEF h
    <3> QED BY <2>2, <2>3
  <2>5. n \in Nat /\ \E g2 : Good(n, g2)
    <3> HIDE DEF Good, h
    <3> QED BY <1>1, <1>3, <2>4
  <2> QED BY <2>5
<1>4. \A n \in 0..l : n \in T
  <2> HIDE DEF T, l
  <2> QED BY <1>1, <1>2, <1>3, DownInd
<1>5. PICK g : Good(0, g)
  BY <1>1, <1>4
<1>6. IsReadings(g)
  <2>1. \A k \in 1..l : g[k] = ReadingsAt(k, g)
    BY <1>1, <1>5
  <2>2. g = [k \in 1..l |-> ReadingsAt(k, g)]
    BY <1>5, <2>1
  <2> QED BY <2>2 DEF IsReadings
<1>7. IsReadings(From)
  BY <1>6, Zenon DEF From
<1>8. Readings = From[1]
  BY Zenon DEF Readings, From, IsReadings
<1>9. ASSUME NEW n \in 1..(length + 1) PROVE From[n] = ReadingsAt(n, From)
  BY <1>7 DEF IsReadings
<1> QED BY <1>8, <1>9

\* A reading is a sequence: by induction from the end of the template.
LEMMA FromTypes ==
  ASSUME TemplateOK
  PROVE  \A n \in 1..(length + 1) : \A r \in From[n] : IsSeq(r)
<1> DEFINE l == length + 1
           T == {n \in Nat : \A k \in 1..l : k >= n => \A r \in From[k] : IsSeq(r)}
<1>1. l \in Nat /\ length \in Nat
  BY DEF TemplateOK
<1>2. ASSUME NEW n \in 1..l, n + 1 \in T PROVE \A r \in From[n] : IsSeq(r)
  <2>1. \A k \in (n + 1)..l : \A r \in From[k] : IsSeq(r)
    BY <1>1, <1>2
  <2>2. ASSUME NEW k \in (n + 1)..l, NEW x, NEW r \in Ahead(x, From[k]) PROVE IsSeq(r)
    <3>1. PICK s \in From[k] : r = <<x>> \o s
      BY DEF Ahead
    <3>2. IsSeq(s)
      BY <2>1
    <3>3. IsSeq(<<x>>)
      BY <3>2, Extended
    <3> QED BY <3>1, <3>2, <3>3, ConcatIsSeq
  <2>3. From[n] = ReadingsAt(n, From) /\ n \in Nat
    BY <1>1, FromFacts
  <2>4. CASE n = length + 1
    <3>1. From[n] = {<<>>}
      BY <2>3, <2>4 DEF ReadingsAt
    <3>2. <<>> \in Seq({})
      OBVIOUS
    <3> QED BY <3>1, <3>2 DEF IsSeq
  <2>5. CASE n # length + 1 /\ template[n] \notin Braces
    <3>1. From[n] = Ahead(template[n], From[n + 1]) /\ n + 1 \in (n + 1)..l
      BY <1>1, <2>3, <2>5 DEF ReadingsAt
    <3> QED BY <2>2, <3>1
  <2>6. CASE n # length + 1 /\ template[n] \in Braces /\ n < length /\ template[n + 1] = template[n]
    <3>1. From[n] = Ahead(template[n], From[n + 2]) /\ n + 2 \in (n + 1)..l
      BY <1>1, <2>3, <2>6 DEF ReadingsAt
    <3> QED BY <2>2, <3>1
  <2>7. CASE n # length + 1 /\ template[n] \in Braces /\ ~(n < length /\ template[n + 1] = template[n])
    <3> DEFINE Item(m) == UNION {Ahead(x, From[m + 1]) : x \in Items(n + 1, m - 1)}
    <3>1. From[n] \subseteq UNION {Item(m) : m \in Closes(n + 2)}
      <4> HIDE DEF Item
      <4>1. From[n] = {} \/ From[n] = UNION {Item(m) : m \in Closes(n + 2)}
        BY <2>3, <2>7 DEF ReadingsAt, Item
      <4> QED BY <4>1
    <3>2. ASSUME NEW m \in Closes(n + 2), NEW r \in Item(m) PROVE IsSeq(r)
      <4>1. PICK x : r \in Ahead(x, From[m + 1])
        BY <3>2
      <4>2. m + 1 \in (n + 1)..l
        BY <1>1, <2>3 DEF Closes
      <4> QED BY <2>2, <4>1, <4>2
    <3> HIDE DEF Item
    <3> QED BY <3>1, <3>2
  <2> QED BY <2>4, <2>5, <2>6, <2>7
<1>3. l + 1 \in T
  BY <1>1
<1>4. ASSUME NEW n \in 0..(l + 1), n + 1 \in T, n < l + 1 PROVE n \in T
  <2>1. ASSUME NEW k \in 1..l, k >= n PROVE \A r \in From[k] : IsSeq(r)
    <3>1. CASE k = n
      BY <1>2, <1>4, <2>1, <3>1
    <3>2. CASE k # n
      <4>1. k >= n + 1
        BY <1>1, <1>4, <2>1, <3>2
      <4> QED BY <1>4, <4>1
    <3> QED BY <3>1, <3>2
  <2> QED BY <1>1, <1>4, <2>1
<1>5. \A n \in 0..(l + 1) : n \in T
  <2> HIDE DEF T, l
  <2> QED BY <1>1, <1>3, <1>4, DownInd
<1> QED BY <1>1, <1>5

\* What was written, followed by the readings from n on, is what there is to read.
AheadIs(n, b) ==
  /\ n \in 1..(length + 1) /\ IsSeq(b)
  /\ Readings = {b \o r : r \in From[n]}

\* At the start nothing is written, and all is to be read.
LEMMA AheadStart == ASSUME TemplateOK PROVE AheadIs(1, <<>>)
<1>1. 1 \in 1..(length + 1)
  BY DEF TemplateOK
<1>2. ASSUME NEW r \in From[1] PROVE IsSeq(r) /\ <<>> \o r = r
  BY <1>1, FromTypes, Extended
<1>3. From[1] = {<<>> \o r : r \in From[1]}
  BY <1>2
<1>4. <<>> \in Seq({})
  OBVIOUS
<1> QED BY <1>1, <1>3, <1>4, FromFacts DEF AheadIs, IsSeq

\* When every reading from n on begins with x, x may be written.
LEMMA AheadGoesOn ==
  ASSUME TemplateOK, NEW n, NEW b, AheadIs(n, b), NEW k \in 1..(length + 1), NEW x,
         From[n] = Ahead(x, From[k])
  PROVE  AheadIs(k, Append(b, x))
<1>1. IsSeq(b) /\ Readings = {b \o r : r \in From[n]}
  BY DEF AheadIs
<1>2. IsSeq(Append(b, x)) /\ IsSeq(<<x>>) /\ Append(b, x) = b \o <<x>>
  BY <1>1, Extended
<1>3. ASSUME NEW r \in From[k] PROVE b \o (<<x>> \o r) = Append(b, x) \o r
  <2>1. IsSeq(r)
    BY FromTypes
  <2>2. Append(b, x) \o r = b \o (<<x>> \o r)
    BY <1>1, <2>1, AppendAhead, SMT
  <2> QED BY <2>2, Zenon
<1>4. {b \o r : r \in From[n]} = {b \o (<<x>> \o r) : r \in From[k]}
  BY DEF Ahead
<1>5. {b \o (<<x>> \o r) : r \in From[k]} = {Append(b, x) \o r : r \in From[k]}
  BY <1>3
<1> QED BY <1>1, <1>2, <1>4, <1>5 DEF AheadIs

\* When there is no reading from here on, the template has none.
LEMMA AheadNothing ==
  ASSUME NEW n, NEW b, AheadIs(n, b), From[n] = {} PROVE Readings = {}
BY DEF AheadIs

\* At the end, what was written is the only reading.
LEMMA AheadEnd ==
  ASSUME TemplateOK, NEW b, AheadIs(length + 1, b) PROVE Readings = {b}
<1>1. From[length + 1] = {<<>>}
  <2>1. length + 1 \in 1..(length + 1)
    BY DEF AheadIs
  <2> QED BY <2>1, FromFacts DEF ReadingsAt
<1>2. IsSeq(b) /\ Readings = {b \o r : r \in From[length + 1]}
  BY DEF AheadIs
<1>3. b \o <<>> = b
  BY <1>2, Extended
<1> QED BY <1>1, <1>2, <1>3

\* A character that is no brace, and a brace that comes twice.
LEMMA AheadCharacter ==
  ASSUME TemplateOK, NEW n \in 1..length, NEW b, AheadIs(n, b), template[n] \notin Braces
  PROVE  AheadIs(n + 1, Append(b, template[n]))
<1>1. n \in 1..(length + 1) /\ n + 1 \in 1..(length + 1) /\ n # length + 1
  BY DEF TemplateOK
<1>2. From[n] = Ahead(template[n], From[n + 1])
  BY <1>1, FromFacts DEF ReadingsAt
<1> QED BY <1>1, <1>2, AheadGoesOn

\* A doubled brace is read as one.
LEMMA AheadDoubled ==
  ASSUME TemplateOK, NEW n \in 1..length, NEW b, AheadIs(n, b), template[n] \in Braces,
         n < length, template[n + 1] = template[n]
  PROVE  AheadIs(n + 2, Append(b, template[n]))
<1>1. n \in 1..(length + 1) /\ n + 2 \in 1..(length + 1) /\ n # length + 1
  BY DEF TemplateOK
<1>2. From[n] = Ahead(template[n], From[n + 2])
  BY <1>1, FromFacts DEF ReadingsAt
<1> QED BY <1>1, <1>2, AheadGoesOn

\* A stretch of text.
LEMMA AheadText ==
  ASSUME TemplateOK, NEW n \in 1..length, NEW b, AheadIs(n, b), NEW e \in n..length,
         \A k \in n..e : template[k] \notin Braces
  PROVE  AheadIs(e + 1, b \o SubSeq(template, n, e))
<1> DEFINE S == ToSet(template)
           T == {j \in Nat : AheadIs(n + j, b \o SubSeq(template, n, n + j - 1))}
           l == e - n + 1
<1>1. /\ length \in Nat /\ n \in Nat /\ e \in Nat /\ l \in Nat /\ template \in Seq(S)
      /\ length = Len(template) /\ IsSeq(b)
  BY DEF TemplateOK, AheadIs, length
<1>2. 0 \in T
  <2>1. n + 0 = n /\ n + 0 - 1 = n - 1 /\ n - 1 < n
    BY <1>1
  <2>2. SubSeq(template, n, n - 1) = <<>>
    BY <1>1, SubSeqEmpty
  <2>3. b \o <<>> = b
    BY <1>1, Extended
  <2> QED BY <2>1, <2>2, <2>3
<1>3. ASSUME NEW j \in 0..l, j \in T, j < l PROVE j + 1 \in T
  <2> DEFINE m == n + j
             s == SubSeq(template, n, m - 1)
  <2>1. /\ m \in n..e /\ m \in 1..length /\ n + (j + 1) = m + 1 /\ n + (j + 1) - 1 = m
        /\ m - 1 \in Int /\ m \in Nat
    BY <1>1, <1>3
  <2>2. AheadIs(m, b \o s)
    BY <1>3
  <2>3. AheadIs(m + 1, Append(b \o s, template[m]))
    BY <2>1, <2>2, AheadCharacter
  <2>4. \A k \in n..m : template[k] \in S
    BY <1>1, <2>1
  <2>5. s \in Seq(S) /\ SubSeq(template, n, m) = Append(s, template[m])
    <3>1. \A k \in n..(m - 1) : template[k] \in S
      BY <1>1, <2>4
    <3>2. s \in Seq(S)
      BY <1>1, <2>1, <3>1, SubSeqProperties
    <3>3. SubSeq(template, n, m) = Append(SubSeq(template, n, m - 1), template[m])
      BY <1>1, <2>1, <2>4, SubSeqRecursiveSecond
    <3> QED BY <3>2, <3>3
  <2>6. IsSeq(s) /\ IsSeq(b \o s)
    BY <2>2, <2>5 DEF IsSeq, AheadIs
  <2> HIDE DEF s, m
  <2>7. Append(b \o s, template[m]) = b \o Append(s, template[m])
    BY <1>1, <2>6, AppendAhead
  <2>8. AheadIs(m + 1, b \o SubSeq(template, n, m))
    BY <2>3, <2>5, <2>7
  <2>9. AheadIs(n + (j + 1), b \o SubSeq(template, n, n + (j + 1) - 1)) /\ j + 1 \in Nat
    BY <1>3, <2>1, <2>8
  <2> QED BY <2>9
<1>4. \A j \in 0..l : j \in T
  <2> HIDE DEF T, l
  <2> QED BY <1>1, <1>2, <1>3, UptoInd
<1>5. n + l = e + 1 /\ n + l - 1 = e /\ l \in 0..l
  BY <1>1
<1>6. AheadIs(n + l, b \o SubSeq(template, n, n + l - 1))
  <2>1. l \in T
    <3> HIDE DEF T
    <3> QED BY <1>4, <1>5
  <2> QED BY <2>1
<1> QED BY <1>5, <1>6

\* An item.
LEMMA AheadItem ==
  ASSUME TemplateOK, NEW n \in 1..length, NEW b, AheadIs(n, b),
         template[n] = "OPEN", ~(n < length /\ template[n + 1] = template[n]),
         NEW i, NEW it, \A m \in Closes(n + 2) : \A x : x \in Items(n + 1, m - 1) <=> m = i /\ x = it
  PROVE  IF i \in Closes(n + 2) THEN AheadIs(i + 1, Append(b, it)) ELSE Readings = {}
<1>1. n \in 1..(length + 1) /\ n # length + 1 /\ n \in Nat /\ length \in Nat
  BY DEF TemplateOK
<1> DEFINE Item(m) == UNION {Ahead(x, From[m + 1]) : x \in Items(n + 1, m - 1)}
<1>2. From[n] = UNION {Item(m) : m \in Closes(n + 2)}
  BY <1>1, FromFacts DEF ReadingsAt, Braces
<1>3. ASSUME NEW m \in Closes(n + 2) PROVE Item(m) = IF m = i THEN Ahead(it, From[i + 1]) ELSE {}
  <2>1. Items(n + 1, m - 1) = IF m = i THEN {it} ELSE {}
    OBVIOUS
  <2> QED BY <2>1
<1> HIDE DEF Item
<1>4. CASE i \in Closes(n + 2)
  <2>1. From[n] = Ahead(it, From[i + 1])
    BY <1>2, <1>3, <1>4
  <2>2. i + 1 \in 1..(length + 1)
    BY <1>1, <1>4 DEF Closes
  <2> QED BY <1>4, <2>1, <2>2, AheadGoesOn
<1>5. CASE i \notin Closes(n + 2)
  <2>1. From[n] = {}
    BY <1>2, <1>3, <1>5
  <2> QED BY <1>5, <2>1, AheadNothing
<1> QED BY <1>4, <1>5

--------------------------------------------------------------------------------
(* Inside an item.                                                         *)

\* What is left to read of the item up to the closing brace m decides whether it is x.
RestIs(where, i, m, it, x) ==
  IF where = "alignment" THEN \E w \in Tails(i, m - 1) : x = Filled(it.name, w)
  ELSE IF where = "format"
  THEN \E f \in Formats(i, m - 1) : x = Filled(it.name, Ending(it.width, it.left, f))
  ELSE m = i /\ x = it

\* An item begins at the brace at n, and the scanner has read it up to i.
InItem(n, b, i, it, where) ==
  /\ n \in 1..length /\ AheadIs(n, b)
  /\ template[n] = "OPEN" /\ ~(n < length /\ template[n + 1] = template[n])
  /\ i \in (n + 2)..length
  /\ it = [name |-> it.name, width |-> it.width, left |-> it.left, format |-> it.format]
  /\ \A m \in Closes(n + 2) :
       i <= m /\ \A x : x \in Items(n + 1, m - 1) <=> RestIs(where, i, m, it, x)

\* The template has no reading when the item cannot be completed.
LEMMA NoItem ==
  ASSUME TemplateOK, NEW n, NEW b, NEW i, NEW it, NEW where, InItem(n, b, i, it, where),
         \A m \in Closes(n + 2) : i <= m => \A x : ~RestIs(where, i, m, it, x)
  PROVE  Readings = {}
<1>1. \A m \in Closes(n + 2) : \A x : x \in Items(n + 1, m - 1) <=> m = 0 /\ x = it
  <2>1. \A m \in Closes(n + 2) : m # 0
    BY DEF Closes, InItem
  <2> QED BY <2>1 DEF InItem
<1>2. 0 \notin Closes(n + 2)
  BY DEF Closes, InItem
<1>3. /\ n \in 1..length /\ AheadIs(n, b) /\ template[n] = "OPEN"
      /\ ~(n < length /\ template[n + 1] = template[n])
  BY DEF InItem
<1> QED BY <1>1, <1>2, <1>3, AheadItem

\* An item of which the name was read.
NewItem(name) == [name |-> name, width |-> 0, left |-> FALSE, format |-> NoFormat]

\* A brace that begins nothing.
LEMMA NoName ==
  ASSUME TemplateOK, NEW n \in 1..length, NEW b, AheadIs(n, b), template[n] = "OPEN",
         ~(n < length /\ template[n + 1] = template[n]),
         \/ n = length \/ template[n + 1] \notin NameStart
         \/ SubSeq(template, n + 1, While(NameChars, n + 1) - 1) \notin Known
  PROVE  Readings = {}
<1>1. n \in Nat /\ length \in Nat
  BY DEF TemplateOK
<1>2. ASSUME NEW m \in Closes(n + 2), NEW x PROVE x \notin Items(n + 1, m - 1)
  <2>1. m \in (n + 2)..length /\ n + 1 \in 1..length /\ m \in Closes((n + 1) + 1) /\ m - 1 \in Int
        /\ n + 1 \in Nat
    BY <1>1 DEF Closes
  <2>2. CASE SubSeq(template, n + 1, While(NameChars, n + 1) - 1) \notin Known
    BY <2>1, <2>2, NameIsRead DEF Named
  <2>3. CASE template[n + 1] \notin NameStart
    <3> SUFFICES ASSUME x \in Items(n + 1, m - 1) PROVE FALSE
      OBVIOUS
    <3>1. PICK c \in (n + 1)..(m - 1) : SubSeq(template, n + 1, c) \in Known
      BY <2>1, ItemsElements
    <3>2. c \in 0..length
      BY <1>1, <2>1
    <3> QED BY <2>1, <2>3, <3>1, <3>2, KnownFacts
  <2>4. n # length
    BY <1>1, <2>1
  <2> QED BY <2>2, <2>3, <2>4
<1>3. \A m \in Closes(n + 2) : \A x : x \in Items(n + 1, m - 1) <=> m = 0 /\ x = 0
  <2>1. \A m \in Closes(n + 2) : m # 0
    BY <1>1 DEF Closes
  <2> QED BY <1>2, <2>1
<1>4. 0 \notin Closes(n + 2)
  BY <1>1 DEF Closes
<1> QED BY <1>3, <1>4, AheadItem

\* The scanner reads the name and the blanks after it.
LEMMA NameStep ==
  ASSUME TemplateOK, NEW n \in 1..length, NEW b, AheadIs(n, b), template[n] = "OPEN",
         ~(n < length /\ template[n + 1] = template[n]), n # length,
         NEW next, next = While(NameChars, n + 1), NEW name, name = SubSeq(template, n + 1, next - 1),
         name \in Known, NEW after, after = While(Blank, next)
  PROVE  /\ InItem(n, b, after, NewItem(name), "alignment")
         /\ after = length \/ template[after] \notin Blank
<1>1. n \in Nat /\ length \in Nat /\ n + 1 \in 1..length
  BY DEF TemplateOK
<1>2. next \in (n + 1)..length
  BY <1>1, WhileFacts
<1>3. next - 1 >= n + 1
  <2>1. next - 1 \in 0..length
    BY <1>1, <1>2
  <2> QED BY <1>1, <2>1, KnownFacts
<1>4. after \in next..length /\ IsWhile(Blank, next, after)
  BY <1>1, <1>2, WhileFacts
<1>5. after \in (n + 2)..length
  BY <1>1, <1>2, <1>3, <1>4
<1> DEFINE it == NewItem(name)
<1>6. /\ it = [name |-> it.name, width |-> it.width, left |-> it.left, format |-> it.format]
      /\ it.name = name
  BY DEF NewItem
<1> HIDE DEF it
<1>7. ASSUME NEW m \in Closes(n + 2)
      PROVE  after <= m /\ \A x : x \in Items(n + 1, m - 1) <=> RestIs("alignment", after, m, it, x)
  <2>1. m \in Closes((n + 1) + 1) /\ m \in Closes(n + 1)
    BY <1>1 DEF Closes
  <2>2. after <= m
    BY <1>1, <2>1, NameStops
  <2>3. \A x : x \in Items(n + 1, m - 1) <=> \E w \in Tails(after, m - 1) : x = Filled(name, w)
    <3> SUFFICES ASSUME NEW x
                 PROVE  x \in Items(n + 1, m - 1) <=> \E w \in Tails(after, m - 1) : x = Filled(name, w)
      OBVIOUS
    <3>1. x \in Items(n + 1, m - 1) <=> Named(x, name, after, m)
      BY <1>1, <2>1, NameIsRead
    <3> QED BY <2>2, <3>1 DEF Named
  <2> QED BY <1>6, <2>2, <2>3 DEF RestIs
<1>8. InItem(n, b, after, it, "alignment")
  BY <1>5, <1>6, <1>7 DEF InItem
<1> QED BY <1>4, <1>8 DEF it, IsWhile

\* No alignment.
LEMMA PlainStep ==
  ASSUME TemplateOK, NEW n, NEW b, NEW i, NEW name, InItem(n, b, i, NewItem(name), "alignment"),
         template[i] # "COMMA", i = length \/ template[i] \notin Blank
  PROVE  While(Blank, i) = i /\ InItem(n, b, i, NewItem(name), "format")
<1> DEFINE it == NewItem(name)
<1>1. i \in (n + 2)..length /\ i \in 1..length /\ n \in Nat /\ length \in Nat /\ i \in Nat
  BY DEF TemplateOK, InItem
<1>2. While(Blank, i) = i
  <2>1. While(Blank, i) \in i..length /\ IsWhile(Blank, i, While(Blank, i))
    BY <1>1, WhileFacts
  <2>2. CASE i = length
    BY <1>1, <2>1, <2>2
  <2>3. CASE i # length
    <3>1. Run(i, i - 1, Blank) /\ i \in i..length
      BY <1>1 DEF Run
    <3> QED BY <1>1, <2>3, <3>1, WhileIs
  <2> QED BY <2>2, <2>3
<1>3. it.name = name /\ it.width = 0 /\ it.left = FALSE
  BY DEF NewItem
<1> HIDE DEF it
<1>4. ASSUME NEW m \in Closes(n + 2)
      PROVE  i <= m /\ \A x : x \in Items(n + 1, m - 1) <=> RestIs("format", i, m, it, x)
  <2>1. /\ i <= m
        /\ \A x : x \in Items(n + 1, m - 1) <=> \E w \in Tails(i, m - 1) : x = Filled(name, w)
    BY <1>3 DEF InItem, RestIs, it
  <2>2. m \in Closes(i)
    BY <1>1, <2>1 DEF Closes
  <2>3. \A w : w \in Tails(i, m - 1) <=> \E f \in Formats(i, m - 1) : w = Ending(0, FALSE, f)
    BY <1>1, <2>2, PlainTail
  <2>4. \A x : (\E w \in Tails(i, m - 1) : x = Filled(name, w))
                 <=> \E f \in Formats(i, m - 1) : x = Filled(name, Ending(0, FALSE, f))
    BY <2>3
  <2>5. \A x : RestIs("format", i, m, it, x)
                 <=> \E f \in Formats(i, m - 1) : x = Filled(name, Ending(0, FALSE, f))
    BY <1>3 DEF RestIs
  <2> QED BY <2>1, <2>4, <2>5
<1>5. InItem(n, b, i, it, "format")
  <2>1. InItem(n, b, i, it, "alignment")
    BY DEF it
  <2> QED BY <1>4, <2>1 DEF InItem
<1> QED BY <1>2, <1>5 DEF it

\* A comma that no number follows.
LEMMA NoAlignment ==
  ASSUME TemplateOK, NEW n, NEW b, NEW i, NEW it, InItem(n, b, i, it, "alignment"),
         template[i] = "COMMA", NEW sign, sign = While(Blank, i + 1),
         NEW first, first = IF template[sign] = "MINUS" THEN sign + 1 ELSE sign,
         i = length \/ sign = length \/ template[first] \notin Digits
  PROVE  Readings = {}
<1>1. i \in 1..length /\ length \in Nat /\ i \in Nat
  BY DEF TemplateOK, InItem
<1>2. ASSUME NEW m \in Closes(n + 2), i <= m, NEW w \in Tails(i, m - 1) PROVE FALSE
  <2>1. /\ m \in Closes(i) /\ m \in i..length /\ m # i /\ i # length /\ m - 1 \in Int
    BY <1>1, <1>2 DEF Closes
  <2>2. ~TailIsPlain(i, m - 1, w)
    BY <1>1, <2>1, FormatStart DEF TailIsPlain
  <2>3. PICK c \in i..(m - 1), d \in i..(m - 1), j \in i..(m - 1) : TailIsAligned(i, m - 1, w, c, d, j)
    BY <1>1, <1>2, <2>1, <2>2, TailsElements
  <2>4. NumberAt(i, c, j) /\ c \in 1..(length - 1)
    BY <1>1, <2>1, <2>3 DEF TailIsAligned
  <2>5. sign < length /\ template[first] \in Digits
    BY <1>1, <2>4, NumberIsRead
  <2> QED BY <1>1, <2>1, <2>5
<1>3. \A m \in Closes(n + 2) : i <= m => \A x : ~RestIs("alignment", i, m, it, x)
  BY <1>2 DEF RestIs
<1> QED BY <1>3, NoItem

\* An alignment.
LEMMA AlignmentStep ==
  ASSUME TemplateOK, NEW n, NEW b, NEW i, NEW it, InItem(n, b, i, it, "alignment"),
         template[i] = "COMMA", NEW sign, sign = While(Blank, i + 1),
         NEW first, first = IF template[sign] = "MINUS" THEN sign + 1 ELSE sign,
         i # length, sign # length, template[first] \in Digits,
         NEW next, next = While(Digits, first), NEW after, after = While(Blank, next),
         NEW aligned, aligned = [name |-> it.name, width |-> Number(SubSeq(template, first, next - 1)),
                                 left |-> template[sign] = "MINUS", format |-> it.format]
  PROVE  InItem(n, b, after, aligned, "format")
<1>1. i \in (n + 2)..length /\ i \in 1..length /\ n \in Nat /\ length \in Nat /\ i \in Nat
  BY DEF TemplateOK, InItem
<1>2. sign \in (i + 1)..length /\ sign < length
  BY <1>1, WhileFacts
<1>3. first \in (i + 1)..length
  BY <1>1, <1>2, SignIsRead
<1>4. next \in first..length
  BY <1>1, <1>3, WhileFacts
<1>5. after \in next..length
  BY <1>1, <1>3, <1>4, WhileFacts
<1>6. after \in (n + 2)..length
  BY <1>1, <1>3, <1>4, <1>5
<1> DEFINE width == Number(SubSeq(template, first, next - 1))
           left == template[sign] = "MINUS"
<1>7. /\ aligned.name = it.name /\ aligned.width = width
      /\ aligned = [name |-> aligned.name, width |-> aligned.width, left |-> aligned.left,
                    format |-> aligned.format]
  OBVIOUS
<1>8. aligned.left = left
  BY Zenon
<1> HIDE DEF width, left
<1>9. ASSUME NEW m \in Closes(n + 2)
      PROVE  after <= m /\ \A x : x \in Items(n + 1, m - 1) <=> RestIs("format", after, m, aligned, x)
  <2>1. i <= m /\ \A x : x \in Items(n + 1, m - 1) <=> RestIs("alignment", i, m, it, x)
    BY DEF InItem
  <2>2. m \in Closes(i)
    BY <1>1, <2>1 DEF Closes
  <2>3. ASSUME NEW w PROVE after <= m /\ (w \in Tails(i, m - 1) <=> EndsWith(w, width, left, after, m))
    BY <1>1, <1>2, <2>2, AlignmentIsRead DEF width, left
  <2>4. ASSUME NEW x PROVE RestIs("alignment", i, m, it, x) <=> RestIs("format", after, m, aligned, x)
    <3>1. RestIs("alignment", i, m, it, x) <=> \E w \in Tails(i, m - 1) : x = Filled(it.name, w)
      BY DEF RestIs
    <3>2. (\E w \in Tails(i, m - 1) : x = Filled(it.name, w))
            <=> \E w : EndsWith(w, width, left, after, m) /\ x = Filled(it.name, w)
      BY <2>3
    <3>3. (\E w : EndsWith(w, width, left, after, m) /\ x = Filled(it.name, w))
            <=> \E f \in Formats(after, m - 1) : x = Filled(it.name, Ending(width, left, f))
      BY DEF EndsWith
    <3>4. RestIs("format", after, m, aligned, x)
            <=> \E f \in Formats(after, m - 1) : x = Filled(it.name, Ending(width, left, f))
      BY <1>7, <1>8 DEF RestIs
    <3> QED BY <3>1, <3>2, <3>3, <3>4
  <2> QED BY <2>1, <2>3, <2>4
<1> QED BY <1>6, <1>7, <1>9 DEF InItem

\* A format, or none.
LEMMA NoFormatStep ==
  ASSUME TemplateOK, NEW n, NEW b, NEW i, NEW it, InItem(n, b, i, it, "format"),
         it.format = NoFormat, template[i] # "COLON"
  PROVE  InItem(n, b, i, it, "insert")
<1>1. i \in 1..length /\ length \in Nat /\ i \in Nat
  BY DEF TemplateOK, InItem
<1>2. Filled(it.name, Ending(it.width, it.left, NoFormat)) = it
  BY DEF Filled, Ending, InItem
<1>3. ASSUME NEW m \in Closes(n + 2)
      PROVE  i <= m /\ \A x : x \in Items(n + 1, m - 1) <=> RestIs("insert", i, m, it, x)
  <2>1. i <= m /\ \A x : x \in Items(n + 1, m - 1) <=> RestIs("format", i, m, it, x)
    BY DEF InItem
  <2>2. m \in Closes(i)
    BY <1>1, <2>1 DEF Closes
  <2>3. \A f : f \in Formats(i, m - 1) <=> m = i /\ f = NoFormat
    BY <1>1, <2>2, NoFormatIsRead
  <2>4. ASSUME NEW x PROVE RestIs("format", i, m, it, x) <=> RestIs("insert", i, m, it, x)
    BY <1>2, <2>3 DEF RestIs
  <2> QED BY <2>1, <2>4
<1> QED BY <1>3 DEF InItem

\* A template that ends after the colon of an item has no reading.
LEMMA OpenFormat ==
  ASSUME TemplateOK, NEW n, NEW b, NEW it, InItem(n, b, length, it, "format"),
         template[length] = "COLON"
  PROVE  Readings = {}
<1>1. length \in Nat
  BY DEF TemplateOK
<1>2. \A m \in Closes(n + 2) : ~(length <= m)
  BY <1>1 DEF Closes
<1> QED BY <1>2, NoItem

\* The scanner reads a format up to the next brace.
LEMMA FormatStep ==
  ASSUME TemplateOK, NEW n, NEW b, NEW i, NEW it, InItem(n, b, i, it, "format"),
         template[i] = "COLON", i # length, NEW next, next = While(NoBrace, i + 1),
         NEW formatted, formatted = [name |-> it.name, width |-> it.width, left |-> it.left,
                                     format |-> SubSeq(template, i + 1, next - 1)]
  PROVE  InItem(n, b, next, formatted, "insert")
<1>1. i \in (n + 2)..length /\ i \in 1..length /\ n \in Nat /\ length \in Nat /\ i \in Nat
  BY DEF TemplateOK, InItem
<1>2. next \in (n + 2)..length
  <2>1. next \in (i + 1)..length
    BY <1>1, WhileFacts
  <2> QED BY <1>1, <2>1
<1> DEFINE format == SubSeq(template, i + 1, next - 1)
<1>3. Filled(it.name, Ending(it.width, it.left, format)) = formatted
  BY DEF Filled, Ending
<1>4. formatted = [name |-> formatted.name, width |-> formatted.width, left |-> formatted.left,
                   format |-> formatted.format]
  OBVIOUS
<1> HIDE DEF format
<1>5. ASSUME NEW m \in Closes(n + 2)
      PROVE  next <= m /\ \A x : x \in Items(n + 1, m - 1) <=> RestIs("insert", next, m, formatted, x)
  <2>1. i <= m /\ \A x : x \in Items(n + 1, m - 1) <=> RestIs("format", i, m, it, x)
    BY DEF InItem
  <2>2. m \in Closes(i)
    BY <1>1, <2>1 DEF Closes
  <2>3. ASSUME NEW f PROVE next <= m /\ (f \in Formats(i, m - 1) <=> m = next /\ f = format)
    BY <1>1, <2>2, FormatIsRead DEF format
  <2>4. ASSUME NEW x PROVE RestIs("format", i, m, it, x) <=> RestIs("insert", next, m, formatted, x)
    BY <1>3, <2>3 DEF RestIs
  <2> QED BY <2>1, <2>3, <2>4
<1> QED BY <1>2, <1>4, <1>5 DEF InItem

\* The end of an item.
LEMMA InsertStep ==
  ASSUME TemplateOK, NEW n, NEW b, NEW i, NEW it, InItem(n, b, i, it, "insert")
  PROVE  IF template[i] = "CLOSE" THEN AheadIs(i + 1, Append(b, it)) ELSE Readings = {}
<1>1. /\ n \in 1..length /\ AheadIs(n, b) /\ template[n] = "OPEN"
      /\ ~(n < length /\ template[n + 1] = template[n]) /\ i \in (n + 2)..length
  BY DEF InItem
<1>2. \A m \in Closes(n + 2) : \A x : x \in Items(n + 1, m - 1) <=> m = i /\ x = it
  BY DEF InItem, RestIs
<1>3. i \in Closes(n + 2) <=> template[i] = "CLOSE"
  BY <1>1 DEF Closes
<1> QED BY <1>1, <1>2, <1>3, AheadItem

--------------------------------------------------------------------------------
(* The steps of Format.                                                    *)

\* Only the template decides what there is to read.
LEMMA GrammarSteady ==
  ASSUME template' = template, NEW p, NEW q
  PROVE  Items(p, q)' = Items(p, q) /\ Tails(p, q)' = Tails(p, q) /\ Formats(p, q)' = Formats(p, q)
<1>1. ASSUME NEW x, NEW y, NEW chars PROVE Run(x, y, chars)' <=> Run(x, y, chars)
  BY DEF Run
<1>2. ASSUME NEW x, NEW y PROVE Formats(x, y)' = Formats(x, y)
  BY DEF Formats
<1>3. ASSUME NEW x, NEW y PROVE Alignments(x, y)' = Alignments(x, y)
  BY <1>1 DEF Alignments
<1>4. ASSUME NEW x, NEW y PROVE Tails(x, y)' = Tails(x, y)
  BY <1>1, <1>2, <1>3 DEF Tails
<1>5. Items(p, q)' = Items(p, q)
  BY <1>1, <1>4 DEF Items
<1> QED BY <1>2, <1>4, <1>5

\* The readings depend on the template only, which no step changes.
LEMMA ReadingSteady ==
  ASSUME template' = template
  PROVE  /\ length' = length /\ (TemplateOK' <=> TemplateOK) /\ Readings' = Readings
         /\ \A n : Closes(n)' = Closes(n) /\ From[n]' = From[n]
         /\ \A n, b : AheadIs(n, b)' <=> AheadIs(n, b)
<1>1. length' = length
  BY DEF length
<1>2. ASSUME NEW n PROVE Closes(n)' = Closes(n)
  BY <1>1 DEF Closes
<1>3. ASSUME NEW n, NEW R PROVE ReadingsAt(n, R)' = ReadingsAt(n, R)
  <2> DEFINE Item(m) == UNION {Ahead(x, R[m + 1]) : x \in Items(n + 1, m - 1)}
             Each == UNION {Item(m) : m \in Closes(n + 2)}
  <2>1. ASSUME NEW m PROVE Item(m)' = Item(m)
    <3>1. Items(n + 1, m - 1)' = Items(n + 1, m - 1)
      BY GrammarSteady
    <3> QED BY <3>1
  <2>2. Each' = Each
    <3>1. Closes(n + 2)' = Closes(n + 2)
      BY <1>2
    <3> HIDE DEF Item
    <3> QED BY <2>1, <3>1
  <2>3. ReadingsAt(n, R) =
          IF n = length + 1 THEN {<<>>}
          ELSE IF template[n] \notin Braces THEN Ahead(template[n], R[n + 1])
          ELSE IF n < length /\ template[n + 1] = template[n] THEN Ahead(template[n], R[n + 2])
          ELSE IF template[n] = "CLOSE" THEN {} ELSE Each
    BY Zenon DEF ReadingsAt
  <2>4. ReadingsAt(n, R)' =
          IF n = length' + 1 THEN {<<>>}
          ELSE IF template'[n] \notin Braces THEN Ahead(template'[n], R[n + 1])
          ELSE IF n < length' /\ template'[n + 1] = template'[n] THEN Ahead(template'[n], R[n + 2])
          ELSE IF template'[n] = "CLOSE" THEN {} ELSE Each'
    BY Zenon DEF ReadingsAt
  <2> HIDE DEF Each
  <2> QED BY <1>1, <2>2, <2>3, <2>4
<1>4. ASSUME NEW R PROVE IsReadings(R)' <=> IsReadings(R)
  BY <1>1, <1>3 DEF IsReadings
<1>5. From' = From
  BY <1>4 DEF From
<1>6. Readings' = Readings
  <2>1. Readings = From[1]
    BY Zenon DEF Readings, From, IsReadings
  <2>2. Readings' = From'[1]
    BY Zenon DEF Readings, From, IsReadings
  <2> QED BY <1>5, <2>1, <2>2
<1>7. ASSUME NEW n, NEW b PROVE AheadIs(n, b)' <=> AheadIs(n, b)
  BY <1>1, <1>5, <1>6 DEF AheadIs
<1> QED BY <1>1, <1>2, <1>5, <1>6, <1>7 DEF TemplateOK

\* So does what is known inside an item.
LEMMA ItemSteady ==
  ASSUME template' = template, NEW n, NEW b, NEW i, NEW it, NEW where
  PROVE  InItem(n, b, i, it, where)' <=> InItem(n, b, i, it, where)
<1>1. length' = length /\ (AheadIs(n, b)' <=> AheadIs(n, b)) /\ Closes(n + 2)' = Closes(n + 2)
  BY ReadingSteady
<1>2. ASSUME NEW m, NEW x PROVE RestIs(where, i, m, it, x)' <=> RestIs(where, i, m, it, x)
  BY GrammarSteady DEF RestIs
<1>3. ASSUME NEW m PROVE Items(n + 1, m - 1)' = Items(n + 1, m - 1)
  BY GrammarSteady
<1> QED BY <1>1, <1>2, <1>3 DEF InItem

\* Between two steps there is a brace that is not read as an item, ...
InText == \E n, b : n = index + 1 /\ b = builder /\ AheadIs(n, b)

\* ... or one at which the item begins that the scanner is in.
Inside(where) == \E n, b, i, it : /\ b = builder /\ i = index /\ it = item
                                  /\ InItem(n, b, i, it, where)

\* The invariant: what is known in the text, inside an item, and at the end.
TemplateInv ==
  /\ template \in Templates /\ index \in Nat
  /\ pc \in {"text", "alignment", "format", "insert", "done", "failed"}
  /\ pc = "text" => InText
  /\ pc = "alignment" => /\ Inside("alignment") /\ \E name : item = NewItem(name)
                         /\ index = length \/ template[index] \notin Blank
  /\ pc = "format" => Inside("format") /\ item.format = NoFormat
  /\ pc = "insert" => Inside("insert")
  /\ FormatsAsWritten

\* The templates are finite sequences.
LEMMA TemplatesAreSeqs == ASSUME template \in Templates PROVE TemplateOK
<1>1. template \in Seq(ToSet(template))
  BY TemplateAssumption
<1>2. Len(template) \in Nat
  BY <1>1
<1> QED BY <1>1, <1>2 DEF TemplateOK, length

\* The invariant holds at the start.
LEMMA TemplateInitInv == TemplateInit => TemplateInv
<1> SUFFICES ASSUME TemplateInit PROVE TemplateInv
  OBVIOUS
<1>1. TemplateOK
  BY TemplatesAreSeqs DEF TemplateInit
<1>2. 1 = index + 1 /\ <<>> = builder /\ AheadIs(1, <<>>)
  BY <1>1, AheadStart DEF TemplateInit
<1>3. InText
  BY <1>2 DEF InText
<1> QED BY <1>3 DEF TemplateInit, TemplateInv, FormatsAsWritten

\* What a step has to establish.
LEMMA StepInv ==
  ASSUME TemplateInv, template' = template,
         \/ /\ pc' = "text" /\ index' \in Nat
            /\ \E n, b : n = index' + 1 /\ b = builder' /\ AheadIs(n, b)
         \/ /\ pc' = "alignment" /\ index' \in Nat /\ \E name : item' = NewItem(name)
            /\ \E n, b, i, it : /\ b = builder' /\ i = index' /\ it = item'
                                /\ InItem(n, b, i, it, "alignment")
            /\ index' = length \/ template[index'] \notin Blank
         \/ /\ pc' = "format" /\ index' \in Nat /\ item'.format = NoFormat
            /\ \E n, b, i, it : /\ b = builder' /\ i = index' /\ it = item'
                                /\ InItem(n, b, i, it, "format")
         \/ /\ pc' = "insert" /\ index' \in Nat
            /\ \E n, b, i, it : /\ b = builder' /\ i = index' /\ it = item'
                                /\ InItem(n, b, i, it, "insert")
         \/ pc' = "done" /\ index' \in Nat /\ Readings = {builder'}
         \/ pc' = "failed" /\ index' \in Nat /\ Readings = {}
  PROVE  TemplateInv'
<1>1. template' \in Templates /\ length' = length /\ Readings' = Readings
  BY ReadingSteady DEF TemplateInv
<1>2. CASE /\ pc' = "text" /\ index' \in Nat
           /\ \E n, b : n = index' + 1 /\ b = builder' /\ AheadIs(n, b)
  <2>1. PICK n, b : n = index' + 1 /\ b = builder' /\ AheadIs(n, b)
    BY <1>2
  <2>2. AheadIs(n, b)'
    BY <2>1, ReadingSteady
  <2>3. InText'
    BY <2>1, <2>2 DEF InText
  <2> QED BY <1>1, <1>2, <2>3 DEF TemplateInv, FormatsAsWritten
<1>3. ASSUME NEW where,
             \E n, b, i, it : /\ b = builder' /\ i = index' /\ it = item' /\ InItem(n, b, i, it, where)
      PROVE  Inside(where)'
  <2>1. PICK n, b, i, it : /\ b = builder' /\ i = index' /\ it = item' /\ InItem(n, b, i, it, where)
    BY <1>3
  <2>2. InItem(n, b, i, it, where)'
    BY <2>1, ItemSteady
  <2> QED BY <2>1, <2>2 DEF Inside
<1>4. CASE /\ pc' = "alignment" /\ index' \in Nat /\ \E name : item' = NewItem(name)
           /\ \E n, b, i, it : /\ b = builder' /\ i = index' /\ it = item'
                               /\ InItem(n, b, i, it, "alignment")
           /\ index' = length \/ template[index'] \notin Blank
  <2>1. Inside("alignment")'
    BY <1>3, <1>4
  <2> QED BY <1>1, <1>4, <2>1 DEF TemplateInv, FormatsAsWritten
<1>5. CASE /\ pc' = "format" /\ index' \in Nat /\ item'.format = NoFormat
           /\ \E n, b, i, it : /\ b = builder' /\ i = index' /\ it = item'
                               /\ InItem(n, b, i, it, "format")
  <2>1. Inside("format")'
    BY <1>3, <1>5
  <2> QED BY <1>1, <1>5, <2>1 DEF TemplateInv, FormatsAsWritten
<1>6. CASE /\ pc' = "insert" /\ index' \in Nat
           /\ \E n, b, i, it : /\ b = builder' /\ i = index' /\ it = item'
                               /\ InItem(n, b, i, it, "insert")
  <2>1. Inside("insert")'
    BY <1>3, <1>6
  <2> QED BY <1>1, <1>6, <2>1 DEF TemplateInv, FormatsAsWritten
<1>7. CASE pc' = "done" /\ index' \in Nat /\ Readings = {builder'}
  BY <1>1, <1>7 DEF TemplateInv, FormatsAsWritten
<1>8. CASE pc' = "failed" /\ index' \in Nat /\ Readings = {}
  BY <1>1, <1>8 DEF TemplateInv, FormatsAsWritten
<1> QED BY <1>2, <1>4, <1>5, <1>6, <1>7, <1>8

\* A step after which the scanner is back in the text.
LEMMA TextStep ==
  ASSUME TemplateInv, index' \in Nat, pc' = "text", template' = template,
         \E k, b : k = index' + 1 /\ b = builder' /\ AheadIs(k, b)
  PROVE  TemplateInv'
<1>1. PICK k, b : k = index' + 1 /\ b = builder' /\ AheadIs(k, b)
  OBVIOUS
<1> QED BY <1>1, StepInv

\* What a step in the text starts from.
LEMMA TextFacts ==
  ASSUME TemplateInv, More
  PROVE  /\ TemplateOK /\ index + 1 \in 1..length /\ index \in Nat /\ length \in Nat
         /\ AheadIs(index + 1, builder) /\ pc = "text"
<1>1. TemplateOK /\ index \in Nat /\ pc = "text" /\ index < length /\ InText
  BY TemplatesAreSeqs DEF TemplateInv, More
<1> QED BY <1>1 DEF InText, TemplateOK

\* One lemma for each action: a doubled brace,
LEMMA LiteralBraceInv == ASSUME TemplateInv, LiteralBrace PROVE TemplateInv'
<1>1. /\ More /\ template[index + 1] \in Braces /\ Doubled
      /\ builder' = Append(builder, template[index + 1])
      /\ index' = index + 2 /\ template' = template /\ pc' = pc
  BY DEF LiteralBrace
<1>2. /\ TemplateOK /\ index + 1 \in 1..length /\ index \in Nat /\ length \in Nat
      /\ AheadIs(index + 1, builder) /\ pc = "text"
  BY <1>1, TextFacts
<1> DEFINE n == index + 1
<1>3. n < length /\ template[n + 1] = template[n] /\ n + 2 = index' + 1
  BY <1>1, <1>2 DEF Doubled
<1>4. AheadIs(n + 2, Append(builder, template[n]))
  <2> HIDE DEF n
  <2> QED BY <1>1, <1>2, <1>3, AheadDoubled DEF n
<1>5. \E k, b : k = index' + 1 /\ b = builder' /\ AheadIs(k, b)
  BY <1>1, <1>3, <1>4
<1>6. index' \in Nat /\ pc' = "text" /\ template' = template
  BY <1>1, <1>2
<1> QED BY <1>5, <1>6, TextStep

\* a closing brace that is alone,
LEMMA StrayBraceInv == ASSUME TemplateInv, StrayBrace PROVE TemplateInv'
<1>1. /\ More /\ template[index + 1] = "CLOSE" /\ ~Doubled
      /\ template' = template /\ index' = index /\ pc' = "failed"
  BY DEF StrayBrace, Refuse
<1>2. /\ TemplateOK /\ index + 1 \in 1..length /\ index \in Nat /\ length \in Nat
      /\ AheadIs(index + 1, builder)
  BY <1>1, TextFacts
<1> DEFINE n == index + 1
<1>3. n \in 1..(length + 1) /\ n # length + 1 /\ ~(n < length /\ template[n + 1] = template[n])
  BY <1>1, <1>2 DEF Doubled
<1>4. From[n] = {}
  <2> HIDE DEF n
  <2>1. template[n] = "CLOSE" /\ template[n] \in Braces
    BY <1>1 DEF n, Braces
  <2> QED BY <1>2, <1>3, <2>1, FromFacts DEF ReadingsAt
<1>5. Readings = {}
  BY <1>2, <1>4, AheadNothing
<1> QED BY <1>1, <1>2, <1>5, StepInv

\* literal text,
LEMMA LiteralInv == ASSUME TemplateInv, Literal PROVE TemplateInv'
<1>1. /\ More /\ template[index + 1] \notin Braces
      /\ index' = LiteralEnd(index) /\ template' = template /\ pc' = pc
      /\ builder' = builder \o SubSeq(template, index + 1, LiteralEnd(index))
  BY DEF Literal
<1>2. /\ TemplateOK /\ index + 1 \in 1..length /\ index \in Nat /\ length \in Nat
      /\ AheadIs(index + 1, builder) /\ pc = "text"
  BY <1>1, TextFacts
<1> DEFINE n == index + 1
           e == LiteralEnd(index)
           P(j) == /\ j = length \/ template[j + 1] \in Braces
                   /\ \A k \in n..j : template[k] \notin Braces
           T == {j \in n..length : j = length \/ template[j + 1] \in Braces}
<1>3. e \in n..length /\ P(e)
  <2>1. length \in T /\ T \in SUBSET Nat
    BY <1>2
  <2>2. PICK j \in T : \A k \in T : j <= k
    <3> HIDE DEF T
    <3> QED BY <2>1, LeastNat
  <2>3. j \in n..length /\ P(j)
    <3>1. ASSUME NEW k \in n..j PROVE template[k] \notin Braces
      <4>1. CASE k = n
        BY <1>1, <4>1
      <4>2. CASE k # n
        <5>1. k - 1 \in n..length /\ ~(j <= k - 1) /\ k - 1 # length /\ (k - 1) + 1 = k
          BY <1>2, <2>2, <4>2
        <5> QED BY <2>2, <5>1
      <4> QED BY <4>1, <4>2
    <3> QED BY <2>2, <3>1
  <2>4. e = CHOOSE m \in n..length : P(m)
    BY Zenon DEF LiteralEnd
  <2> HIDE DEF P, e, n
  <2> QED BY <2>3, <2>4
<1>4. AheadIs(e + 1, builder \o SubSeq(template, n, e))
  <2> HIDE DEF e, n
  <2>1. n \in 1..length /\ AheadIs(n, builder)
    BY <1>2 DEF n
  <2> QED BY <1>2, <1>3, <2>1, AheadText
<1>5. \E k, b : k = index' + 1 /\ b = builder' /\ AheadIs(k, b)
  BY <1>1, <1>4
<1>6. index' \in Nat /\ pc' = "text" /\ template' = template
  BY <1>1, <1>2, <1>3
<1> QED BY <1>5, <1>6, TextStep

\* the name of an item,
LEMMA NameInv == ASSUME TemplateInv, Name PROVE TemplateInv'
<1> DEFINE n == index + 1
           next == While(NameChars, n + 1)
           name == SubSeq(template, n + 1, next - 1)
           after == While(Blank, next)
<1>1. /\ More /\ template[n] = "OPEN" /\ ~Doubled
      /\ IF n = length \/ template[n + 1] \notin NameStart THEN Refuse
         ELSE IF name = <<>> \/ name \notin Known THEN Refuse
         ELSE /\ item' = NewItem(name) /\ index' = after /\ pc' = "alignment"
              /\ UNCHANGED <<template, builder>>
  BY Zenon DEF Name, NewItem
<1>2. /\ TemplateOK /\ n \in 1..length /\ index \in Nat /\ length \in Nat
      /\ AheadIs(n, builder)
  BY <1>1, TextFacts
<1>3. ~(n < length /\ template[n + 1] = template[n])
  <2>1. (index + 1) + 1 = index + 2
    BY <1>2
  <2> QED BY <1>1, <2>1 DEF Doubled
<1>4. <<>> \notin Known
  BY TemplateAssumption
<1> HIDE DEF n, next, name, after
<1>5. CASE n = length \/ template[n + 1] \notin NameStart \/ name \notin Known
  <2>1. Readings = {}
    BY <1>1, <1>2, <1>3, <1>5, NoName DEF name, next
  <2>2. template' = template /\ index' = index /\ pc' = "failed"
    BY <1>1, <1>4, <1>5 DEF Refuse
  <2> QED BY <1>2, <2>1, <2>2, StepInv
<1>6. CASE ~(n = length \/ template[n + 1] \notin NameStart \/ name \notin Known)
  <2>1. /\ item' = NewItem(name) /\ index' = after /\ pc' = "alignment"
        /\ template' = template /\ builder' = builder
    BY <1>1, <1>4, <1>6
  <2>2. /\ InItem(n, builder, after, NewItem(name), "alignment")
        /\ after = length \/ template[after] \notin Blank
    BY <1>1, <1>2, <1>3, <1>6, NameStep DEF name, next, after
  <2>3. \E k, b, i, it : /\ b = builder' /\ i = index' /\ it = item'
                         /\ InItem(k, b, i, it, "alignment")
    BY <2>1, <2>2
  <2>4. index' \in Nat
    <3>1. after \in (n + 2)..length
      BY <2>2 DEF InItem
    <3> QED BY <1>2, <2>1, <3>1
  <2> QED BY <2>1, <2>2, <2>3, <2>4, StepInv
<1> QED BY <1>5, <1>6

\* its alignment,
LEMMA AlignmentInv == ASSUME TemplateInv, Alignment PROVE TemplateInv'
<1>1. PICK n : InItem(n, builder, index, item, "alignment")
  BY DEF TemplateInv, Alignment, Inside
<1>2. PICK name : item = NewItem(name)
  BY DEF TemplateInv, Alignment
<1>3. /\ TemplateOK /\ length \in Nat /\ index \in Nat
      /\ index = length \/ template[index] \notin Blank
  BY TemplatesAreSeqs DEF TemplateInv, Alignment, TemplateOK
<1>4. CASE template[index] # "COMMA"
  <2>1. /\ pc' = "format" /\ index' = While(Blank, index)
        /\ template' = template /\ builder' = builder /\ item' = item
    BY <1>4 DEF Alignment, ch
  <2>2. While(Blank, index) = index /\ InItem(n, builder, index, NewItem(name), "format")
    BY <1>1, <1>2, <1>3, <1>4, PlainStep
  <2>3. \E k, b, i, it : b = builder' /\ i = index' /\ it = item' /\ InItem(k, b, i, it, "format")
    BY <1>2, <2>1, <2>2
  <2>4. index' \in Nat /\ item'.format = NoFormat
    BY <1>2, <1>3, <2>1, <2>2 DEF NewItem
  <2> QED BY <2>1, <2>3, <2>4, StepInv
<1>5. CASE template[index] = "COMMA"
  <2> DEFINE sign == While(Blank, index + 1)
             left == template[sign] = "MINUS"
             first == IF left THEN sign + 1 ELSE sign
             next == While(Digits, first)
             after == While(Blank, next)
             width == Number(SubSeq(template, first, next - 1))
             aligned == [name |-> item.name, left |-> left, format |-> item.format, width |-> width]
  <2>1. IF index = length THEN Refuse
        ELSE IF sign = length \/ template[first] \notin Digits THEN Refuse
        ELSE /\ item' = aligned /\ index' = after /\ pc' = "format"
             /\ UNCHANGED <<template, builder>>
    BY <1>5, Zenon DEF Alignment, ch, AlignmentStart
  <2>2. aligned = [name |-> item.name, width |-> width, left |-> left, format |-> NoFormat]
    <3> HIDE DEF left, width
    <3>1. item.format = NoFormat
      BY <1>2 DEF NewItem
    <3> QED BY <3>1
  <2>3. item.format = NoFormat
    BY <1>2 DEF NewItem
  <2> HIDE DEF aligned, after, width, next
  <2>4. CASE index = length \/ sign = length \/ template[first] \notin Digits
    <3>1. template' = template /\ index' = index /\ pc' = "failed"
      <4> HIDE DEF sign, first
      <4> QED BY <2>1, <2>4 DEF Refuse
    <3>2. Readings = {}
      BY <1>1, <1>3, <1>5, <2>4, NoAlignment
    <3> QED BY <1>3, <3>1, <3>2, StepInv
  <2>5. CASE ~(index = length \/ sign = length \/ template[first] \notin Digits)
    <3>1. /\ item' = aligned /\ index' = after /\ pc' = "format"
          /\ template' = template /\ builder' = builder
      <4> HIDE DEF sign, first
      <4> QED BY <2>1, <2>5
    <3>2. aligned = [name |-> item.name, width |-> Number(SubSeq(template, first, next - 1)),
                     left |-> template[sign] = "MINUS", format |-> item.format]
      BY Zenon, <2>2, <2>3 DEF width
    <3>3. InItem(n, builder, after, aligned, "format")
      BY <1>1, <1>3, <1>5, <2>5, <3>2, AlignmentStep DEF next, after
    <3>4. \E k, b, i, it : b = builder' /\ i = index' /\ it = item' /\ InItem(k, b, i, it, "format")
      BY <3>1, <3>3
    <3>5. index' \in Nat
      <4>1. after \in (n + 2)..length /\ n \in Nat
        BY <3>3, <1>3 DEF InItem
      <4> QED BY <1>3, <3>1, <4>1
    <3>6. item'.format = NoFormat
      <4> HIDE DEF left
      <4> QED BY <2>2, <3>1
    <3> QED BY <3>1, <3>4, <3>5, <3>6, StepInv
  <2> QED BY <2>4, <2>5
<1> QED BY <1>4, <1>5

\* its format,
LEMMA FormatInv == ASSUME TemplateInv, Format PROVE TemplateInv'
<1>1. PICK n : InItem(n, builder, index, item, "format")
  BY DEF TemplateInv, Format, Inside
<1>2. TemplateOK /\ length \in Nat /\ index \in Nat /\ item.format = NoFormat
  BY TemplatesAreSeqs DEF TemplateInv, Format, TemplateOK
<1>3. CASE template[index] # "COLON"
  <2>1. pc' = "insert" /\ template' = template /\ index' = index /\ builder' = builder /\ item' = item
    BY <1>3 DEF Format, ch
  <2>2. InItem(n, builder, index, item, "insert")
    BY <1>1, <1>2, <1>3, NoFormatStep
  <2>3. \E k, b, i, it : b = builder' /\ i = index' /\ it = item' /\ InItem(k, b, i, it, "insert")
    BY <2>1, <2>2
  <2> QED BY <1>2, <2>1, <2>3, StepInv
<1>4. CASE template[index] = "COLON" /\ index = length
  <2>1. template' = template /\ index' = index /\ pc' = "failed"
    BY <1>4 DEF Format, ch, Refuse
  <2>2. Readings = {}
    BY <1>1, <1>2, <1>4, OpenFormat
  <2> QED BY <1>2, <2>1, <2>2, StepInv
<1>5. CASE template[index] = "COLON" /\ index # length
  <2> DEFINE next == While(NoBrace, index + 1)
             format == SubSeq(template, index + 1, next - 1)
             formatted == [item EXCEPT !.format = format]
  <2>1. /\ item' = formatted /\ index' = next /\ pc' = "insert"
        /\ template' = template /\ builder' = builder
    BY <1>5 DEF Format, ch
  <2>2. formatted = [name |-> item.name, width |-> item.width, left |-> item.left, format |-> format]
    <3>1. item = [name |-> item.name, width |-> item.width, left |-> item.left, format |-> item.format]
      BY <1>1 DEF InItem
    <3> HIDE DEF format
    <3> QED BY <3>1
  <2> HIDE DEF next, formatted
  <2>3. InItem(n, builder, next, formatted, "insert")
    BY <1>1, <1>2, <1>5, <2>2, FormatStep DEF next
  <2>4. \E k, b, i, it : b = builder' /\ i = index' /\ it = item' /\ InItem(k, b, i, it, "insert")
    BY <2>1, <2>3
  <2>5. index' \in Nat
    <3>1. next \in (n + 2)..length /\ n \in Nat
      BY <1>2, <2>3 DEF InItem
    <3> QED BY <1>2, <2>1, <3>1
  <2> QED BY <2>1, <2>4, <2>5, StepInv
<1> QED BY <1>3, <1>4, <1>5

\* the brace that closes it,
LEMMA InsertInv == ASSUME TemplateInv, Insert PROVE TemplateInv'
<1>1. PICK n : InItem(n, builder, index, item, "insert")
  BY DEF TemplateInv, Insert, Inside
<1>2. TemplateOK /\ index \in Nat
  BY TemplatesAreSeqs DEF TemplateInv
<1>3. CASE template[index] = "CLOSE"
  <2>1. /\ builder' = Append(builder, item) /\ pc' = "text" /\ template' = template /\ index' = index
    BY <1>3 DEF Insert, ch
  <2>2. AheadIs(index + 1, Append(builder, item))
    BY <1>1, <1>2, <1>3, InsertStep
  <2>3. \E k, b : k = index' + 1 /\ b = builder' /\ AheadIs(k, b)
    BY <2>1, <2>2
  <2> QED BY <1>2, <2>1, <2>3, StepInv
<1>4. CASE template[index] # "CLOSE"
  <2>1. template' = template /\ index' = index /\ pc' = "failed"
    BY <1>4 DEF Insert, ch, Refuse
  <2>2. Readings = {}
    BY <1>1, <1>2, <1>4, InsertStep
  <2> QED BY <1>2, <2>1, <2>2, StepInv
<1> QED BY <1>3, <1>4

\* and the return.
LEMMA ReturnTextInv == ASSUME TemplateInv, ReturnText PROVE TemplateInv'
<1>1. /\ pc = "text" /\ index = length /\ pc' = "done" /\ template' = template
      /\ index' = index /\ builder' = builder
  BY DEF ReturnText
<1>2. TemplateOK /\ index \in Nat /\ InText
  BY <1>1, TemplatesAreSeqs DEF TemplateInv
<1>3. AheadIs(length + 1, builder)
  BY <1>1, <1>2 DEF InText
<1>4. Readings = {builder}
  BY <1>2, <1>3, AheadEnd
<1> QED BY <1>1, <1>2, <1>4, StepInv

\* Every step keeps the invariant.
LEMMA TemplateNextInv == ASSUME TemplateInv, [TemplateNext]_templateVars PROVE TemplateInv'
<1>1. CASE UNCHANGED templateVars
  <2>1. /\ template' = template /\ index' = index /\ builder' = builder /\ item' = item /\ pc' = pc
    BY <1>1 DEF templateVars
  <2>2. ASSUME InText PROVE \E n, b : n = index' + 1 /\ b = builder' /\ AheadIs(n, b)
    BY <2>1, <2>2 DEF InText
  <2>3. ASSUME NEW where, Inside(where)
        PROVE  \E n, b, i, it : /\ b = builder' /\ i = index' /\ it = item'
                                /\ InItem(n, b, i, it, where)
    BY <2>1, <2>3 DEF Inside
  <2>4. /\ index' \in Nat /\ pc' \in {"text", "alignment", "format", "insert", "done", "failed"}
        /\ pc' = "text" => InText
        /\ pc' = "alignment" => /\ Inside("alignment") /\ \E name : item' = NewItem(name)
                                /\ index' = length \/ template[index'] \notin Blank
        /\ pc' = "format" => Inside("format") /\ item'.format = NoFormat
        /\ pc' = "insert" => Inside("insert")
        /\ pc' = "done" => Readings = {builder'}
        /\ pc' = "failed" => Readings = {}
    BY <2>1 DEF TemplateInv, FormatsAsWritten
  <2> QED BY <2>1, <2>2, <2>3, <2>4, StepInv
<1> QED BY <1>1, LiteralBraceInv, StrayBraceInv, LiteralInv, NameInv, AlignmentInv, FormatInv,
           InsertInv, ReturnTextInv DEF TemplateNext

\* What Format has read and written, at every step.
THEOREM TemplateInvariant == TemplateSpec => []TemplateInv
<1>1. TemplateInv /\ [TemplateNext]_templateVars => TemplateInv'
  BY TemplateNextInv
<1> QED BY <1>1, TemplateInitInv, PTL DEF TemplateSpec

\* For every template: what Format returns is the one reading that the grammar has of it, and
\* it throws only if there is none.
THEOREM FormatIsAsWritten == TemplateSpec => []FormatsAsWritten
<1>1. TemplateInv => FormatsAsWritten
  BY DEF TemplateInv
<1> QED BY <1>1, TemplateInvariant, PTL

--------------------------------------------------------------------------------
(* StructuredData.                                                         *)

\* The key of the n-th value.
KeyOf(n) == LET names == Names(messageTemplate) IN
            IF n <= Len(names) THEN names[n] ELSE Extra(n - Len(names))

\* The last of the first n values with their keys.
LastOf(n) == {i \in 1..n : \A j \in 1..n : KeyOf(j) = KeyOf(i) => j <= i}

\* The base properties that the first n values do not replace.
BaseLeft(n) == {p \in ToSet(baseProperties) : \A i \in 1..n : KeyOf(i) # p[1]}

\* The properties in left come first in d, in the order of the base properties.
InOrder(d, left) == \A q \in left, p \in Pair :
                      Precedes(d, p, q) => p \in left /\ Precedes(baseProperties, p, q)

\* The properties after the first n values were set.
LayerPairs(n) == BaseLeft(n) \cup {<<KeyOf(i), templateValues[i]>> : i \in LastOf(n)}

\* A dictionary after the first n values were set in it.
Layered(d, n) ==
  /\ d \in Seq(Pair) /\ KeysOnce(d)
  /\ ToSet(d) = LayerPairs(n)
  /\ InOrder(d, BaseLeft(n))

\* The same but for the keys that values get when they are counted off wrongly.
Loose(d, n) == d \in Seq(Pair) /\ KeysOnce(d) /\ Sure(ToSet(d)) = Sure(LayerPairs(n))

\* Somebody has read, or is reading.
Active == allProperties # Null \/ \E t \in DataThread : reader[t].pc # "idle"

\* The list of keys: the names of the template, and what each ToString added to it.
KeysAreNames ==
  LET names == Names(messageTemplate) IN
  /\ templateKeys \in Seq(AnyKey) /\ Len(names) <= Len(templateKeys)
  /\ \A n \in DOMAIN templateKeys :
       templateKeys[n] = IF n <= Len(names) THEN names[n] ELSE MessageTemplateProperty

\* A thread that reads: where it is, and the dictionary it fills.
Reader == [op : {"none", "ToString", "Properties"}, pc : {"idle", "keys", "values", "text"},
           at : Nat, extra : Nat, local : Seq(Pair)]

\* The types of the variables.
DataTypeOK ==
  /\ baseProperties \in Seq(Pair) /\ KeysOnce(baseProperties)
  /\ exception \in Exceptions /\ messageTemplate \in Texts \cup {Null}
  /\ templateValues \in ValueLists
  /\ allProperties \in Seq(Pair) \cup {Null}
  /\ reader \in [DataThread -> Reader]
  /\ shifted \in BOOLEAN

\* The dictionary that was published has all that does not depend on how the values
\* were counted off,
Published ==
  /\ allProperties \in Seq(Pair) /\ KeysOnce(allProperties)
  /\ Sure(ToSet(allProperties)) = Sure(Expected)

\* and what is expected if they were counted off rightly.
Whole == ToSet(allProperties) = Expected /\ InOrder(allProperties, Remaining)

\* Thread t has counted its values off rightly, and so it will the rest.
Counted(t) ==
  LET n == reader[t].at - 1
      items == Len(Names(messageTemplate))
  IN  /\ Layered(reader[t].local, n)
      /\ reader[t].extra = IF n > items THEN n - items ELSE 0
      /\ \/ NoExtras \/ n >= Len(templateValues)
         \/ Len(templateKeys) = items

\* What is known where thread t is.
Here(t) ==
  /\ reader[t].pc = "idle" => reader[t] = Idle
  /\ reader[t].pc = "keys" =>
       reader[t].at = 1 /\ reader[t].extra = 0 /\ reader[t].local = baseProperties
  /\ reader[t].pc = "values" =>
       /\ messageTemplate \notin Invalid /\ KeysAreNames
       /\ reader[t].at \in 1..(Len(templateValues) + 1) /\ reader[t].extra < reader[t].at
       /\ Loose(reader[t].local, reader[t].at - 1)
       /\ shifted \/ Counted(t)
  /\ reader[t].pc = "text" => allProperties # Null

\* The invariant: the threads, the dictionary they publish, and the text.
DataInv ==
  /\ DataTypeOK
  /\ Active => messageTemplate = Template
  /\ \A t \in DataThread : Here(t)
  /\ allProperties # Null =>
       Published /\ (shifted \/ Whole) /\ messageTemplate \notin Invalid /\ KeysAreNames
  /\ toString # Null => allProperties # Null /\ (shifted \/ ShownOnce)

--------------------------------------------------------------------------------
\* What an element and a dictionary are made of.
LEMMA PairFacts ==
  ASSUME NEW p \in Pair
  PROVE  p = <<p[1], p[2]>> /\ p[1] \in AnyKey /\ p[2] \in AnyValue
BY DEF Pair

\* What is left of a list without its k-th element.
LEMMA RemoveAtFacts ==
  ASSUME NEW S, NEW s \in Seq(S), NEW k \in 1..Len(s)
  PROVE  /\ RemoveAt(s, k) \in Seq(S) /\ Len(RemoveAt(s, k)) + 1 = Len(s)
         /\ \A n \in 1..Len(RemoveAt(s, k)) :
              RemoveAt(s, k)[n] = IF n < k THEN s[n] ELSE s[n + 1]
<1> DEFINE l == Len(s)
           front == SubSeq(s, 1, k - 1)
           back == SubSeq(s, k + 1, l)
<1>1. l \in Nat /\ k \in 1..l
  OBVIOUS
<1>2. /\ front \in Seq(S) /\ Len(front) = k - 1
      /\ \A n \in 1..(k - 1) : front[n] = s[n]
  BY <1>1, SubSeqProperties
<1>3. /\ back \in Seq(S) /\ Len(back) = l - k
      /\ \A n \in 1..(l - k) : back[n] = s[n + k]
  BY <1>1, SubSeqProperties
<1>4. RemoveAt(s, k) = front \o back
  BY DEF RemoveAt
<1> HIDE DEF front, back
<1>5. /\ front \o back \in Seq(S) /\ Len(front \o back) = l - 1
      /\ \A n \in 1..(l - 1) : (front \o back)[n] = IF n < k THEN front[n] ELSE back[n - (k - 1)]
  <2>1. Len(front) + Len(back) = l - 1
    BY <1>1, <1>2, <1>3
  <2>2. /\ front \o back \in Seq(S) /\ Len(front \o back) = Len(front) + Len(back)
        /\ \A n \in 1..(Len(front) + Len(back)) :
             (front \o back)[n] = IF n <= Len(front) THEN front[n] ELSE back[n - Len(front)]
    BY <1>2, <1>3, ConcatProperties
  <2> QED BY <1>1, <1>2, <2>1, <2>2
<1>6. ASSUME NEW n \in 1..(l - 1) PROVE (front \o back)[n] = IF n < k THEN s[n] ELSE s[n + 1]
  <2>1. CASE n < k
    BY <1>1, <1>2, <1>5, <2>1
  <2>2. CASE k <= n
    <3>1. n - (k - 1) \in 1..(l - k)
      BY <1>1, <2>2
    <3>2. back[n - (k - 1)] = s[n - (k - 1) + k]
      BY <1>3, <3>1
    <3>3. n - (k - 1) + k = n + 1
      BY <1>1
    <3> QED BY <1>1, <1>5, <2>2, <3>2, <3>3
  <2>3. n \in Nat /\ k \in Nat
    BY <1>1
  <2>4. n < k \/ k <= n
    BY <2>3
  <2> QED BY <2>1, <2>2, <2>4
<1> DEFINE r == front \o back
<1>7. r \in Seq(S) /\ Len(r) = l - 1 /\ \A n \in 1..(l - 1) : r[n] = IF n < k THEN s[n] ELSE s[n + 1]
  BY <1>5, <1>6
<1>8. RemoveAt(s, k) = r
  BY <1>4
<1> HIDE DEF r
<1>9. l \in Nat /\ l = Len(s)
  BY <1>1
<1>10. /\ r \in Seq(S) /\ Len(r) + 1 = Len(s)
       /\ \A n \in 1..Len(r) : r[n] = IF n < k THEN s[n] ELSE s[n + 1]
  BY <1>7, <1>9
<1> QED BY <1>8, <1>10

\* d[key] = value: the old pair is gone, the new one is last, and the others keep their order.
LEMMA SetFacts ==
  ASSUME NEW d \in Seq(Pair), KeysOnce(d), NEW key \in AnyKey, NEW value \in AnyValue
  PROVE  LET e == Set(d, key, value) IN
         /\ e \in Seq(Pair) /\ KeysOnce(e)
         /\ ToSet(e) = {p \in ToSet(d) : p[1] # key} \cup {<<key, value>>}
         /\ \A p, q \in Pair : Precedes(e, p, q) /\ q[1] # key => Precedes(d, p, q) /\ p[1] # key
<1> DEFINE new == <<key, value>>
           e == Set(d, key, value)
           rest == IF Has(d, key) THEN RemoveAt(d, IndexOf(d, key)) ELSE d
           at == IF Has(d, key) THEN IndexOf(d, key) ELSE Len(d) + 1
           l == Len(rest)
\* The place of what is n-th in the rest.
           Old(n) == IF n < at THEN n ELSE n + 1
<1>1. new \in Pair /\ new[1] = key
  BY DEF Pair
<1>2. /\ rest \in Seq(Pair) /\ at \in Nat /\ l \in Nat
      /\ \A n \in 1..l : Old(n) \in 1..Len(d) /\ Old(n) # at /\ rest[n] = d[Old(n)]
      /\ \A m \in 1..Len(d) : m # at => \E n \in 1..l : Old(n) = m
      /\ \A m \in 1..Len(d) : d[m][1] = key <=> m = at
  <2>1. CASE Has(d, key)
    <3>1. at \in 1..Len(d) /\ d[at][1] = key
      BY <2>1 DEF Has, IndexOf
    <3>2. \A m \in 1..Len(d) : d[m][1] = key <=> m = at
      BY <3>1 DEF KeysOnce
    <3>3. rest = RemoveAt(d, at)
      BY <2>1
    <3> HIDE DEF at
    <3>4. /\ rest \in Seq(Pair) /\ l + 1 = Len(d)
          /\ \A n \in 1..l : rest[n] = IF n < at THEN d[n] ELSE d[n + 1]
      BY <3>1, <3>3, RemoveAtFacts
    <3>5. l \in Nat
      BY <3>4
    <3>6. ASSUME NEW m \in 1..Len(d), m # at PROVE \E n \in 1..l : Old(n) = m
      <4>1. CASE m < at
        BY <3>1, <3>4, <3>5, <4>1
      <4>2. CASE at < m
        <5>1. m - 1 \in 1..l /\ Old(m - 1) = m
          BY <3>1, <3>4, <3>5, <4>2
        <5> QED BY <5>1
      <4> QED BY <3>1, <3>6, <4>1, <4>2
    <3> QED BY <3>1, <3>2, <3>4, <3>5, <3>6
  <2>2. CASE ~Has(d, key)
    <3>1. rest = d /\ at = Len(d) + 1 /\ Len(d) \in Nat
      BY <2>2
    <3>2. \A m \in 1..Len(d) : d[m][1] # key
      BY <2>2 DEF Has
    <3> QED BY <3>1, <3>2
  <2> QED BY <2>1, <2>2
<1> HIDE DEF rest, at
<1>3. /\ e \in Seq(Pair) /\ Len(e) = l + 1 /\ e[l + 1] = new
      /\ \A n \in 1..l : e[n] = rest[n]
  BY <1>1, <1>2, AppendProperties DEF rest, Set
<1> HIDE DEF e, l, new
<1>4. \A n \in 1..l : e[n] = d[Old(n)] /\ Old(n) \in 1..Len(d) /\ d[Old(n)][1] # key
  BY <1>2, <1>3
<1>5. \A n \in 1..Len(e) : n \in 1..l \/ n = l + 1
  BY <1>2, <1>3
<1>6. KeysOnce(e)
  <2>1. ASSUME NEW n \in 1..Len(e), NEW m \in 1..Len(e), e[n][1] = e[m][1] PROVE n = m
    <3>1. CASE n \in 1..l /\ m \in 1..l
      <4>1. Old(n) = Old(m)
        BY <1>4, <2>1, <3>1 DEF KeysOnce
      <4> QED BY <1>2, <3>1, <4>1
    <3>2. CASE n = l + 1 /\ m = l + 1
      BY <3>2
    <3>3. CASE n \in 1..l /\ m = l + 1
      BY <1>1, <1>3, <1>4, <2>1, <3>3
    <3>4. CASE n = l + 1 /\ m \in 1..l
      BY <1>1, <1>3, <1>4, <2>1, <3>4
    <3> QED BY <1>5, <3>1, <3>2, <3>3, <3>4
  <2> QED BY <1>3, <2>1 DEF KeysOnce
<1>7. ToSet(e) = {p \in ToSet(d) : p[1] # key} \cup {new}
  <2>1. ToSet(e) = {e[n] : n \in 1..Len(e)} /\ ToSet(d) = {d[n] : n \in 1..Len(d)}
    BY <1>3, ToSetIsRange
  <2>2. ASSUME NEW n \in 1..Len(e) PROVE e[n] = new \/ e[n] \in {p \in ToSet(d) : p[1] # key}
    BY <1>3, <1>4, <1>5, <2>1
  <2>3. ASSUME NEW m \in 1..Len(d), d[m][1] # key PROVE \E n \in 1..Len(e) : e[n] = d[m]
    <3>1. m # at
      BY <1>2, <2>3
    <3>2. PICK n \in 1..l : Old(n) = m
      BY <1>2, <3>1
    <3>3. n \in 1..Len(e) /\ e[n] = d[m]
      BY <1>2, <1>3, <1>4, <3>2
    <3> QED BY <3>3
  <2>4. l + 1 \in 1..Len(e)
    BY <1>2, <1>3
  <2> QED BY <1>3, <2>1, <2>2, <2>3, <2>4
<1>8. ASSUME NEW p \in Pair, NEW q \in Pair, Precedes(e, p, q), q[1] # key
      PROVE  Precedes(d, p, q) /\ p[1] # key
  <2>1. PICK n \in 1..Len(e), m \in 1..Len(e) : n < m /\ e[n] = p /\ e[m] = q
    BY <1>3, <1>8 DEF Precedes
  <2>2. m # l + 1
    BY <1>1, <1>3, <1>8, <2>1
  <2>3. m \in 1..l /\ n \in 1..l
    BY <1>2, <1>5, <2>1, <2>2
  <2>4. Old(n) < Old(m)
    BY <1>2, <2>1, <2>3
  <2> QED BY <1>4, <2>1, <2>3, <2>4 DEF Precedes
<1> QED BY <1>3, <1>6, <1>7, <1>8 DEF e, new
\* Every set of natural numbers has a least one.

--------------------------------------------------------------------------------
\* The two names that are set last differ.
LEMMA StringsApart == MessageTemplateProperty # ExceptionProperty
BY DEF MessageTemplateProperty, ExceptionProperty

\* The constants, one fact each.
LEMMA DataConstants ==
  /\ \A base \in Bases : base \in Seq(Pair) /\ KeysOnce(base)
  /\ \A message \in Texts \cup {Null} : Names(message) \in Seq(AnyKey)
  /\ \A values \in ValueLists : /\ values \in Seq(AnyValue)
                                /\ \A n \in 1..Len(values) : Extra(n) \in AnyKey
  /\ Null \notin Texts /\ Null \notin Seq(Pair)
  /\ MessageTemplateProperty \in AnyKey /\ ExceptionProperty \in AnyKey
  /\ Texts \subseteq AnyValue /\ Exceptions \subseteq AnyValue
<1>1. \A message \in Texts \cup {Null} : Names(message) \in Seq(AnyKey)
  BY DataAssumption DEF Names
<1>2. ASSUME NEW values \in ValueLists, NEW n \in 1..Len(values)
      PROVE  values \in Seq(AnyValue) /\ Extra(n) \in AnyKey
  <2>1. values \in Seq(AnyValue) /\ n \in DOMAIN values
    BY DataAssumption
  <2>2. Extra(n) \in UNION {{Extra(m) : m \in DOMAIN v} : v \in ValueLists}
    BY <2>1
  <2>3. Extra(n) \in AnyKey
    BY <2>2, Zenon DEF AnyKey
  <2> QED BY <2>1, <2>3
<1>3. MessageTemplateProperty \in AnyKey /\ ExceptionProperty \in AnyKey
  BY Zenon DEF AnyKey
<1>4. Texts \subseteq AnyValue /\ Exceptions \subseteq AnyValue
  BY Zenon DEF AnyValue
<1> QED BY DataAssumption, <1>1, <1>2, <1>3, <1>4

\* What there is to know of the key of a value.
LEMMA KeyOfFacts ==
  ASSUME DataTypeOK
  PROVE  /\ templateValues \in Seq(AnyValue) /\ Len(templateValues) \in Nat
         /\ Names(messageTemplate) \in Seq(AnyKey) /\ Len(Names(messageTemplate)) \in Nat
         /\ \A n \in 1..Len(templateValues) : KeyOf(n) \in AnyKey /\ templateValues[n] \in AnyValue
<1> DEFINE names == Names(messageTemplate)
           values == templateValues
<1>1. values \in Seq(AnyValue) /\ Len(values) \in Nat /\ names \in Seq(AnyKey) /\ Len(names) \in Nat
  BY DataConstants DEF DataTypeOK
<1>2. \A n \in 1..Len(values) : Extra(n) \in AnyKey
  BY DataConstants DEF DataTypeOK
<1>3. ASSUME NEW n \in 1..Len(values) PROVE KeyOf(n) \in AnyKey /\ values[n] \in AnyValue
  <2>1. CASE n <= Len(names)
    <3>1. n \in 1..Len(names)
      BY <1>1, <2>1
    <3> QED BY <1>1, <2>1, <3>1 DEF KeyOf
  <2>2. CASE ~(n <= Len(names))
    <3>1. n - Len(names) \in 1..Len(values)
      BY <1>1, <2>2
    <3> QED BY <1>1, <1>2, <2>2, <3>1 DEF KeyOf
  <2> QED BY <2>1, <2>2
<1> QED BY <1>1, <1>3

\* Before the first value.
LEMMA LayerZero ==
  ASSUME DataTypeOK PROVE Layered(baseProperties, 0) /\ Loose(baseProperties, 0)
<1>1. baseProperties \in Seq(Pair) /\ KeysOnce(baseProperties)
  BY DEF DataTypeOK
<1>2. BaseLeft(0) = ToSet(baseProperties) /\ LastOf(0) = {}
  BY DEF BaseLeft, LastOf
<1>3. InOrder(baseProperties, ToSet(baseProperties))
  BY <1>1, ToSetIsRange DEF InOrder, Precedes
<1>4. LayerPairs(0) = ToSet(baseProperties)
  BY <1>2 DEF LayerPairs
<1> QED BY <1>1, <1>2, <1>3, <1>4 DEF Layered, Loose

\* What the next value makes of the properties.
LEMMA LayerSets ==
  ASSUME NEW n \in Nat
  PROVE  /\ BaseLeft(n + 1) = {p \in BaseLeft(n) : p[1] # KeyOf(n + 1)}
         /\ LayerPairs(n + 1) = {p \in LayerPairs(n) : p[1] # KeyOf(n + 1)}
                                  \cup {<<KeyOf(n + 1), templateValues[n + 1]>>}
<1> DEFINE key == KeyOf(n + 1)
           new == <<key, templateValues[n + 1]>>
           values(m) == {<<KeyOf(i), templateValues[i]>> : i \in LastOf(m)}
<1>1. \A i : i \in 1..(n + 1) <=> i \in 1..n \/ i = n + 1
  OBVIOUS
<1> HIDE DEF key
<1>2. BaseLeft(n + 1) = {p \in BaseLeft(n) : p[1] # key}
  BY <1>1 DEF BaseLeft, key
<1>3. LastOf(n + 1) = {i \in LastOf(n) : KeyOf(i) # key} \cup {n + 1}
  <2>1. ASSUME NEW i \in 1..n PROVE i \in LastOf(n + 1) <=> i \in LastOf(n) /\ KeyOf(i) # key
    BY <1>1 DEF LastOf, key
  <2>2. n + 1 \in LastOf(n + 1)
    BY DEF LastOf
  <2>3. LastOf(n + 1) \subseteq 1..(n + 1) /\ LastOf(n) \subseteq 1..n
    BY DEF LastOf
  <2> QED BY <1>1, <2>1, <2>2, <2>3
<1>4. values(n + 1) = {p \in values(n) : p[1] # key} \cup {new}
  BY <1>3 DEF key
<1> HIDE DEF values, new
<1>5. LayerPairs(n) = BaseLeft(n) \cup values(n) /\ LayerPairs(n + 1) = BaseLeft(n + 1) \cup values(n + 1)
  BY DEF LayerPairs, values
<1>6. LayerPairs(n + 1) = {p \in LayerPairs(n) : p[1] # key} \cup {new}
  BY <1>2, <1>4, <1>5
<1> QED BY <1>2, <1>6 DEF key, new

\* The next value is set.
LEMMA LayerStep ==
  ASSUME DataTypeOK, NEW d, NEW n \in Nat, n + 1 <= Len(templateValues), Layered(d, n)
  PROVE  Layered(Set(d, KeyOf(n + 1), templateValues[n + 1]), n + 1)
<1> DEFINE key == KeyOf(n + 1)
           value == templateValues[n + 1]
           e == Set(d, key, value)
<1>1. n + 1 \in 1..Len(templateValues) /\ key \in AnyKey /\ value \in AnyValue
  BY KeyOfFacts
<1>2. d \in Seq(Pair) /\ KeysOnce(d) /\ InOrder(d, BaseLeft(n)) /\ ToSet(d) = LayerPairs(n)
  BY DEF Layered
<1> HIDE DEF key, value
<1>3. /\ e \in Seq(Pair) /\ KeysOnce(e)
      /\ ToSet(e) = {p \in ToSet(d) : p[1] # key} \cup {<<key, value>>}
      /\ \A p, q \in Pair : Precedes(e, p, q) /\ q[1] # key => Precedes(d, p, q) /\ p[1] # key
  BY <1>1, <1>2, SetFacts
<1> HIDE DEF e
<1>4. /\ BaseLeft(n + 1) = {p \in BaseLeft(n) : p[1] # key}
      /\ LayerPairs(n + 1) = {p \in LayerPairs(n) : p[1] # key} \cup {<<key, value>>}
  BY LayerSets DEF key, value
<1>5. InOrder(e, BaseLeft(n + 1))
  <2>1. BaseLeft(n) \subseteq Pair
    BY ToSetIsRange DEF BaseLeft, DataTypeOK
  <2> QED BY <1>2, <1>3, <1>4, <2>1 DEF InOrder
<1> QED BY <1>2, <1>3, <1>4, <1>5 DEF Layered, e, key, value

\* The keys that depend on how values are counted off.
Numbered(key) == key = MessageTemplateProperty \/ \E i \in DOMAIN templateValues : key = Extra(i)

\* What is sure of a set.
LEMMA SureIs == \A S : Sure(S) = {p \in S : ~Numbered(p[1])}
BY DEF Sure, Numbered

\* The next value is set, be it with a wrong key.
LEMMA LooseStep ==
  ASSUME DataTypeOK, NEW d, NEW n \in Nat, n + 1 <= Len(templateValues), Loose(d, n),
         NEW key \in AnyKey, key = KeyOf(n + 1) \/ (Numbered(key) /\ Numbered(KeyOf(n + 1)))
  PROVE  Loose(Set(d, key, templateValues[n + 1]), n + 1)
<1> DEFINE right == KeyOf(n + 1)
           value == templateValues[n + 1]
           e == Set(d, key, value)
<1>1. n + 1 \in 1..Len(templateValues) /\ value \in AnyValue
  BY KeyOfFacts
<1>2. d \in Seq(Pair) /\ KeysOnce(d) /\ Sure(ToSet(d)) = Sure(LayerPairs(n))
  BY DEF Loose
<1> HIDE DEF right, value
<1>3. /\ e \in Seq(Pair) /\ KeysOnce(e)
      /\ ToSet(e) = {p \in ToSet(d) : p[1] # key} \cup {<<key, value>>}
  BY <1>1, <1>2, SetFacts
<1> HIDE DEF e
<1>4. LayerPairs(n + 1) = {p \in LayerPairs(n) : p[1] # right} \cup {<<right, value>>}
  BY LayerSets DEF right, value
<1>5. key = right \/ (Numbered(key) /\ Numbered(right))
  BY DEF right
<1>6. \A p : p \in Sure(ToSet(e)) <=> p \in Sure(LayerPairs(n + 1))
  <2>1. \A p : p \in ToSet(d) /\ ~Numbered(p[1]) <=> p \in LayerPairs(n) /\ ~Numbered(p[1])
    BY <1>2, SureIs
  <2>2. <<key, value>>[1] = key /\ <<right, value>>[1] = right
    OBVIOUS
  <2>3. CASE key = right
    BY <1>3, <1>4, <2>1, <2>3, SureIs
  <2>4. CASE Numbered(key) /\ Numbered(right)
    <3>1. \A p : ~Numbered(p[1]) => p[1] # key /\ p[1] # right
      BY <2>4
    <3> QED BY <1>3, <1>4, <2>1, <2>2, <2>4, <3>1, SureIs
  <2> QED BY <1>5, <2>3, <2>4
<1>7. Sure(ToSet(e)) = Sure(LayerPairs(n + 1))
  BY <1>6, SureIs
<1> QED BY <1>3, <1>7 DEF Loose, e, value

\* The last of the values with a key.
LEMMA SomeLast ==
  ASSUME NEW n \in Nat, NEW i \in 1..n PROVE \E j \in LastOf(n) : KeyOf(j) = KeyOf(i)
<1> DEFINE T == {k \in Nat : \E j \in 1..n : k = n - j /\ KeyOf(j) = KeyOf(i)}
<1>1. n - i \in T
  OBVIOUS
<1>2. PICK k \in T : \A m \in T : k <= m
  BY <1>1, LeastNat
<1>3. PICK j \in 1..n : k = n - j /\ KeyOf(j) = KeyOf(i)
  BY <1>2
<1>4. ASSUME NEW m \in 1..n, KeyOf(m) = KeyOf(j) PROVE m <= j
  <2>1. n - m \in T
    BY <1>3, <1>4
  <2> HIDE DEF T
  <2>2. k <= n - m
    BY <1>2, <2>1
  <2> QED BY <1>3, <2>2
<1> QED BY <1>3, <1>4 DEF LastOf

\* What is set after the values.
LastKey(p) == \/ p[1] = ExceptionProperty /\ exception # Null
              \/ p[1] = MessageTemplateProperty /\ messageTemplate # Null
LastPairs == {<<ExceptionProperty, x>> : x \in {exception} \ {Null}}
               \cup {<<MessageTemplateProperty, x>> : x \in {messageTemplate} \ {Null}}

\* The properties of the specification, by layers.
LEMMA Layers ==
  ASSUME DataTypeOK
  PROVE  LET n == Len(templateValues) IN
         /\ Remaining = {p \in BaseLeft(n) : ~LastKey(p)}
         /\ Expected = {p \in LayerPairs(n) : ~LastKey(p)} \cup LastPairs
<1> DEFINE n == Len(templateValues) 
           values == {<<KeyOf(i), templateValues[i]>> : i \in LastOf(n)}
           key(p) == \/ p[1] = ExceptionProperty /\ exception # Null
                     \/ p[1] = MessageTemplateProperty /\ messageTemplate # Null
           last == {<<ExceptionProperty, x>> : x \in {exception} \ {Null}}
                     \cup {<<MessageTemplateProperty, x>> : x \in {messageTemplate} \ {Null}}
           names == Names(messageTemplate)
           extras == [i \in DOMAIN templateValues |-> Extra(i)]
<1>1. n \in Nat /\ DOMAIN templateValues = 1..n
  BY KeyOfFacts
<1>2. \A i \in 1..n : ValueKeys[i] = KeyOf(i)
  <2>1. names \in Seq(AnyKey) /\ Len(names) \in Nat
    BY KeyOfFacts
  <2>2. extras \in Seq(AnyKey) /\ Len(extras) = n /\ \A i \in 1..n : extras[i] = Extra(i)
    BY <1>1, DataConstants DEF DataTypeOK
  <2> HIDE DEF extras, names, n
  <2>3. /\ names \o extras \in Seq(AnyKey) /\ Len(names \o extras) = Len(names) + n
        /\ \A i \in 1..(Len(names) + n) : (names \o extras)[i] = IF i <= Len(names) THEN names[i]
                                                                 ELSE extras[i - Len(names)]
    BY <2>1, <2>2, ConcatProperties
  <2>4. ASSUME NEW i \in 1..n PROVE SubSeq(names \o extras, 1, n)[i] = (names \o extras)[i]
    BY <1>1, <2>1, <2>3, SubSeqProperties
  <2>5. ASSUME NEW i \in 1..n PROVE (names \o extras)[i] = KeyOf(i)
    <3>1. CASE i <= Len(names)
      BY <1>1, <2>1, <2>3, <3>1 DEF KeyOf, names
    <3>2. CASE ~(i <= Len(names))
      <4>1. i - Len(names) \in 1..n /\ i \in 1..(Len(names) + n)
        BY <1>1, <2>1, <3>2
      <4>2. (names \o extras)[i] = Extra(i - Len(names))
        BY <2>2, <2>3, <3>2, <4>1
      <4> QED BY <3>2, <4>2 DEF KeyOf, names
    <3> QED BY <3>1, <3>2
  <2>6. ValueKeys = SubSeq(names \o extras, 1, n)
    BY DEF ValueKeys, names, extras, n
  <2> QED BY <2>4, <2>5, <2>6
<1>3. FromValues = LastOf(n)
  BY <1>1, <1>2 DEF FromValues, LastOf
<1>4. values = {<<ValueKeys[i], templateValues[i]>> : i \in FromValues}
  <2>1. LastOf(n) \subseteq 1..n
    BY DEF LastOf
  <2> QED BY <1>2, <1>3, <2>1
<1>5. Overriding = last \cup Without(values, last)
  BY <1>4 DEF Overriding
<1>6. \A p : (\E q \in last : p[1] = q[1]) <=> key(p)
  <2>1. ASSUME NEW q \in last PROVE key(q)
    BY <2>1
  <2>2. exception # Null => <<ExceptionProperty, exception>> \in last
    OBVIOUS
  <2>3. messageTemplate # Null => <<MessageTemplateProperty, messageTemplate>> \in last
    OBVIOUS
  <2>4. ASSUME NEW p, NEW q \in last, p[1] = q[1] PROVE key(p)
    BY <2>1, <2>4
  <2>5. ASSUME NEW p, key(p) PROVE \E q \in last : p[1] = q[1]
    <3>1. CASE p[1] = ExceptionProperty /\ exception # Null
      <4>1. p[1] = <<ExceptionProperty, exception>>[1]
        BY <3>1
      <4> HIDE DEF last
      <4> QED BY <2>2, <3>1, <4>1
    <3>2. CASE p[1] = MessageTemplateProperty /\ messageTemplate # Null
      <4>1. p[1] = <<MessageTemplateProperty, messageTemplate>>[1]
        BY <3>2
      <4> HIDE DEF last
      <4> QED BY <2>3, <3>2, <4>1
    <3> QED BY <2>5, <3>1, <3>2
  <2> HIDE DEF last, key
  <2> QED BY <2>4, <2>5
<1>7. Without(values, last) = {p \in values : ~key(p)}
  BY <1>6 DEF Without
<1>8. Remaining = {p \in BaseLeft(n) : ~key(p)}
  <2>1. ASSUME NEW p \in ToSet(baseProperties), ~key(p)
        PROVE  (\E q \in values : ~key(q) /\ p[1] = q[1]) <=> (\E i \in 1..n : KeyOf(i) = p[1])
    <3>1. ASSUME NEW i \in 1..n, KeyOf(i) = p[1] PROVE \E q \in values : ~key(q) /\ p[1] = q[1]
      <4>1. PICK j \in LastOf(n) : KeyOf(j) = KeyOf(i)
        BY <1>1, SomeLast
      <4>2. <<KeyOf(j), templateValues[j]>> \in values
        OBVIOUS
      <4> QED BY <2>1, <3>1, <4>1, <4>2
    <3>2. ASSUME NEW q \in values, p[1] = q[1] PROVE \E i \in 1..n : KeyOf(i) = p[1]
      BY <3>2 DEF LastOf
    <3> QED BY <3>1, <3>2
  <2>2. Remaining = {p \in ToSet(baseProperties) : ~\E q \in Overriding : p[1] = q[1]}
    BY DEF Remaining, Without
  <2>3. \A p : (\E q \in Overriding : p[1] = q[1]) <=> key(p) \/ \E q \in values : ~key(q) /\ p[1] = q[1]
    BY <1>5, <1>6, <1>7
  <2> HIDE DEF key, values
  <2>4. BaseLeft(n) = {p \in ToSet(baseProperties) : ~\E i \in 1..n : KeyOf(i) = p[1]}
    BY DEF BaseLeft
  <2> QED BY <2>1, <2>2, <2>3, <2>4
<1>9. Expected = {p \in BaseLeft(n) \cup values : ~key(p)} \cup last
  <2> HIDE DEF key, values, last
  <2> QED BY <1>5, <1>7, <1>8 DEF Expected
<1>10. (\A p : LastKey(p) <=> key(p)) /\ LastPairs = last
  BY Zenon DEF LastKey, LastPairs
<1>11. LayerPairs(n) = BaseLeft(n) \cup values
  BY Zenon DEF LayerPairs
<1> HIDE DEF key, values, last, n
<1>12. Remaining = {p \in BaseLeft(n) : ~LastKey(p)} /\ Expected = {p \in LayerPairs(n) : ~LastKey(p)} \cup LastPairs
  BY <1>8, <1>9, <1>10, <1>11
<1> QED BY <1>12 DEF n

\* The dictionary with the template and the exception set last.
Finished(d) ==
  LET e == IF messageTemplate = Null THEN d ELSE Set(d, MessageTemplateProperty, messageTemplate)
  IN  IF exception = Null THEN e ELSE Set(e, ExceptionProperty, exception)

\* After the last value come the template and the exception.
LEMMA FinishedFacts ==
  ASSUME DataTypeOK, NEW d \in Seq(Pair), KeysOnce(d)
  PROVE  /\ Finished(d) \in Seq(Pair) /\ KeysOnce(Finished(d))
         /\ ToSet(Finished(d)) = {p \in ToSet(d) : ~LastKey(p)} \cup LastPairs
         /\ \A p, q \in Pair : Precedes(Finished(d), p, q) /\ ~LastKey(q) => Precedes(d, p, q) /\ ~LastKey(p)
<1> DEFINE e == IF messageTemplate = Null THEN d ELSE Set(d, MessageTemplateProperty, messageTemplate)
           f == IF exception = Null THEN e ELSE Set(e, ExceptionProperty, exception)
           templateKey(p) == p[1] = MessageTemplateProperty /\ messageTemplate # Null
           exceptionKey(p) == p[1] = ExceptionProperty /\ exception # Null
           templateLast == {<<MessageTemplateProperty, x>> : x \in {messageTemplate} \ {Null}}
           exceptionLast == {<<ExceptionProperty, x>> : x \in {exception} \ {Null}}
<1>1. /\ messageTemplate # Null => MessageTemplateProperty \in AnyKey /\ messageTemplate \in AnyValue
      /\ exception # Null => ExceptionProperty \in AnyKey /\ exception \in AnyValue
  BY DataConstants DEF DataTypeOK
<1>2. /\ e \in Seq(Pair) /\ KeysOnce(e)
      /\ ToSet(e) = {p \in ToSet(d) : ~templateKey(p)} \cup templateLast
      /\ \A p, q \in Pair : Precedes(e, p, q) /\ ~templateKey(q) => Precedes(d, p, q) /\ ~templateKey(p)
  <2>1. CASE messageTemplate = Null
    BY <2>1
  <2>2. CASE messageTemplate # Null
    <3>1. e = Set(d, MessageTemplateProperty, messageTemplate)
      BY <2>2
    <3> HIDE DEF e
    <3> QED BY <1>1, <2>2, <3>1, SetFacts
  <2> QED BY <2>1, <2>2
<1> HIDE DEF e, templateKey, templateLast
<1>3. /\ f \in Seq(Pair) /\ KeysOnce(f)
      /\ ToSet(f) = {p \in ToSet(e) : ~exceptionKey(p)} \cup exceptionLast
      /\ \A p, q \in Pair : Precedes(f, p, q) /\ ~exceptionKey(q) => Precedes(e, p, q) /\ ~exceptionKey(p)
  <2>1. CASE exception = Null
    BY <1>2, <2>1
  <2>2. CASE exception # Null
    <3>1. f = Set(e, ExceptionProperty, exception)
      BY <2>2
    <3> HIDE DEF f
    <3> QED BY <1>1, <1>2, <2>2, <3>1, SetFacts
  <2> QED BY <2>1, <2>2
<1>4. Finished(d) = f
  BY Zenon DEF Finished, e
<1> HIDE DEF f, exceptionKey, exceptionLast
<1>5. (\A p : LastKey(p) <=> exceptionKey(p) \/ templateKey(p)) /\ LastPairs = exceptionLast \cup templateLast
  BY Zenon DEF LastKey, LastPairs, exceptionKey, templateKey, exceptionLast, templateLast
<1>6. \A p \in templateLast : ~exceptionKey(p)
  BY StringsApart DEF templateLast, exceptionKey
<1>7. ToSet(f) = {p \in ToSet(d) : ~LastKey(p)} \cup LastPairs
  BY <1>2, <1>3, <1>5, <1>6
<1>8. \A p, q \in Pair : Precedes(f, p, q) /\ ~LastKey(q) => Precedes(d, p, q) /\ ~LastKey(p)
  BY <1>2, <1>3, <1>5
<1> QED BY <1>3, <1>4, <1>7, <1>8

\* What was counted off rightly is what is expected,
LEMMA LayersWhole ==
  ASSUME DataTypeOK, NEW d, Layered(d, Len(templateValues))
  PROVE  ToSet(Finished(d)) = Expected /\ InOrder(Finished(d), Remaining)
<1> DEFINE n == Len(templateValues)
           f == Finished(d)
<1>1. d \in Seq(Pair) /\ KeysOnce(d) /\ ToSet(d) = LayerPairs(n) /\ InOrder(d, BaseLeft(n))
  BY DEF Layered
<1>2. /\ ToSet(f) = {p \in ToSet(d) : ~LastKey(p)} \cup LastPairs
      /\ \A p, q \in Pair : Precedes(f, p, q) /\ ~LastKey(q) => Precedes(d, p, q) /\ ~LastKey(p)
  BY <1>1, FinishedFacts
<1>3. Remaining = {p \in BaseLeft(n) : ~LastKey(p)} /\ Expected = {p \in LayerPairs(n) : ~LastKey(p)} \cup LastPairs
  BY Layers
<1> HIDE DEF f, n
<1>4. InOrder(f, Remaining)
  <2>1. Remaining \subseteq Pair
    BY <1>3, ToSetIsRange DEF BaseLeft, DataTypeOK
  <2>2. ASSUME NEW q \in Remaining, NEW p \in Pair, Precedes(f, p, q)
        PROVE  p \in Remaining /\ Precedes(baseProperties, p, q)
    <3>1. ~LastKey(q) /\ q \in BaseLeft(n) /\ q \in Pair
      BY <1>3, <2>1
    <3>2. Precedes(d, p, q) /\ ~LastKey(p)
      BY <1>2, <2>2, <3>1
    <3>3. p \in BaseLeft(n) /\ Precedes(baseProperties, p, q)
      BY <1>1, <3>1, <3>2 DEF InOrder
    <3> QED BY <1>3, <3>2, <3>3
  <2> QED BY <2>2 DEF InOrder
<1> QED BY <1>1, <1>2, <1>3, <1>4 DEF f

\* and what was not is, but for the keys that depend on it.
LEMMA LooseWhole ==
  ASSUME DataTypeOK, NEW d, Loose(d, Len(templateValues))
  PROVE  /\ Finished(d) \in Seq(Pair) /\ KeysOnce(Finished(d))
         /\ Sure(ToSet(Finished(d))) = Sure(Expected)
<1> DEFINE n == Len(templateValues)
           f == Finished(d)
<1>1. d \in Seq(Pair) /\ KeysOnce(d) /\ Sure(ToSet(d)) = Sure(LayerPairs(n))
  BY DEF Loose
<1>2. /\ f \in Seq(Pair) /\ KeysOnce(f)
      /\ ToSet(f) = {p \in ToSet(d) : ~LastKey(p)} \cup LastPairs
  BY <1>1, FinishedFacts
<1>3. Expected = {p \in LayerPairs(n) : ~LastKey(p)} \cup LastPairs
  BY Layers
<1> HIDE DEF f, n
<1>4. \A p : p \in ToSet(d) /\ ~Numbered(p[1]) <=> p \in LayerPairs(n) /\ ~Numbered(p[1])
  BY <1>1, SureIs
<1>5. \A p : p \in Sure(ToSet(f)) <=> p \in Sure(Expected)
  BY <1>2, <1>3, <1>4, SureIs
<1>6. Sure(ToSet(f)) = Sure(Expected)
  BY <1>5, SureIs
<1> QED BY <1>2, <1>6 DEF f

--------------------------------------------------------------------------------
\* What a step leaves alone that does not change what the object was constructed with.
LEMMA SteadyParts ==
  ASSUME UNCHANGED <<baseProperties, exception, messageTemplate, templateValues>>
  PROVE  /\ Expected' = Expected /\ Remaining' = Remaining /\ Template' = Template
         /\ (NoExtras' <=> NoExtras)
         /\ \A d, n : Layered(d, n)' <=> Layered(d, n)
         /\ \A d, left : InOrder(d, left)' <=> InOrder(d, left)
         /\ \A d, n : Loose(d, n)' <=> Loose(d, n)
         /\ \A S : Sure(S)' = Sure(S)
<1>1. Template' = Template /\ (NoExtras' <=> NoExtras)
  BY DEF NoExtras, Template
<1>2. \A n : KeyOf(n)' = KeyOf(n)
  BY DEF KeyOf, Names
<1>3. \A n : LastOf(n)' = LastOf(n)
  BY <1>2 DEF LastOf
<1>4. \A n : BaseLeft(n)' = BaseLeft(n)
  BY <1>2 DEF BaseLeft
<1>5. \A d, left : InOrder(d, left)' <=> InOrder(d, left)
  BY DEF InOrder
<1>6. \A n : LayerPairs(n)' = LayerPairs(n)
  BY <1>2, <1>3, <1>4 DEF LayerPairs
<1>7. \A d, n : Layered(d, n)' <=> Layered(d, n)
  BY <1>4, <1>5, <1>6 DEF Layered
<1>8. \A S : Sure(S)' = Sure(S)
  BY DEF Sure
<1>9. \A d, n : Loose(d, n)' <=> Loose(d, n)
  BY <1>6, <1>8 DEF Loose
<1>10. ValueKeys' = ValueKeys
  BY DEF ValueKeys, Names
<1>11. FromValues' = FromValues
  BY <1>10 DEF FromValues
<1>12. Overriding' = Overriding
  BY <1>10, <1>11 DEF Overriding
<1>13. Remaining' = Remaining
  BY <1>12 DEF Remaining
<1> QED BY <1>1, <1>5, <1>7, <1>8, <1>9, <1>12, <1>13 DEF Expected

\* What was published stays as it is,
LEMMA PublishedStays ==
  ASSUME DataInv, UNCHANGED <<baseProperties, exception, messageTemplate, templateValues, allProperties>>,
         shifted => shifted', KeysAreNames => KeysAreNames'
  PROVE  allProperties' # Null =>
           Published' /\ (shifted' \/ Whole') /\ messageTemplate' \notin Invalid /\ KeysAreNames'
<1>1. /\ Expected' = Expected /\ Remaining' = Remaining
      /\ \A d, left : InOrder(d, left)' <=> InOrder(d, left)
      /\ \A S : Sure(S)' = Sure(S)
  BY SteadyParts
<1>2. (Published' <=> Published) /\ (Whole' <=> Whole)
  BY <1>1 DEF Published, Whole
<1> QED BY <1>2 DEF DataInv

\* and so does the text.
LEMMA TextStays ==
  ASSUME DataInv, UNCHANGED <<baseProperties, exception, messageTemplate, templateValues, toString>>,
         shifted => shifted', allProperties # Null => allProperties' # Null
  PROVE  toString' # Null => allProperties' # Null /\ (shifted' \/ ShownOnce')
<1>1. Expected' = Expected
  BY SteadyParts
<1>2. ShownOnce' <=> ShownOnce
  BY <1>1 DEF ShownOnce, Names
<1> QED BY <1>2 DEF DataInv

\* What is known of a thread that takes no step.
LEMMA Elsewhere ==
  ASSUME DataInv, NEW u \in DataThread, reader'[u] = reader[u],
         UNCHANGED <<baseProperties, exception, messageTemplate, templateValues>>,
         shifted => shifted', KeysAreNames => KeysAreNames',
         allProperties # Null => allProperties' # Null,
         \/ shifted' \/ NoExtras \/ templateKeys' = templateKeys
         \/ Len(templateKeys') = Len(Names(messageTemplate))
         \/ ~(reader[u].pc = "values" /\ reader[u].at <= Len(templateValues))
  PROVE  Here(u)'
<1>1. /\ (NoExtras' <=> NoExtras)
      /\ \A d, n : Layered(d, n)' <=> Layered(d, n)
      /\ \A d, n : Loose(d, n)' <=> Loose(d, n)
  BY SteadyParts
<1>2. Here(u) /\ reader[u] \in Reader /\ Len(templateValues) \in Nat
  BY KeyOfFacts DEF DataInv, DataTypeOK
<1>3. ASSUME reader[u].pc = "values"
      PROVE  /\ messageTemplate' \notin Invalid /\ KeysAreNames'
             /\ reader'[u].at \in 1..(Len(templateValues') + 1) /\ reader'[u].extra < reader'[u].at
             /\ Loose(reader[u].local, reader[u].at - 1)'
             /\ shifted' \/ Counted(u)'
  <2>1. /\ messageTemplate \notin Invalid /\ KeysAreNames
        /\ reader[u].at \in 1..(Len(templateValues) + 1) /\ reader[u].extra < reader[u].at
        /\ Loose(reader[u].local, reader[u].at - 1)
        /\ shifted \/ Counted(u)
    BY <1>2, <1>3 DEF Here
  <2>2. PICK d, n : d = reader[u].local /\ n = reader[u].at - 1
    OBVIOUS
  <2>3. Loose(d, n)' /\ d = reader'[u].local /\ n = reader'[u].at - 1
    BY <1>1, <2>1, <2>2
  <2>4. ASSUME ~shifted' PROVE Counted(u)'
    <3>1. Counted(u)
      BY <2>1, <2>4
    <3>2. /\ Layered(d, n)
          /\ reader[u].extra = IF n > Len(Names(messageTemplate)) THEN n - Len(Names(messageTemplate)) ELSE 0
          /\ NoExtras \/ n >= Len(templateValues) \/ Len(templateKeys) = Len(Names(messageTemplate))
      BY <2>2, <3>1 DEF Counted
    <3>3. n >= Len(templateValues) <=> ~(reader[u].at <= Len(templateValues))
      BY <1>2, <2>2 DEF Reader
    <3>4. NoExtras' \/ n >= Len(templateValues') \/ Len(templateKeys') = Len(Names(messageTemplate'))
      BY <1>1, <1>3, <2>4, <3>2, <3>3
    <3>5. Layered(d, n)'
      BY <1>1, <3>2
    <3> QED BY <2>3, <3>2, <3>4, <3>5 DEF Counted
  <2> QED BY <2>1, <2>2, <2>3, <2>4
<1>4. reader[u].pc = "idle" => reader[u] = Idle
  BY <1>2 DEF Here
<1>5. reader[u].pc = "keys" =>
        reader[u].at = 1 /\ reader[u].extra = 0 /\ reader[u].local = baseProperties
  BY <1>2 DEF Here
<1>6. reader[u].pc = "text" => allProperties' # Null
  BY <1>2 DEF Here
<1> QED BY <1>3, <1>4, <1>5, <1>6 DEF Here

--------------------------------------------------------------------------------
\* The invariant holds at the start.
LEMMA DataInvInit == DataInit => DataInv
<1> SUFFICES ASSUME DataInit PROVE DataInv
  OBVIOUS
<1>1. \A t \in DataThread : reader[t] = Idle
  BY DEF DataInit
<1>2. Idle \in Reader /\ Idle.pc = "idle"
  BY DEF Idle, Reader
<1>3. DataTypeOK
  BY <1>2, DataConstants DEF DataInit, DataTypeOK
<1>4. ~Active
  BY <1>1, <1>2 DEF Active, DataInit
<1>5. \A t \in DataThread : Here(t)
  BY <1>1, <1>2 DEF Here
<1> QED BY <1>3, <1>4, <1>5 DEF DataInv, DataInit

\* Before the object is first read, or after each read so far threw.
LEMMA AddKeepsInv ==
  ASSUME DataInv, NEW key \in Key, Add(key, "added")
  PROVE  DataInv'
<1>1. \A t \in DataThread : reader[t] = Idle /\ reader'[t] = Idle
  BY DEF Add
<1>2. allProperties = Null /\ allProperties' = Null /\ toString' = toString /\ toString = Null
  BY DEF Add, DataInv
<1>3. Idle.pc = "idle"
  BY DEF Idle
<1>4. baseProperties' \in Seq(Pair) /\ KeysOnce(baseProperties')
  <2> DEFINE base == baseProperties
             new == <<key, "added">>
  <2>1. base \in Seq(Pair) /\ KeysOnce(base) /\ Len(base) \in Nat
    BY DEF DataInv, DataTypeOK
  <2>2. new \in Pair /\ new[1] = key
    <3>1. key \in AnyKey
      BY Zenon DEF AnyKey
    <3>2. "added" \in AnyValue
      BY Zenon DEF AnyValue
    <3> QED BY <3>1, <3>2 DEF Pair
  <2>3. baseProperties' = Append(base, new) /\ \A n \in 1..Len(base) : base[n][1] # key
    BY <2>1 DEF Add, Has
  <2> HIDE DEF new, base
  <2>4. /\ baseProperties' \in Seq(Pair) /\ Len(baseProperties') = Len(base) + 1
        /\ baseProperties'[Len(base) + 1] = new
        /\ \A n \in 1..Len(base) : baseProperties'[n] = base[n]
    BY <2>1, <2>2, <2>3, AppendProperties
  <2>5. ASSUME NEW n \in 1..(Len(base) + 1), NEW m \in 1..(Len(base) + 1),
               baseProperties'[n][1] = baseProperties'[m][1]
        PROVE  n = m
    <3>1. CASE n = Len(base) + 1 /\ m = Len(base) + 1
      BY <3>1
    <3>2. CASE n \in 1..Len(base) /\ m \in 1..Len(base)
      BY <2>1, <2>4, <2>5, <3>2 DEF KeysOnce
    <3>3. CASE n = Len(base) + 1 /\ m \in 1..Len(base)
      BY <2>2, <2>3, <2>4, <2>5, <3>3
    <3>4. CASE n \in 1..Len(base) /\ m = Len(base) + 1
      BY <2>2, <2>3, <2>4, <2>5, <3>4
    <3> QED BY <2>1, <3>1, <3>2, <3>3, <3>4
  <2>6. DOMAIN baseProperties' = 1..(Len(base) + 1)
    BY <2>4
  <2> QED BY <2>4, <2>5, <2>6 DEF KeysOnce
<1>5. DataTypeOK'
  BY <1>4 DEF Add, DataInv, DataTypeOK
<1>6. ~Active'
  BY <1>1, <1>2, <1>3 DEF Active
<1>7. \A t \in DataThread : Here(t)'
  BY <1>1, <1>3 DEF Here
<1> QED BY <1>1, <1>2, <1>3, <1>5, <1>6, <1>7 DEF DataInv

\* A template found in the base properties is one of the object from then on.
LEMMA TemplateTaken ==
  ASSUME DataTypeOK, UNCHANGED baseProperties, messageTemplate' = Template
  PROVE  Template \in Texts \cup {Null} /\ Template' = Template
BY DEF Template, DataTypeOK

\* One lemma for each action: a thread starts to read,
LEMMA BeginKeepsInv ==
  ASSUME DataInv, NEW t \in DataThread, NEW op \in {"ToString", "Properties"}, Begin(t, op)
  PROVE  DataInv'
<1> DEFINE where == IF allProperties = Null THEN "keys" ELSE "text"
           new == [op |-> op, at |-> 1, extra |-> 0, local |-> baseProperties, pc |-> where]
<1>1. /\ reader' = [reader EXCEPT ![t] = new] /\ messageTemplate' = Template
      /\ reader[t] = Idle
  BY DEF Begin
<1>2. UNCHANGED <<baseProperties, exception, templateValues, templateKeys, allProperties, toString, shifted>>
  BY DEF Begin
<1>3. DataTypeOK
  BY DEF DataInv
<1>4. new \in Reader /\ new.pc = where /\ new.at = 1 /\ new.extra = 0 /\ new.local = baseProperties
  BY <1>3 DEF Reader, DataTypeOK
<1> HIDE DEF new
<1>5. reader'[t] = new /\ \A u \in DataThread : u # t => reader'[u] = reader[u]
  BY <1>1, <1>3 DEF DataTypeOK
<1>6. Template \in Texts \cup {Null} /\ Template' = Template
  BY <1>1, <1>2, <1>3, TemplateTaken
<1>7. DataTypeOK'
  BY <1>1, <1>2, <1>3, <1>4, <1>6 DEF DataTypeOK
<1>8. Here(t)'
  BY <1>2, <1>4, <1>5 DEF Here
<1>9. CASE Active
  <2>1. messageTemplate' = messageTemplate
    BY <1>1, <1>9 DEF DataInv
  <2>2. KeysAreNames' <=> KeysAreNames
    BY <1>2, <2>1 DEF KeysAreNames
  <2>3. ASSUME NEW u \in DataThread, u # t PROVE Here(u)'
    BY <1>2, <1>5, <2>1, <2>2, <2>3, Elsewhere
  <2>4. allProperties' # Null =>
          Published' /\ (shifted' \/ Whole') /\ messageTemplate' \notin Invalid /\ KeysAreNames'
    BY <1>2, <2>1, <2>2, PublishedStays
  <2>5. toString' # Null => allProperties' # Null /\ (shifted' \/ ShownOnce')
    BY <1>2, <2>1, TextStays
  <2> QED BY <1>1, <1>6, <1>7, <1>8, <2>3, <2>4, <2>5 DEF DataInv
<1>10. CASE ~Active
  <2>1. allProperties = Null /\ \A u \in DataThread : reader[u].pc = "idle"
    BY <1>10 DEF Active
  <2>2. ASSUME NEW u \in DataThread, u # t PROVE Here(u)'
    <3>1. reader'[u] = Idle
      BY <1>5, <2>1, <2>2 DEF DataInv, Here
    <3> QED BY <3>1 DEF Here, Idle
  <2>3. allProperties' = Null /\ toString' = Null
    BY <1>2, <2>1 DEF DataInv
  <2> QED BY <1>1, <1>6, <1>7, <1>8, <2>2, <2>3 DEF DataInv
<1> QED BY <1>9, <1>10

\* A step of a thread that reads.
LEMMA ReadingStep ==
  ASSUME DataInv, NEW t \in DataThread, reader[t].pc # "idle", NEW new \in Reader,
         reader' = [reader EXCEPT ![t] = new], allProperties' \in Seq(Pair) \cup {Null},
         UNCHANGED <<baseProperties, exception, messageTemplate, templateValues>>,
         shifted' \in BOOLEAN
  PROVE  /\ DataTypeOK' /\ messageTemplate' = Template'
         /\ reader'[t] = new /\ \A u \in DataThread : u # t => reader'[u] = reader[u]
<1>1. DataTypeOK /\ Active /\ messageTemplate = Template
  BY DEF DataInv, Active
<1>2. reader'[t] = new /\ \A u \in DataThread : u # t => reader'[u] = reader[u]
  BY <1>1 DEF DataTypeOK
<1>3. DataTypeOK'
  BY <1>1 DEF DataTypeOK
<1>4. Template' = Template
  BY SteadyParts
<1> QED BY <1>1, <1>2, <1>3, <1>4

\* its template is refused,
LEMMA KeysThrowKeepsInv ==
  ASSUME DataInv, NEW t \in DataThread, KeysThrow(t) PROVE DataInv'
<1>1. /\ reader[t].pc = "keys" /\ reader' = [reader EXCEPT ![t] = Idle]
      /\ UNCHANGED <<baseProperties, exception, messageTemplate, templateValues, templateKeys,
                     allProperties, toString, shifted>>
  BY DEF KeysThrow
<1>2. Idle \in Reader /\ Idle.pc = "idle"
  BY DEF Idle, Reader
<1>3. allProperties' \in Seq(Pair) \cup {Null} /\ shifted' \in BOOLEAN
  BY <1>1 DEF DataInv, DataTypeOK
<1>4. /\ DataTypeOK' /\ messageTemplate' = Template'
      /\ reader'[t] = Idle /\ \A u \in DataThread : u # t => reader'[u] = reader[u]
  BY <1>1, <1>2, <1>3, ReadingStep
<1>5. KeysAreNames' <=> KeysAreNames
  BY <1>1 DEF KeysAreNames
<1>6. Here(t)'
  BY <1>2, <1>4 DEF Here
<1>7. ASSUME NEW u \in DataThread, u # t PROVE Here(u)'
  BY <1>1, <1>4, <1>5, <1>7, Elsewhere
<1>8. allProperties' # Null =>
        Published' /\ (shifted' \/ Whole') /\ messageTemplate' \notin Invalid /\ KeysAreNames'
  BY <1>1, <1>5, PublishedStays
<1>9. toString' # Null => allProperties' # Null /\ (shifted' \/ ShownOnce')
  BY <1>1, TextStays
<1> QED BY <1>4, <1>6, <1>7, <1>8, <1>9 DEF DataInv

\* it gets the keys,
LEMMA GetKeysKeepsInv ==
  ASSUME DataInv, NEW t \in DataThread, GetKeys(t) PROVE DataInv'
<1> DEFINE r == reader[t]
           new == [r EXCEPT !.pc = "values"]
<1>1. /\ r.pc = "keys" /\ messageTemplate \notin Invalid
      /\ reader' = [reader EXCEPT ![t] = new] /\ templateKeys' = Names(messageTemplate)
      /\ UNCHANGED <<baseProperties, exception, messageTemplate, templateValues,
                     allProperties, toString, shifted>>
  BY DEF GetKeys
<1>2. DataTypeOK /\ r \in Reader
  BY DEF DataInv, DataTypeOK
<1>3. r.at = 1 /\ r.extra = 0 /\ r.local = baseProperties
  BY <1>1 DEF DataInv, Here
<1>4. /\ new \in Reader /\ new.pc = "values" /\ new.at = 1 /\ new.extra = 0
      /\ new.local = baseProperties
  BY <1>2, <1>3 DEF Reader
<1>5. allProperties' \in Seq(Pair) \cup {Null} /\ shifted' \in BOOLEAN
  BY <1>1, <1>2 DEF DataTypeOK
<1> HIDE DEF new
<1>6. /\ DataTypeOK' /\ messageTemplate' = Template'
      /\ reader'[t] = new /\ \A u \in DataThread : u # t => reader'[u] = reader[u]
  <2>1. reader[t].pc # "idle"
    BY <1>1
  <2> QED BY <1>1, <1>4, <1>5, <2>1, ReadingStep
<1>7. /\ \A d, n : Layered(d, n)' <=> Layered(d, n)
      /\ \A d, n : Loose(d, n)' <=> Loose(d, n)
  BY <1>1, SteadyParts
<1>8. /\ KeysAreNames' /\ Len(templateKeys') = Len(Names(messageTemplate'))
      /\ Len(Names(messageTemplate')) \in Nat
  <2> DEFINE names == Names(messageTemplate)
  <2>1. names \in Seq(AnyKey) /\ Len(names) \in Nat
    BY <1>2, KeyOfFacts
  <2>2. templateKeys' = names /\ Names(messageTemplate') = names
    BY <1>1
  <2> HIDE DEF names
  <2> QED BY <2>1, <2>2 DEF KeysAreNames
<1>9. Here(t)'
  <2>1. Layered(baseProperties, 0) /\ Loose(baseProperties, 0) /\ Len(templateValues) \in Nat
    BY <1>2, LayerZero, KeyOfFacts
  <2>2. PICK d : d = baseProperties
    OBVIOUS
  <2>3. Layered(d, 0)' /\ Loose(d, 0)'
    BY <1>7, <2>1, <2>2
  <2>4. /\ reader'[t].pc = "values" /\ reader'[t].local = d /\ reader'[t].at = 1
        /\ reader'[t].extra = 0 /\ 1 - 1 = 0 /\ 1 \in 1..(Len(templateValues') + 1)
    BY <1>1, <1>4, <1>6, <2>1, <2>2
  <2>5. Counted(t)'
    BY <1>8, <2>3, <2>4 DEF Counted
  <2> QED BY <1>1, <1>8, <2>3, <2>4, <2>5 DEF Here
<1>10. ASSUME NEW u \in DataThread, u # t PROVE Here(u)'
  BY <1>1, <1>6, <1>8, <1>10, Elsewhere
<1>11. allProperties' # Null =>
         Published' /\ (shifted' \/ Whole') /\ messageTemplate' \notin Invalid /\ KeysAreNames'
  BY <1>1, <1>8, PublishedStays
<1>12. toString' # Null => allProperties' # Null /\ (shifted' \/ ShownOnce')
  BY <1>1, TextStays
<1> QED BY <1>6, <1>9, <1>10, <1>11, <1>12 DEF DataInv

\* The key of the next value: the right one if the values were counted off rightly, and
\* otherwise one of those that depend on it.
LEMMA KeyAtFacts ==
  ASSUME DataInv, NEW t \in DataThread, reader[t].pc = "values", reader[t].at <= Len(templateValues)
  PROVE  LET r == reader[t]
             items == Len(Names(messageTemplate))
             key == KeyAt(r)
             extra == IF r.at <= Len(templateKeys) THEN r.extra ELSE r.extra + 1
         IN  /\ key \in AnyKey
             /\ key = KeyOf(r.at) \/ (Numbered(key) /\ Numbered(KeyOf(r.at)))
             /\ extra \in Nat /\ extra < r.at + 1
             /\ shifted \/ /\ key = KeyOf(r.at)
                           /\ extra = IF r.at > items THEN r.at - items ELSE 0
<1> DEFINE r == reader[t]
           n == r.at
           names == Names(messageTemplate)
           items == Len(names)
           count == Len(templateKeys)
           extra == IF n <= count THEN r.extra ELSE r.extra + 1
           key == KeyAt(r)
<1>1. DataTypeOK /\ r \in Reader /\ messageTemplate = Template
  BY DEF DataInv, DataTypeOK, Active
<1>2. /\ KeysAreNames /\ n \in 1..(Len(templateValues) + 1) /\ r.extra < n
      /\ shifted \/ Counted(t)
  BY DEF DataInv, Here
<1>3. /\ names \in Seq(AnyKey) /\ items \in Nat /\ Len(templateValues) \in Nat
      /\ DOMAIN templateValues = 1..Len(templateValues) /\ KeyOf(n) \in AnyKey
      /\ n \in Nat /\ n \in 1..Len(templateValues) /\ r.extra \in Nat
  BY <1>1, <1>2, KeyOfFacts DEF Reader
<1>4. /\ templateKeys \in Seq(AnyKey) /\ items <= count /\ count \in Nat
      /\ \A m \in 1..count : templateKeys[m] = IF m <= items THEN names[m] ELSE MessageTemplateProperty
  BY <1>2 DEF KeysAreNames
<1>5. KeyOf(n) = IF n <= items THEN names[n] ELSE Extra(n - items)
  BY DEF KeyOf
<1>6. key = IF n <= count THEN templateKeys[n] ELSE Extra(r.extra + 1)
  BY DEF KeyAt
<1>7. shifted \/ /\ r.extra = IF n - 1 > items THEN n - 1 - items ELSE 0
                 /\ Len(templateValues) <= items \/ n - 1 >= Len(templateValues) \/ count = items
  BY <1>1, <1>2 DEF Counted, NoExtras
<1>8. \A i \in 1..Len(templateValues) : Numbered(Extra(i)) /\ Extra(i) \in AnyKey
  BY <1>1, <1>3, DataConstants DEF DataTypeOK, Numbered
<1> HIDE DEF r, n, names, items, count, key
<1>9. CASE n <= items
  <2>1. n <= count /\ n \in 1..count
    BY <1>3, <1>4, <1>9
  <2>2. key = KeyOf(n)
    BY <1>4, <1>5, <1>6, <1>9, <2>1
  <2>3. shifted \/ r.extra = 0
    BY <1>3, <1>7, <1>9
  <2>4. extra = r.extra /\ extra \in Nat /\ extra < n + 1
    BY <1>2, <1>3, <2>1
  <2> QED BY <1>3, <1>9, <2>2, <2>3, <2>4 DEF r, n, items, names, count, key
<1>10. CASE ~(n <= items) /\ n <= count
  <2>1. n \in 1..count /\ n - items \in 1..Len(templateValues)
    BY <1>3, <1>4, <1>10
  <2>2. key = MessageTemplateProperty /\ key \in AnyKey
    BY <1>4, <1>6, <1>10, <2>1, DataConstants
  <2>3. Numbered(KeyOf(n)) /\ Numbered(key)
    BY <1>5, <1>8, <1>10, <2>1, <2>2 DEF Numbered
  <2>4. shifted
    BY <1>3, <1>4, <1>7, <1>10
  <2>5. extra = r.extra /\ extra \in Nat /\ extra < n + 1
    BY <1>2, <1>3, <1>10
  <2> QED BY <2>2, <2>3, <2>4, <2>5 DEF r, n, items, names, count, key
<1>11. CASE ~(n <= items) /\ ~(n <= count)
  <2>1. n - items \in 1..Len(templateValues) /\ r.extra + 1 \in 1..Len(templateValues)
    BY <1>2, <1>3, <1>4, <1>11
  <2>2. key = Extra(r.extra + 1) /\ KeyOf(n) = Extra(n - items)
    BY <1>5, <1>6, <1>11
  <2>3. key \in AnyKey /\ Numbered(KeyOf(n)) /\ Numbered(key)
    BY <1>8, <2>1, <2>2
  <2>4. extra = r.extra + 1 /\ extra \in Nat /\ extra < n + 1
    BY <1>2, <1>3, <1>11
  <2>5. shifted \/ r.extra + 1 = n - items
    BY <1>3, <1>7, <1>11
  <2>6. shifted \/ key = KeyOf(n)
    BY <2>2, <2>5
  <2> QED BY <1>3, <1>11, <2>3, <2>4, <2>5, <2>6 DEF r, n, items, names, count, key
<1> QED BY <1>9, <1>10, <1>11

\* sets one more value,
LEMMA SetValueKeepsInv ==
  ASSUME DataInv, NEW t \in DataThread, SetValue(t) PROVE DataInv'
<1> DEFINE r == reader[t]
           n == r.at
           items == Len(Names(messageTemplate))
           key == KeyAt(r)
           e == Set(r.local, key, templateValues[n])
           extra == IF n <= Len(templateKeys) THEN r.extra ELSE r.extra + 1
           new == [op |-> r.op, pc |-> "values", at |-> n + 1, extra |-> extra, local |-> e]
<1>1. /\ r.pc = "values" /\ n <= Len(templateValues)
      /\ UNCHANGED <<baseProperties, exception, messageTemplate, templateValues, templateKeys,
                     allProperties, toString, shifted>>
  BY DEF SetValue
<1>2. DataTypeOK /\ r \in Reader
  BY DEF DataInv, DataTypeOK
<1>3. reader' = [reader EXCEPT ![t] = new]
  <2>1. reader' = [reader EXCEPT ![t] =
                     [r EXCEPT !.local = Set(@, key, templateValues[n]), !.at = @ + 1,
                               !.extra = IF n <= Len(templateKeys) THEN @ ELSE @ + 1]]
    BY DEF SetValue
  <2>2. r = [op |-> r.op, pc |-> r.pc, at |-> r.at, extra |-> r.extra, local |-> r.local]
    BY <1>2 DEF Reader
  <2> DEFINE first == [r EXCEPT !.local = e]
             second == [first EXCEPT !.at = n + 1]
             third == [second EXCEPT !.extra = extra]
  <2>3. reader' = [reader EXCEPT ![t] = third]
    BY <2>1, Zenon
  <2> HIDE DEF r, key, n, e, extra
  <2>4. first = [op |-> r.op, pc |-> r.pc, at |-> r.at, extra |-> r.extra, local |-> e]
    BY <2>2
  <2> HIDE DEF first
  <2>5. second = [op |-> r.op, pc |-> r.pc, at |-> n + 1, extra |-> r.extra, local |-> e]
    BY <2>4
  <2> HIDE DEF second
  <2>6. third = [op |-> r.op, pc |-> r.pc, at |-> n + 1, extra |-> extra, local |-> e]
    BY <2>5
  <2> HIDE DEF third
  <2>7. third = new
    BY <1>1, <2>6
  <2> QED BY <2>3, <2>7
<1>4. /\ messageTemplate \notin Invalid /\ KeysAreNames /\ n \in 1..(Len(templateValues) + 1)
      /\ Loose(r.local, n - 1) /\ (shifted \/ Counted(t))
  BY <1>1 DEF DataInv, Here
<1>5. /\ key \in AnyKey
      /\ key = KeyOf(n) \/ (Numbered(key) /\ Numbered(KeyOf(n)))
      /\ extra \in Nat /\ extra < n + 1
      /\ shifted \/ (key = KeyOf(n) /\ extra = IF n > items THEN n - items ELSE 0)
  BY <1>1, KeyAtFacts
<1>6. /\ n \in Nat /\ n - 1 \in Nat /\ n - 1 + 1 = n /\ n + 1 - 1 = n
      /\ n + 1 \in 1..(Len(templateValues) + 1) /\ Len(templateValues) \in Nat
  BY <1>1, <1>2, <1>4, KeyOfFacts
<1> HIDE DEF r, n, items, key, extra
<1>7. Loose(e, n) /\ e \in Seq(Pair)
  <2> DEFINE m == n - 1
  <2>1. m \in Nat /\ m + 1 = n /\ m + 1 <= Len(templateValues) /\ Loose(r.local, m)
    BY <1>1, <1>4, <1>6
  <2> HIDE DEF m
  <2>2. key = KeyOf(m + 1) \/ (Numbered(key) /\ Numbered(KeyOf(m + 1)))
    BY <1>5, <2>1
  <2>3. Loose(Set(r.local, key, templateValues[m + 1]), m + 1)
    BY <1>2, <1>5, <2>1, <2>2, LooseStep
  <2> QED BY <2>1, <2>3 DEF Loose
<1>8. ASSUME ~shifted PROVE Layered(e, n)
  <2> DEFINE m == n - 1
  <2>1. m \in Nat /\ m + 1 = n /\ m + 1 <= Len(templateValues) /\ Layered(r.local, m)
    BY <1>1, <1>4, <1>6, <1>8 DEF Counted, r, n
  <2> HIDE DEF m
  <2>2. key = KeyOf(m + 1)
    BY <1>5, <1>8, <2>1
  <2>3. Layered(Set(r.local, KeyOf(m + 1), templateValues[m + 1]), m + 1)
    BY <1>2, <2>1, LayerStep
  <2> QED BY <2>1, <2>2, <2>3
<1> HIDE DEF e
<1>9. /\ new \in Reader /\ new.pc = "values" /\ new.at = n + 1 /\ new.extra = extra
      /\ new.local = e
  BY <1>2, <1>5, <1>6, <1>7 DEF Reader
<1>10. allProperties' \in Seq(Pair) \cup {Null} /\ shifted' \in BOOLEAN
  BY <1>1, <1>2 DEF DataTypeOK
<1> HIDE DEF new
<1>11. /\ DataTypeOK' /\ messageTemplate' = Template'
       /\ reader'[t] = new /\ \A u \in DataThread : u # t => reader'[u] = reader[u]
  <2>1. reader[t].pc # "idle"
    BY <1>1 DEF r
  <2> QED BY <1>1, <1>3, <1>9, <1>10, <2>1, ReadingStep
<1>12. /\ (NoExtras' <=> NoExtras)
       /\ \A d, m : Layered(d, m)' <=> Layered(d, m)
       /\ \A d, m : Loose(d, m)' <=> Loose(d, m)
  BY <1>1, SteadyParts
<1>13. KeysAreNames' <=> KeysAreNames
  BY <1>1 DEF KeysAreNames
<1>14. Here(t)'
  <2>1. PICK d, m, x : d = e /\ m = n /\ x = extra
    OBVIOUS
  <2>2. Loose(d, m)'
    BY <1>7, <1>12, <2>1
  <2>3. /\ reader'[t].pc = "values" /\ reader'[t].local = d /\ reader'[t].at - 1 = m
        /\ reader'[t].extra = x /\ x < reader'[t].at
        /\ reader'[t].at \in 1..(Len(templateValues') + 1)
    BY <1>1, <1>5, <1>6, <1>9, <1>11, <2>1
  <2>4. ASSUME ~shifted' PROVE Counted(t)'
    <3>1. ~shifted /\ Counted(t)
      BY <1>1, <1>4, <2>4
    <3>2. Layered(d, m)'
      BY <1>8, <1>12, <2>1, <3>1
    <3>3. x = IF m > Len(Names(messageTemplate')) THEN m - Len(Names(messageTemplate')) ELSE 0
      BY <1>1, <1>5, <2>1, <3>1 DEF items
    <3>4. NoExtras \/ n - 1 >= Len(templateValues) \/ Len(templateKeys) = Len(Names(messageTemplate))
      BY <3>1 DEF Counted, n, r
    <3>5. NoExtras' \/ m >= Len(templateValues') \/ Len(templateKeys') = Len(Names(messageTemplate'))
      BY <1>1, <1>6, <1>12, <2>1, <3>4
    <3> QED BY <2>3, <3>2, <3>3, <3>5 DEF Counted
  <2> QED BY <1>1, <1>4, <1>13, <2>2, <2>3, <2>4 DEF Here
<1>15. ASSUME NEW u \in DataThread, u # t PROVE Here(u)'
  BY <1>1, <1>11, <1>13, <1>15, Elsewhere
<1>16. allProperties' # Null =>
         Published' /\ (shifted' \/ Whole') /\ messageTemplate' \notin Invalid /\ KeysAreNames'
  BY <1>1, <1>13, PublishedStays
<1>17. toString' # Null => allProperties' # Null /\ (shifted' \/ ShownOnce')
  BY <1>1, TextStays
<1> QED BY <1>11, <1>14, <1>15, <1>16, <1>17 DEF DataInv

\* publishes its dictionary,
LEMMA PublishKeepsInv ==
  ASSUME DataInv, NEW t \in DataThread, Publish(t) PROVE DataInv'
<1> DEFINE r == reader[t]
           f == Finished(r.local)
           new == IF r.op = "ToString" THEN [r EXCEPT !.pc = "text"] ELSE Idle
<1>1. /\ r.pc = "values" /\ r.at > Len(templateValues) /\ allProperties' = f
      /\ reader' = [reader EXCEPT ![t] = new]
      /\ UNCHANGED <<baseProperties, exception, messageTemplate, templateValues, templateKeys,
                     toString, shifted>>
  BY DEF Publish, Finished
<1>2. DataTypeOK /\ r \in Reader
  BY DEF DataInv, DataTypeOK
<1>3. /\ messageTemplate \notin Invalid /\ KeysAreNames
      /\ r.at \in 1..(Len(templateValues) + 1) /\ Loose(r.local, r.at - 1)
      /\ shifted \/ Layered(r.local, r.at - 1)
  BY <1>1 DEF DataInv, Here, Counted
<1>4. r.at - 1 = Len(templateValues)
  BY <1>1, <1>2, <1>3, KeyOfFacts
<1>5. f \in Seq(Pair) /\ KeysOnce(f) /\ Sure(ToSet(f)) = Sure(Expected)
  <2>1. Loose(r.local, Len(templateValues))
    BY <1>3, <1>4
  <2> HIDE DEF r
  <2> QED BY <1>2, <2>1, LooseWhole
<1>6. shifted \/ (ToSet(f) = Expected /\ InOrder(f, Remaining))
  <2>1. shifted \/ Layered(r.local, Len(templateValues))
    BY <1>3, <1>4
  <2> HIDE DEF r
  <2> QED BY <1>2, <2>1, LayersWhole
<1> HIDE DEF f
<1>7. new \in Reader /\ new.pc \in {"text", "idle"} /\ (new.pc = "idle" => new = Idle)
  <2>1. CASE r.op = "ToString"
    <3>1. new = [r EXCEPT !.pc = "text"]
      BY <2>1
    <3> HIDE DEF new, r
    <3> QED BY <1>2, <3>1 DEF Reader
  <2>2. CASE r.op # "ToString"
    <3>1. new = Idle
      BY <2>2
    <3> HIDE DEF new
    <3> QED BY <3>1 DEF Idle, Reader
  <2> QED BY <2>1, <2>2
<1>8. allProperties' \in Seq(Pair) /\ allProperties' # Null /\ shifted' \in BOOLEAN
  BY <1>1, <1>2, <1>5, DataConstants DEF DataTypeOK
<1> HIDE DEF new
<1>9. /\ DataTypeOK' /\ messageTemplate' = Template'
      /\ reader'[t] = new /\ \A u \in DataThread : u # t => reader'[u] = reader[u]
  <2>1. reader[t].pc # "idle"
    BY <1>1
  <2> QED BY <1>1, <1>7, <1>8, <2>1, ReadingStep
<1>10. /\ Expected' = Expected /\ Remaining' = Remaining
       /\ \A c, left : InOrder(c, left)' <=> InOrder(c, left)
       /\ \A S : Sure(S)' = Sure(S)
  BY <1>1, SteadyParts
<1>11. KeysAreNames' <=> KeysAreNames
  BY <1>1 DEF KeysAreNames
<1>12. Here(t)'
  BY <1>7, <1>8, <1>9 DEF Here
<1>13. ASSUME NEW u \in DataThread, u # t PROVE Here(u)'
  BY <1>1, <1>8, <1>9, <1>11, <1>13, Elsewhere
<1>14. Published' /\ (shifted' \/ Whole')
  <2>1. PICK c, left, S : c = f /\ left = Remaining /\ S = Expected
    OBVIOUS
  <2>2. PICK T : T = ToSet(f)
    OBVIOUS
  <2>3. /\ allProperties' = c /\ Remaining' = left /\ Expected' = S /\ ToSet(allProperties') = T
        /\ Sure(T)' = Sure(S)'
    BY <1>1, <1>5, <1>10, <2>1, <2>2
  <2>4. Published'
    BY <1>5, <2>1, <2>3 DEF Published
  <2>5. shifted \/ (T = S /\ InOrder(c, left)')
    BY <1>6, <1>10, <2>1, <2>2
  <2> QED BY <1>1, <2>3, <2>4, <2>5 DEF Whole
<1>15. toString' # Null => allProperties' # Null /\ (shifted' \/ ShownOnce')
  BY <1>1, <1>8, TextStays
<1> QED BY <1>1, <1>3, <1>9, <1>11, <1>12, <1>13, <1>14, <1>15 DEF DataInv

\* and writes the text.
LEMMA WriteTextKeepsInv ==
  ASSUME DataInv, NEW t \in DataThread, WriteText(t) PROVE DataInv'
<1> DEFINE names == Names(messageTemplate)
           keys == Append(templateKeys, MessageTemplateProperty)
           message == [i \in DOMAIN names |-> Shown(allProperties, names[i])]
           rest == {p \in ToSet(allProperties) : p[1] \notin ToSet(keys)}
<1>1. /\ reader[t].pc = "text" /\ templateKeys' = keys
      /\ toString' = [message |-> message, rest |-> rest]
      /\ reader' = [reader EXCEPT ![t] = Idle]
      /\ shifted' = \/ shifted
                     \/ /\ ~NoExtras
                        /\ \E u \in DataThread \ {t} :
                             reader[u].pc = "values" /\ reader[u].at <= Len(templateValues)
      /\ UNCHANGED <<baseProperties, exception, messageTemplate, templateValues, allProperties>>
  BY DEF WriteText
<1>2. DataTypeOK
  BY DEF DataInv
<1>3. Idle \in Reader /\ Idle.pc = "idle"
  BY DEF Idle, Reader
<1>4. /\ allProperties # Null /\ KeysAreNames /\ messageTemplate \notin Invalid
      /\ allProperties' \in Seq(Pair) \cup {Null} /\ shifted' \in BOOLEAN
      /\ Published /\ (shifted \/ Whole)
  BY <1>1 DEF DataInv, Here, Published
<1>5. /\ DataTypeOK' /\ messageTemplate' = Template'
      /\ reader'[t] = Idle /\ \A u \in DataThread : u # t => reader'[u] = reader[u]
  <2>1. reader[t].pc # "idle"
    BY <1>1
  <2> QED BY <1>1, <1>3, <1>4, <2>1, ReadingStep
<1>6. Expected' = Expected
  BY <1>1, SteadyParts
<1>7. names \in Seq(AnyKey) /\ Len(names) \in Nat /\ DOMAIN names = 1..Len(names)
  BY <1>2, KeyOfFacts
<1>8. /\ templateKeys \in Seq(AnyKey) /\ Len(names) <= Len(templateKeys) /\ Len(templateKeys) \in Nat
      /\ \A n \in 1..Len(templateKeys) :
           templateKeys[n] = IF n <= Len(names) THEN names[n] ELSE MessageTemplateProperty
  BY <1>4 DEF KeysAreNames
<1>9. /\ keys \in Seq(AnyKey) /\ Len(keys) = Len(templateKeys) + 1
      /\ keys[Len(templateKeys) + 1] = MessageTemplateProperty
      /\ \A n \in 1..Len(templateKeys) : keys[n] = templateKeys[n]
  BY <1>8, DataConstants, AppendProperties
<1> HIDE DEF names, keys
<1>10. \A n \in 1..Len(keys) : keys[n] = IF n <= Len(names) THEN names[n] ELSE MessageTemplateProperty
  <2>1. ASSUME NEW n \in 1..Len(keys)
        PROVE  keys[n] = IF n <= Len(names) THEN names[n] ELSE MessageTemplateProperty
    <3>1. CASE n = Len(templateKeys) + 1
      BY <1>7, <1>8, <1>9, <3>1
    <3>2. CASE n # Len(templateKeys) + 1
      <4>1. n \in 1..Len(templateKeys)
        BY <1>8, <1>9, <3>2
      <4> QED BY <1>8, <1>9, <4>1
    <3> QED BY <3>1, <3>2
  <2> QED BY <2>1
<1>11. KeysAreNames'
  <2>1. names = Names(messageTemplate') /\ templateKeys' = keys
    BY <1>1 DEF names
  <2>2. Len(names) <= Len(keys) /\ DOMAIN keys = 1..Len(keys)
    BY <1>7, <1>8, <1>9
  <2> QED BY <1>9, <1>10, <2>1, <2>2 DEF KeysAreNames
<1>12. Here(t)'
  BY <1>3, <1>5 DEF Here
<1>13. ASSUME NEW u \in DataThread, u # t PROVE Here(u)'
  <2>1. shifted' \/ NoExtras \/ ~(reader[u].pc = "values" /\ reader[u].at <= Len(templateValues))
    BY <1>1, <1>13
  <2> QED BY <1>1, <1>4, <1>5, <1>11, <1>13, <2>1, Elsewhere
<1>14. allProperties' # Null =>
         Published' /\ (shifted' \/ Whole') /\ messageTemplate' \notin Invalid /\ KeysAreNames'
  BY <1>1, <1>11, PublishedStays
<1>15. ASSUME ~shifted' PROVE ShownOnce'
  <2>0. ToSet(allProperties) = Expected /\ allProperties \in Seq(Pair)
    BY <1>1, <1>4, <1>15 DEF Whole, Published
  <2>1. ASSUME NEW i \in DOMAIN names
        PROVE  IF \E p \in Expected : p[1] = names[i]
               THEN <<names[i], message[i]>> \in Expected
               ELSE message[i] = "{" \o names[i] \o "}"
    <3> DEFINE name == names[i]
               k == IndexOf(allProperties, name)
    <3>1. message[i] = Shown(allProperties, name)
      OBVIOUS
    <3>2. Expected = {allProperties[n] : n \in 1..Len(allProperties)}
      BY <2>0, ToSetIsRange
    <3>3. (\E p \in Expected : p[1] = name) <=> Has(allProperties, name)
      BY <2>0, <3>2 DEF Has
    <3>4. CASE Has(allProperties, name)
      <4>1. k \in 1..Len(allProperties) /\ allProperties[k][1] = name
        BY <2>0, <3>4 DEF Has, IndexOf
      <4>2. message[i] = allProperties[k][2]
        BY <3>1, <3>4 DEF Shown, Get
      <4> HIDE DEF k
      <4>3. allProperties[k] \in Expected /\ allProperties[k] \in Pair
        BY <2>0, <3>2, <4>1
      <4>4. allProperties[k] = <<name, message[i]>>
        BY <4>1, <4>2, <4>3, PairFacts
      <4> QED BY <3>3, <3>4, <4>3, <4>4
    <3>5. CASE ~Has(allProperties, name)
      BY <3>1, <3>3, <3>5 DEF Shown
    <3> QED BY <3>4, <3>5
  <2>2. rest = {p \in Expected : p[1] # MessageTemplateProperty /\ p[1] \notin ToSet(names)}
    <3>1. ToSet(keys) = {keys[n] : n \in 1..Len(keys)} /\ ToSet(names) = {names[n] : n \in 1..Len(names)}
      BY <1>7, <1>9, ToSetIsRange
    <3>2. MessageTemplateProperty \in ToSet(keys)
      BY <1>8, <1>9, <3>1
    <3>3. ASSUME NEW n \in 1..Len(names) PROVE names[n] \in ToSet(keys)
      <4>1. n \in 1..Len(keys)
        BY <1>7, <1>8, <1>9
      <4> QED BY <1>10, <3>1, <4>1
    <3>4. ASSUME NEW n \in 1..Len(keys) PROVE keys[n] \in ToSet(names) \/ keys[n] = MessageTemplateProperty
      <4>1. CASE n <= Len(names)
        <5>1. n \in 1..Len(names)
          BY <1>7, <4>1
        <5> QED BY <1>10, <3>1, <4>1, <5>1
      <4>2. CASE ~(n <= Len(names))
        BY <1>10, <4>2
      <4> QED BY <4>1, <4>2
    <3>5. ToSet(keys) = ToSet(names) \cup {MessageTemplateProperty}
      BY <3>1, <3>2, <3>3, <3>4
    <3> QED BY <2>0, <3>5
  <2> HIDE DEF message, rest
  <2>3. names = Names(messageTemplate')
    BY <1>1 DEF names
  <2>4. toString'.message = message /\ toString'.rest = rest /\ DOMAIN message = DOMAIN names
    BY <1>1 DEF message
  <2> QED BY <1>6, <2>1, <2>2, <2>3, <2>4 DEF ShownOnce
<1>16. allProperties' # Null
  BY <1>1, <1>4
<1> QED BY <1>5, <1>12, <1>13, <1>14, <1>15, <1>16 DEF DataInv

\* What is kept of the object while any number of threads read it, first or not.
THEOREM DataInvariant == DataSpec => []DataInv
<1>1. DataInit => DataInv
  BY DataInvInit
<1>2. DataInv /\ [DataNext]_dataVars => DataInv'
  <2> SUFFICES ASSUME DataInv, [DataNext]_dataVars PROVE DataInv'
    OBVIOUS
  <2>1. ASSUME NEW key \in Key, Add(key, "added") PROVE DataInv'
    BY <2>1, AddKeepsInv
  <2>2. ASSUME NEW t \in DataThread, NEW op \in {"ToString", "Properties"}, Begin(t, op) PROVE DataInv'
    BY <2>2, BeginKeepsInv
  <2>3. ASSUME NEW t \in DataThread, KeysThrow(t) PROVE DataInv'
    BY <2>3, KeysThrowKeepsInv
  <2>4. ASSUME NEW t \in DataThread, GetKeys(t) PROVE DataInv'
    BY <2>4, GetKeysKeepsInv
  <2>5. ASSUME NEW t \in DataThread, SetValue(t) PROVE DataInv'
    BY <2>5, SetValueKeepsInv
  <2>6. ASSUME NEW t \in DataThread, Publish(t) PROVE DataInv'
    BY <2>6, PublishKeepsInv
  <2>7. ASSUME NEW t \in DataThread, WriteText(t) PROVE DataInv'
    BY <2>7, WriteTextKeepsInv
  <2>8. CASE UNCHANGED dataVars
    <3>1. /\ UNCHANGED <<baseProperties, exception, messageTemplate, templateValues, templateKeys,
                         allProperties, toString, reader, shifted>>
      BY <2>8 DEF dataVars
    <3>2. Template' = Template
      BY <3>1, SteadyParts
    <3>3. /\ (KeysAreNames' <=> KeysAreNames) /\ (DataTypeOK' <=> DataTypeOK) /\ (Active' <=> Active)
      BY <3>1 DEF KeysAreNames, DataTypeOK, Active
    <3>4. ASSUME NEW u \in DataThread PROVE Here(u)'
      BY <3>1, <3>3, Elsewhere
    <3>5. allProperties' # Null =>
            Published' /\ (shifted' \/ Whole') /\ messageTemplate' \notin Invalid /\ KeysAreNames'
      BY <3>1, <3>3, PublishedStays
    <3>6. toString' # Null => allProperties' # Null /\ (shifted' \/ ShownOnce')
      BY <3>1, TextStays
    <3> QED BY <3>1, <3>2, <3>3, <3>4, <3>5, <3>6 DEF DataInv
  <2> QED BY <2>1, <2>2, <2>3, <2>4, <2>5, <2>6, <2>7, <2>8 DEF DataNext
<1> QED BY <1>1, <1>2, PTL DEF DataSpec

\* However many threads read first.
THEOREM ReadsByPrecedence == DataSpec => []PropertiesByPrecedence
<1>1. DataInv => PropertiesByPrecedence
  <2> SUFFICES ASSUME DataInv PROVE PropertiesByPrecedence
    OBVIOUS
  <2>1. ASSUME allProperties # Null PROVE /\ KeysOnce(allProperties)
                                          /\ Sure(ToSet(allProperties)) = Sure(Expected)
    BY <2>1 DEF DataInv, Published
  <2>2. ASSUME allProperties # Null, ~shifted PROVE AllExpected
    <3>1. /\ allProperties \in Seq(Pair) /\ ToSet(allProperties) = Expected
          /\ InOrder(allProperties, Remaining)
      BY <2>2 DEF DataInv, Published, Whole
    <3>2. Expected \subseteq Pair
      BY <3>1, ToSetIsRange
    <3> QED BY <3>1, <3>2 DEF InOrder, AllExpected
  <2>3. toString # Null => shifted \/ ShownOnce
    BY DEF DataInv
  <2> QED BY <2>1, <2>2, <2>3 DEF PropertiesByPrecedence
<1> QED BY <1>1, DataInvariant, PTL

================================================================================
