---------------------------- MODULE MacroProofs ----------------------------
(***************************************************************************)
(* Proofs about MacroCommand, for all texts and all limits that its        *)
(* assumptions allow: every invariant that the run MacroCommand checks.    *)
(*                                                                         *)
(* Three things need an induction over data: that a set of positions has a *)
(* first and a last one, that the function Reading is what its recursion   *)
(* says, and that the runs of two texts agree where the texts do.  The     *)
(* induction is the lemma UpTo, on the set of the numbers that have the    *)
(* property, and rests on the well-foundedness of strict inclusion among   *)
(* finite sets (FiniteSetTheorems, WellFoundedInduction).                  *)
(***************************************************************************)
EXTENDS MacroCommand, WellFoundedInduction, FiniteSetTheorems, TLAPS

---------------------------------------------------------------------------
(***************************************************************************)
(* Induction on numbers                                                    *)
(***************************************************************************)

\* A set of naturals has a smallest element.
LEMMA SmallestElement ==
  ASSUME NEW T, T \subseteq Nat, T # {}
  PROVE  \E x \in T : \A y \in T : x <= y
<1> DEFINE Down == {0 .. x : x \in T}
           Smaller == StrictSubsetOrdering(Nat)
<1>1. \A x \in Nat : 0 .. x \in FiniteSubsetsOf(Nat)
  BY FS_Interval DEF FiniteSubsetsOf
<1>2. Down \subseteq FiniteSubsetsOf(Nat) /\ Down # {}
  BY <1>1
<1>3. IsWellFoundedOn(Smaller, FiniteSubsetsOf(Nat))
  BY FS_StrictSubsetOrderingWellFounded
<1> HIDE DEF Smaller, Down
<1>4. PICK X \in Down : \A Y \in Down : ~ (<<Y, X>> \in Smaller)
  BY <1>2, <1>3, WFMin
<1>5. PICK x \in T : X = 0 .. x
  BY DEF Down
<1>6. ASSUME NEW y \in T PROVE x <= y
  <2> SUFFICES ASSUME y < x PROVE FALSE
    OBVIOUS
  <2>1. 0 .. y \subseteq 0 .. x /\ x \in 0 .. x /\ x \notin 0 .. y
    OBVIOUS
  <2>2. 0 .. y \in Down
    BY DEF Down
  <2>3. <<0 .. y, X>> \in Smaller
    BY <1>5, <2>1 DEF Smaller, StrictSubsetOrdering
  <2> QED
    BY <1>4, <2>2, <2>3
<1> QED
  BY <1>6

\* A bounded set of naturals has a largest element.
LEMMA LargestElement ==
  ASSUME NEW n \in Nat, NEW T, T \subseteq 0 .. n, T # {}
  PROVE  \E x \in T : \A y \in T : y <= x
<1> DEFINE U == {n - x : x \in T}
<1>1. U \subseteq Nat /\ U # {}
  <2>1. \A x \in T : n - x \in Nat
    OBVIOUS
  <2> QED
    BY <2>1, Zenon
<1>2. PICK u \in U : \A v \in U : u <= v
  BY <1>1, SmallestElement
<1>3. PICK x \in T : u = n - x
  OBVIOUS
<1>4. \A y \in T : n - y \in U
  OBVIOUS
<1>5. ASSUME NEW y \in T PROVE y <= x
  <2>1. x \in Int /\ y \in Int
    OBVIOUS
  <2>2. n - x <= n - y
    BY <1>2, <1>3, <1>4
  <2> QED
    BY <2>1, <2>2
<1> QED
  BY <1>5

\* An induction over the numbers up to n, of a property given by the set of those that have it.
LEMMA UpTo ==
  ASSUME NEW n \in Nat, NEW Good, 0 \in Good,
         \A m \in 0 .. n : m + 1 \in 0 .. n /\ m \in Good => m + 1 \in Good
  PROVE  0 .. n \subseteq Good
<1> SUFFICES ASSUME (0 .. n) \ Good # {} PROVE FALSE
  OBVIOUS
<1> DEFINE Bad == (0 .. n) \ Good
<1>0. Bad \subseteq Nat /\ Bad # {}
  OBVIOUS
<1> HIDE DEF Bad
<1>1. PICK m \in Bad : \A k \in Bad : m <= k
  BY <1>0, SmallestElement
<1> USE DEF Bad
<1>2. m # 0 /\ m - 1 \in 0 .. n /\ m - 1 \notin (0 .. n) \ Good
  BY <1>1
<1> QED
  BY <1>1, <1>2

---------------------------------------------------------------------------
(***************************************************************************)
(* The keyboard's reading of a string                                      *)
(***************************************************************************)

Start == [open |-> TRUE, literal |-> FALSE, text |-> <<>>]

\* A run of the reader over the first n characters of a text.
IsReading(read, text, n) ==
  read = [m \in 0 .. n |-> IF m = 0 THEN Start ELSE ReadChar(read[m - 1], text[m])]

\* There is a run of the reader over any number of characters.
LEMMA ReadingExists ==
  ASSUME NEW text, NEW n \in Nat
  PROVE  \E read : IsReading(read, text, n)
<1> DEFINE Good == {m \in 0 .. n : \E read : IsReading(read, text, m)}
<1>1. 0 \in Good
  <2>1. IsReading([m \in 0 .. 0 |-> Start], text, 0)
    BY DEF IsReading
  <2> QED
    BY <2>1
<1>2. ASSUME NEW m \in 0 .. n, m + 1 \in 0 .. n, m \in Good
      PROVE  m + 1 \in Good
  <2>1. PICK read : IsReading(read, text, m)
    BY <1>2
  <2> DEFINE next == [k \in 0 .. m + 1 |->
                        IF k = m + 1 THEN ReadChar(read[m], text[m + 1]) ELSE read[k]]
  <2>2. \A k \in 0 .. m + 1 :
           next[k] = IF k = 0 THEN Start ELSE ReadChar(next[k - 1], text[k])
    <3> SUFFICES ASSUME NEW k \in 0 .. m + 1
                 PROVE  next[k] = IF k = 0 THEN Start ELSE ReadChar(next[k - 1], text[k])
      OBVIOUS
    <3>1. CASE k = 0
      <4>1. next[k] = read[k] /\ read[k] = Start
        BY <2>1, <3>1 DEF IsReading
      <4> QED
        BY <3>1, <4>1
    <3>2. CASE k # 0
      <4>1. next[k - 1] = read[k - 1]
        BY <3>2
      <4>2. CASE k = m + 1
        BY <3>2, <4>1, <4>2
      <4>3. CASE k # m + 1
        <5>1. next[k] = read[k] /\ read[k] = ReadChar(read[k - 1], text[k])
          BY <2>1, <3>2, <4>3 DEF IsReading
        <5> QED
          BY <3>2, <4>1, <5>1
      <4> QED
        BY <4>2, <4>3
    <3> QED
      BY <3>1, <3>2
  <2>3. next = [k \in 0 .. m + 1 |-> next[k]]
    OBVIOUS
  <2>4. next = [k \in 0 .. m + 1 |-> IF k = 0 THEN Start ELSE ReadChar(next[k - 1], text[k])]
    BY <2>2, <2>3, Zenon
  <2>5. IsReading(next, text, m + 1)
    BY <2>4 DEF IsReading
  <2> QED
    BY <1>2, <2>5, Zenon
<1>3. 0 .. n \subseteq Good
  BY <1>1, <1>2, UpTo
<1> QED
  BY <1>3

\* Two runs over texts that begin alike agree.
LEMMA ReadingsAgree ==
  ASSUME NEW s, NEW t, NEW f, NEW g, NEW n \in Nat, NEW m \in Nat, n <= m,
         IsReading(f, s, n), IsReading(g, t, m),
         \A i \in 1 .. n : s[i] = t[i]
  PROVE  \A k \in 0 .. n : f[k] = g[k]
<1> DEFINE Good == {k \in 0 .. n : f[k] = g[k]}
<1>1. 0 \in Good
  BY DEF IsReading
<1>2. ASSUME NEW k \in 0 .. n, k + 1 \in 0 .. n, k \in Good
      PROVE  k + 1 \in Good
  <2>1. f[k + 1] = ReadChar(f[k], s[k + 1])
    BY <1>2 DEF IsReading
  <2>2. g[k + 1] = ReadChar(g[k], t[k + 1])
    BY <1>2 DEF IsReading
  <2> QED
    BY <1>2, <2>1, <2>2
<1>3. 0 .. n \subseteq Good
  BY <1>1, <1>2, UpTo
<1> QED
  BY <1>3

\* What Reading computes is the run of the reader over the whole text.
LEMMA ReadingIsOne ==
  ASSUME NEW S, NEW text \in Seq(S)
  PROVE  IsReading(Reading(text), text, Len(text))
<1>1. \E read : IsReading(read, text, Len(text))
  BY ReadingExists
<1> QED
  BY <1>1, Zenon DEF Reading, IsReading, Start

\* The keyboard reads a string that grows by one character as it goes.
LEMMA ReadMore ==
  ASSUME NEW S, NEW text \in Seq(S), NEW ch \in S
  PROVE  ReadString(text \o <<ch>>) = ReadChar(ReadString(text), ch)
<1> DEFINE n == Len(text)
           more == text \o <<ch>>
<1>1. more \in Seq(S) /\ Len(more) = n + 1 /\ more[n + 1] = ch /\ n \in Nat
  OBVIOUS
<1>2. \A i \in 1 .. n : text[i] = more[i]
  OBVIOUS
<1>3. IsReading(Reading(text), text, n) /\ IsReading(Reading(more), more, n + 1)
  BY <1>1, ReadingIsOne
<1> HIDE DEF more
<1>4. Reading(text)[n] = Reading(more)[n]
  BY <1>1, <1>2, <1>3, ReadingsAgree
<1>5. Reading(more)[n + 1] = ReadChar(Reading(more)[n], more[n + 1])
  BY <1>1, <1>3 DEF IsReading
<1> QED
  BY <1>1, <1>4, <1>5 DEF ReadString, more

\* Nothing reads as nothing.
LEMMA ReadNothing == ReadString(<<>>) = Start
<1>1. IsReading(Reading(<<>>), <<>>, Len(<<>>))
  <2>1. <<>> \in Seq({})
    OBVIOUS
  <2> QED
    BY <2>1, ReadingIsOne
<1> QED
  BY <1>1 DEF IsReading, ReadString

---------------------------------------------------------------------------
(***************************************************************************)
(* Tokens and the display text                                             *)
(***************************************************************************)

\* A display text consists of these.
Shown == Char \ (Separator \cup {"wide"})

\* A piece of a text holds what stands in that piece, and is as long.
LEMMA Piece ==
  ASSUME NEW C, NEW S, NEW text \in Seq(C), NEW a \in Nat \ {0}, NEW b \in 0 .. Len(text),
         \A i \in a .. b : text[i] \in S
  PROVE  /\ SubSeq(text, a, b) \in Seq(S)
         /\ Len(SubSeq(text, a, b)) = IF a <= b THEN b - a + 1 ELSE 0
<1> DEFINE n == IF a <= b THEN b - a + 1 ELSE 0
           piece == [i \in 1 .. n |-> text[i + a - 1]]
<1>1. SubSeq(text, a, b) = piece
  OBVIOUS
<1>2. n \in Nat /\ \A i \in 1 .. n : text[i + a - 1] \in S
  OBVIOUS
<1>3. piece \in Seq(S) /\ Len(piece) = n
  BY <1>2
<1> QED
  BY <1>1, <1>3

\* The last piece of a path holds no separator.
LEMMA LastPieceType ==
  ASSUME NEW text \in Seq(Char)
  PROVE  LastPiece(text) \in Seq(Char \ Separator)
<1> DEFINE cuts == {0} \cup {i \in DOMAIN text : text[i] \in Separator}
           last == CHOOSE i \in cuts : \A j \in cuts : j <= i
<1>1. cuts \subseteq 0 .. Len(text) /\ cuts # {} /\ Len(text) \in Nat
  OBVIOUS
<1>2. LastPiece(text) = SubSeq(text, last + 1, Len(text))
  BY DEF LastPiece
<1> HIDE DEF cuts
<1>3. \E i \in cuts : \A j \in cuts : j <= i
  BY <1>1, LargestElement
<1>4. last \in cuts /\ \A j \in cuts : j <= last
  BY <1>3
<1> HIDE DEF last
<1>5. ASSUME NEW i \in last + 1 .. Len(text)
      PROVE  text[i] \in Char \ Separator
  <2>1. last \in 0 .. Len(text)
    BY <1>1, <1>4
  <2>2. i \in DOMAIN text /\ text[i] \in Char /\ ~ (i <= last)
    BY <2>1
  <2>3. i \notin cuts
    BY <1>4, <2>2
  <2> QED
    BY <2>2, <2>3 DEF cuts
<1>6. last + 1 \in Nat \ {0} /\ Len(text) \in 0 .. Len(text)
  BY <1>1, <1>4
<1> QED
  BY <1>2, <1>5, <1>6, Piece

\* Trimming adds no character.
LEMMA TrimType ==
  ASSUME NEW S, NEW text \in Seq(S)
  PROVE  Trim(text) \in Seq(S)
<1> DEFINE inked == {i \in DOMAIN text : text[i] # "space"}
           first == CHOOSE i \in inked : \A j \in inked : i <= j
           last  == CHOOSE i \in inked : \A j \in inked : j <= i
<1>1. inked \subseteq 0 .. Len(text) /\ inked \subseteq Nat \ {0} /\ Len(text) \in Nat
  OBVIOUS
<1>2. Trim(text) = IF inked = {} THEN <<>> ELSE SubSeq(text, first, last)
  BY DEF Trim
<1>3. \A i \in DOMAIN text : text[i] \in S
  OBVIOUS
<1> HIDE DEF inked
<1>4. CASE inked = {}
  BY <1>2, <1>4
<1>5. CASE inked # {}
  <2>1. \E i \in inked : \A j \in inked : i <= j
    BY <1>1, <1>5, SmallestElement
  <2>2. \E i \in inked : \A j \in inked : j <= i
    BY <1>1, <1>5, LargestElement
  <2>3. first \in inked /\ last \in inked
    BY <2>1, <2>2
  <2> HIDE DEF first, last
  <2>4. first \in Nat \ {0} /\ last \in 0 .. Len(text)
    BY <1>1, <2>3
  <2>5. \A i \in first .. last : text[i] \in S
    BY <1>3, <2>4
  <2>6. SubSeq(text, first, last) \in Seq(S)
    BY <2>4, <2>5, Piece
  <2> QED
    BY <1>2, <1>5, <2>6
<1> QED
  BY <1>4, <1>5

\* A token is cut to its limit, the mark included.
LEMMA TruncateType ==
  ASSUME NEW S, "tilde" \in S, NEW text \in Seq(S), NEW max \in Nat \ {0}
  PROVE  TruncateChars(text, max) \in Seq(S) /\ Len(TruncateChars(text, max)) <= max
<1>1. CASE Len(text) <= max
  BY <1>1 DEF TruncateChars
<1>2. CASE ~ (Len(text) <= max)
  <2> DEFINE cut == SubSeq(text, 1, max - 1)
  <2>1. max - 1 \in 0 .. Len(text) /\ \A i \in 1 .. max - 1 : text[i] \in S
    BY <1>2
  <2>2. cut \in Seq(S) /\ Len(cut) = max - 1
    BY <2>1, Piece
  <2>3. TruncateChars(text, max) = Append(cut, "tilde")
    BY <1>2 DEF TruncateChars
  <2> HIDE DEF cut
  <2> QED
    BY <2>2, <2>3
<1> QED
  BY <1>1, <1>2

\* A token holds no separator and has at most max characters.
LEMMA TokenType ==
  ASSUME NEW text \in Seq(Char), NEW max \in Nat \ {0}
  PROVE  /\ ShortToken(text, max) \in Seq(Char \ Separator)
         /\ Len(ShortToken(text, max)) <= max
<1>1. Trim(LastPiece(text)) \in Seq(Char \ Separator)
  BY LastPieceType, TrimType
<1>2. "tilde" \in Char \ Separator
  BY DEF Char, Separator
<1> QED
  BY <1>1, <1>2, TruncateType DEF ShortToken

\* The limits of the tokens are not zero.
LEMMA LimitTypes ==
  /\ HostChars \in Nat \ {0} /\ AgentChars \in Nat \ {0} /\ DetailChars \in Nat \ {0}
BY MacroAssumption

\* A label is of letters; that of waiting_input is the longest, with five.
LEMMA LabelType ==
  ASSUME NEW state
  PROVE  /\ Label(state) \in Seq({"letter"})
         /\ Len(Label(state)) \in Nat /\ Len(Label(state)) <= 5
         /\ state # "waiting_input" => Len(Label(state)) <= 4
<1>1. \A n \in Nat : Letters(n) \in Seq({"letter"}) /\ Len(Letters(n)) = n
  BY DEF Letters
<1>2. PICK n \in 3 .. 5 : Label(state) = Letters(n) /\ (state # "waiting_input" => n <= 4)
  <2>1. CASE state = "running"
    <3>1. Label(state) = Letters(3)
      BY <2>1 DEF Label
    <3> QED
      BY <3>1
  <2>2. CASE state = "waiting_input"
    <3>1. Label(state) = Letters(5)
      BY <2>2 DEF Label
    <3> QED
      BY <2>2, <3>1
  <2>3. CASE state # "running" /\ state # "waiting_input"
    <3>1. Label(state) = Letters(4)
      BY <2>3 DEF Label
    <3> QED
      BY <3>1
  <2> QED
    BY <2>1, <2>2, <2>3
<1>3. n \in Nat /\ n <= 5
  OBVIOUS
<1>4. Label(state) \in Seq({"letter"}) /\ Len(Label(state)) = n
  BY <1>1, <1>2, <1>3
<1> QED
  BY <1>2, <1>3, <1>4

\* The length of a concatenation, and what stands where in it.
LEMMA Concatenated ==
  ASSUME NEW S, NEW q \in Seq(S), NEW r \in Seq(S)
  PROVE  /\ q \o r \in Seq(S) /\ Len(q \o r) = Len(q) + Len(r)
         /\ \A i \in 1 .. Len(q \o r) :
              (q \o r)[i] = IF i <= Len(q) THEN q[i] ELSE r[i - Len(q)]
OBVIOUS

\* A space behind a text.
LEMMA SpaceBehind ==
  ASSUME NEW S, NEW q \in Seq(S), "space" \in S
  PROVE  LET r == q \o <<"space">>
         IN  /\ r \in Seq(S) /\ Len(r) = Len(q) + 1
             /\ \A i \in 1 .. Len(r) : r[i] = IF i <= Len(q) THEN q[i] ELSE "space"
OBVIOUS

\* Two tokens and a label, with a space between them, and what stands where.
LEMMA HeadingIs ==
  ASSUME NEW S, NEW h \in Seq(S), NEW a \in Seq(S), NEW l \in Seq(S), "space" \in S
  PROVE  LET text == h \o <<"space">> \o a \o <<"space">> \o l
         IN  /\ text \in Seq(S)
             /\ Len(text) = Len(h) + Len(a) + Len(l) + 2
             /\ \A i \in 1 .. Len(text) :
                  text[i] = IF i <= Len(h) THEN h[i]
                            ELSE IF i = Len(h) + 1 THEN "space"
                            ELSE IF i <= Len(h) + 1 + Len(a) THEN a[i - Len(h) - 1]
                            ELSE IF i = Len(h) + Len(a) + 2 THEN "space"
                            ELSE l[i - Len(h) - Len(a) - 2]
<1> DEFINE t1 == h \o <<"space">>
           t2 == t1 \o a
           t3 == t2 \o <<"space">>
           t4 == t3 \o l
<1>1. /\ t1 \in Seq(S) /\ Len(t1) = Len(h) + 1
      /\ \A i \in 1 .. Len(t1) : t1[i] = IF i <= Len(h) THEN h[i] ELSE "space"
  BY SpaceBehind, Zenon
<1> HIDE DEF t1
<1>2. /\ t2 \in Seq(S) /\ Len(t2) = Len(t1) + Len(a)
      /\ \A i \in 1 .. Len(t2) : t2[i] = IF i <= Len(t1) THEN t1[i] ELSE a[i - Len(t1)]
  BY <1>1, Concatenated, Zenon
<1> HIDE DEF t2
<1>3. /\ t3 \in Seq(S) /\ Len(t3) = Len(t2) + 1
      /\ \A i \in 1 .. Len(t3) : t3[i] = IF i <= Len(t2) THEN t2[i] ELSE "space"
  BY <1>2, SpaceBehind, Zenon
<1> HIDE DEF t3
<1>4. /\ t4 \in Seq(S) /\ Len(t4) = Len(t3) + Len(l)
      /\ \A i \in 1 .. Len(t4) : t4[i] = IF i <= Len(t3) THEN t3[i] ELSE l[i - Len(t3)]
  BY <1>3, Concatenated, Zenon
<1>5. t4 = h \o <<"space">> \o a \o <<"space">> \o l
  BY DEF t3, t2, t1
<1> HIDE DEF t4
<1>6. Len(t4) = Len(h) + Len(a) + Len(l) + 2
  BY <1>1, <1>2, <1>3, <1>4
<1>7. ASSUME NEW i \in 1 .. Len(t4)
      PROVE  t4[i] = IF i <= Len(h) THEN h[i]
                     ELSE IF i = Len(h) + 1 THEN "space"
                     ELSE IF i <= Len(h) + 1 + Len(a) THEN a[i - Len(h) - 1]
                     ELSE IF i = Len(h) + Len(a) + 2 THEN "space"
                     ELSE l[i - Len(h) - Len(a) - 2]
  <2>1. Len(h) \in Nat /\ Len(a) \in Nat /\ Len(l) \in Nat
    OBVIOUS
  <2>2. CASE i <= Len(t1)
    BY <1>1, <1>2, <1>3, <1>4, <2>1, <2>2
  <2>3. CASE i > Len(t1) /\ i <= Len(t2)
    BY <1>1, <1>2, <1>3, <1>4, <2>1, <2>3
  <2>4. CASE i > Len(t2) /\ i <= Len(t3)
    BY <1>1, <1>2, <1>3, <1>4, <2>1, <2>4
  <2>5. CASE i > Len(t3)
    BY <1>1, <1>2, <1>3, <1>4, <2>1, <2>5
  <2> QED
    BY <1>1, <1>2, <1>3, <2>1, <2>2, <2>3, <2>4, <2>5
<1> QED
  BY <1>4, <1>5, <1>6, <1>7

Plain == Char \ Separator

\* The characters that the code itself puts into a text.
LEMMA CharFacts ==
  /\ "space" \in Plain /\ {"letter"} \subseteq Plain /\ "question" \in Shown
  /\ Plain \ {"wide"} = Shown
BY DEF Plain, Shown, Char, Separator

\* The texts of an event are texts.
LEMMA EventTypes ==
  ASSUME NEW e \in AgentEvent
  PROVE  /\ e.host \in Seq(Char) /\ e.agent \in Seq(Char)
         /\ e.repo # None => e.repo \in Seq(Char)
         /\ e.summary # None => e.summary \in Seq(Char)
<1>1. Texts \subseteq Seq(Char) /\ <<>> \in Seq(Char)
  BY MacroAssumption
<1> QED
  BY <1>1 DEF AgentEvent

\* How many numbers an interval has; it may be empty.
LEMMA IntervalSize ==
  ASSUME NEW a \in Nat, NEW b \in Nat, a <= b + 1
  PROVE  IsFiniteSet(a .. b) /\ Cardinality(a .. b) = b - a + 1
<1>1. a \in Int /\ b \in Int
  OBVIOUS
<1>2. IsFiniteSet(a .. b) /\ Cardinality(a .. b) = IF a > b THEN 0 ELSE b - a + 1
  BY <1>1, FS_Interval, Zenon
<1> QED
  BY <1>2

\* The tokens and the label of a heading, and where it can hold a quote.
LEMMA HeadingType ==
  ASSUME NEW e \in AgentEvent
  PROVE  /\ Heading(e) \in Seq(Plain)
         /\ Len(Heading(e)) <= HostChars + AgentChars + 2 + Len(Label(e.state))
         /\ Quotes(Heading(e)) \in Nat
         /\ Quotes(Heading(e)) <= HostChars + AgentChars
<1> DEFINE h == ShortToken(e.host, HostChars)
           a == ShortToken(e.agent, AgentChars)
           l == Label(e.state)
           t == Heading(e)
           quotes == {i \in DOMAIN t : t[i] = "quote"}
<1>1. /\ h \in Seq(Plain) /\ Len(h) <= HostChars
      /\ a \in Seq(Plain) /\ Len(a) <= AgentChars
  BY EventTypes, TokenType, LimitTypes DEF Plain
<1>2. l \in Seq({"letter"}) /\ l \in Seq(Plain)
  <2>1. l \in Seq({"letter"})
    BY LabelType
  <2> HIDE DEF l
  <2> QED
    BY <2>1, CharFacts
<1>3. t = h \o <<"space">> \o a \o <<"space">> \o l
  BY DEF Heading
<1> HIDE DEF h, a, l, t
<1>4. /\ t \in Seq(Plain)
      /\ Len(t) = Len(h) + Len(a) + Len(l) + 2
      /\ \A i \in 1 .. Len(t) :
           t[i] = IF i <= Len(h) THEN h[i]
                  ELSE IF i = Len(h) + 1 THEN "space"
                  ELSE IF i <= Len(h) + 1 + Len(a) THEN a[i - Len(h) - 1]
                  ELSE IF i = Len(h) + Len(a) + 2 THEN "space"
                  ELSE l[i - Len(h) - Len(a) - 2]
  BY <1>1, <1>2, <1>3, CharFacts, HeadingIs
<1>5. Len(h) \in Nat /\ Len(a) \in Nat /\ Len(l) \in Nat /\ Len(t) \in Nat
  BY <1>1, <1>2, <1>4
<1>6. quotes \subseteq (1 .. Len(h)) \cup (Len(h) + 2 .. Len(h) + 1 + Len(a))
  <2> SUFFICES ASSUME NEW i \in 1 .. Len(t), t[i] = "quote"
               PROVE  i \in (1 .. Len(h)) \cup (Len(h) + 2 .. Len(h) + 1 + Len(a))
    BY <1>4
  <2>1. CASE i > Len(h) + Len(a) + 2
    <3>1. i - Len(h) - Len(a) - 2 \in 1 .. Len(l)
      BY <1>4, <1>5, <2>1
    <3>2. l[i - Len(h) - Len(a) - 2] = "letter"
      BY <1>2, <3>1
    <3>3. t[i] = l[i - Len(h) - Len(a) - 2]
      BY <1>4, <1>5, <2>1
    <3> QED
      BY <3>2, <3>3
  <2>2. CASE ~ (i > Len(h) + Len(a) + 2)
    <3>1. i # Len(h) + 1 /\ i # Len(h) + Len(a) + 2
      BY <1>4, <1>5
    <3> QED
      BY <1>5, <2>2, <3>1
  <2> QED
    BY <2>1, <2>2
<1>7. /\ IsFiniteSet(quotes)
      /\ Cardinality(quotes) \in Nat
      /\ Cardinality(quotes) <= Len(h) + Len(a)
  <2> DEFINE I == 1 .. Len(h)
             J == Len(h) + 2 .. Len(h) + 1 + Len(a)
  <2>1. IsFiniteSet(I) /\ Cardinality(I) = Len(h)
    <3>1. 1 \in Nat /\ 1 <= Len(h) + 1 /\ Len(h) - 1 + 1 = Len(h)
      BY <1>5
    <3> QED
      BY <1>5, <3>1, IntervalSize
  <2>2. IsFiniteSet(J) /\ Cardinality(J) = Len(a)
    <3> DEFINE lo == Len(h) + 2
               hi == Len(h) + 1 + Len(a)
    <3>1. lo \in Nat /\ hi \in Nat /\ lo <= hi + 1 /\ hi - lo + 1 = Len(a)
      BY <1>5
    <3> HIDE DEF lo, hi
    <3>2. IsFiniteSet(lo .. hi) /\ Cardinality(lo .. hi) = Len(a)
      BY <3>1, IntervalSize
    <3> QED
      BY <3>2 DEF lo, hi
  <2> HIDE DEF I, J, quotes
  <2>3. IsFiniteSet(I \cup J) /\ Cardinality(I \cup J) = Len(h) + Len(a) - Cardinality(I \cap J)
    BY <2>1, <2>2, FS_Union
  <2>4. IsFiniteSet(I \cap J) /\ Cardinality(I \cap J) \in Nat
    BY <2>1, FS_Intersection, FS_CardinalityType
  <2>5. quotes \subseteq I \cup J
    BY <1>6 DEF I, J, quotes
  <2>6. IsFiniteSet(quotes) /\ Cardinality(quotes) <= Cardinality(I \cup J)
    BY <2>3, <2>5, FS_Subset
  <2>7. Cardinality(quotes) \in Nat
    BY <2>6, FS_CardinalityType
  <2> QED
    BY <1>5, <2>3, <2>4, <2>6, <2>7
<1>8. Quotes(t) = Cardinality(quotes)
  BY DEF Quotes
<1> HIDE DEF quotes
<1>9. /\ Len(t) <= HostChars + AgentChars + 2 + Len(l)
      /\ Quotes(t) \in Nat /\ Quotes(t) <= HostChars + AgentChars
  BY <1>1, <1>4, <1>5, <1>7, <1>8, LimitTypes
<1> QED
  BY <1>4, <1>9 DEF t, l

\* The detail is at most a space and a token.
LEMMA DetailType ==
  ASSUME NEW e \in AgentEvent
  PROVE  Detail(e) \in Seq(Plain) /\ Len(Detail(e)) <= DetailChars + 1
<1>1. ASSUME NEW text \in Seq(Char)
      PROVE  /\ <<"space">> \o ShortToken(text, DetailChars) \in Seq(Plain)
             /\ Len(<<"space">> \o ShortToken(text, DetailChars)) <= DetailChars + 1
  <2>1. /\ ShortToken(text, DetailChars) \in Seq(Plain)
        /\ Len(ShortToken(text, DetailChars)) <= DetailChars
    BY TokenType, LimitTypes DEF Plain
  <2>2. <<"space">> \in Seq(Plain) /\ Len(<<"space">>) = 1
    BY CharFacts
  <2>3. /\ <<"space">> \o ShortToken(text, DetailChars) \in Seq(Plain)
        /\ Len(<<"space">> \o ShortToken(text, DetailChars)) = 1 + Len(ShortToken(text, DetailChars))
    BY <2>1, <2>2, Concatenated
  <2> QED
    BY <2>1, <2>3, LimitTypes
<1>2. CASE e.repo # None
  BY <1>1, <1>2, EventTypes DEF Detail
<1>3. CASE e.repo = None /\ e.summary # None
  BY <1>1, <1>3, EventTypes DEF Detail
<1>4. CASE e.repo = None /\ e.summary = None
  <2>1. Detail(e) = <<>>
    BY <1>4 DEF Detail
  <2> QED
    BY <2>1, LimitTypes
<1> QED
  BY <1>2, <1>3, <1>4

\* Making a text printable keeps its length and its quotes.
LEMMA SanitizeType ==
  ASSUME NEW text \in Seq(Plain)
  PROVE  /\ Sanitize(text) \in Seq(Shown) /\ Len(Sanitize(text)) = Len(text)
         /\ \A i \in 1 .. Len(text) : Sanitize(text)[i] = "quote" <=> text[i] = "quote"
<1> DEFINE clean(i) == IF text[i] = "wide" THEN "question" ELSE text[i]
<1>1. \A i \in 1 .. Len(text) : clean(i) \in Shown
  BY CharFacts
<1>2. Sanitize(text) = [i \in 1 .. Len(text) |-> clean(i)]
  BY DEF Sanitize
<1>3. Len(text) \in Nat
  OBVIOUS
<1>4. \A i \in 1 .. Len(text) : clean(i) = "quote" <=> text[i] = "quote"
  OBVIOUS
<1> HIDE DEF clean
<1> QED
  BY <1>1, <1>2, <1>3, <1>4

\* The display text begins with the heading, and has its quotes where the
\* heading has them.
LEMMA DisplayText ==
  ASSUME NEW e \in AgentEvent
  PROVE  /\ ConciseDisplayText(e) \in Seq(Shown)
         /\ Len(ConciseDisplayText(e)) <= HostChars + AgentChars + DetailChars + 8
         /\ Len(Heading(e)) <= Len(ConciseDisplayText(e))
         /\ \A i \in 1 .. Len(Heading(e)) :
              ConciseDisplayText(e)[i] = "quote" <=> Heading(e)[i] = "quote"
<1> DEFINE t == Heading(e)
           d == Detail(e)
           v == ConciseDisplayText(e)
<1>1. /\ t \in Seq(Plain) /\ Len(t) <= HostChars + AgentChars + 2 + Len(Label(e.state))
      /\ d \in Seq(Plain) /\ Len(d) <= DetailChars + 1
  BY HeadingType, DetailType
<1>2. Len(Label(e.state)) \in Nat /\ Len(Label(e.state)) <= 5
  BY LabelType, Zenon
<1>3. v = Sanitize(t \o d)
  BY DEF ConciseDisplayText
<1> HIDE DEF t, d, v
<1>5. /\ t \o d \in Seq(Plain) /\ Len(t \o d) = Len(t) + Len(d)
      /\ \A i \in 1 .. Len(t \o d) : (t \o d)[i] = IF i <= Len(t) THEN t[i] ELSE d[i - Len(t)]
  BY <1>1, Concatenated
<1>6. /\ v \in Seq(Shown) /\ Len(v) = Len(t) + Len(d)
      /\ \A i \in 1 .. Len(t \o d) : v[i] = "quote" <=> (t \o d)[i] = "quote"
  BY <1>3, <1>5, SanitizeType
<1>7. Len(t) \in Nat /\ Len(d) \in Nat
  BY <1>1
<1>8. Len(v) <= HostChars + AgentChars + DetailChars + 8 /\ Len(t) <= Len(v)
  BY <1>1, <1>2, <1>6, <1>7, LimitTypes
<1>9. \A i \in 1 .. Len(t) : v[i] = "quote" <=> t[i] = "quote"
  BY <1>5, <1>6, <1>7
<1> QED
  BY <1>6, <1>8, <1>9 DEF t, v

---------------------------------------------------------------------------
(***************************************************************************)
(* Escaping, and what is counted                                           *)
(***************************************************************************)

\* Where the first n characters of a text hold a quote.
QuotesTo(text, n) == {i \in 1 .. n : text[i] = "quote"}

\* What escaping adds to a character of a display text.
Extra(ch) == IF ch = "quote" THEN 1 ELSE 0

\* The quotes of a beginning that is one character longer.
LEMMA QuotesCount ==
  ASSUME NEW text, NEW n \in Nat
  PROVE  /\ IsFiniteSet(QuotesTo(text, n)) /\ Cardinality(QuotesTo(text, n)) \in Nat
         /\ Cardinality(QuotesTo(text, n + 1)) =
              Cardinality(QuotesTo(text, n)) + Extra(text[n + 1])
<1> DEFINE Q == QuotesTo(text, n)
<1>1. IsFiniteSet(Q)
  <2>1. IsFiniteSet(1 .. n)
    BY FS_Interval
  <2>2. Q \in SUBSET (1 .. n)
    BY DEF QuotesTo
  <2> QED
    BY <2>1, <2>2, FS_Subset
<1>2. Cardinality(Q) \in Nat
  BY <1>1, FS_CardinalityType
<1>3. CASE text[n + 1] = "quote"
  <2>1. QuotesTo(text, n + 1) = Q \cup {n + 1} /\ n + 1 \notin Q
    BY <1>3 DEF QuotesTo
  <2> QED
    BY <1>1, <1>2, <1>3, <2>1, FS_AddElement DEF Extra
<1>4. CASE text[n + 1] # "quote"
  <2>1. QuotesTo(text, n + 1) = Q
    BY <1>4 DEF QuotesTo
  <2> QED
    BY <1>1, <1>2, <1>4, <2>1 DEF Extra
<1> QED
  BY <1>1, <1>2, <1>3, <1>4

\* A character of a display text becomes one byte, or two if it is a quote.
LEMMA EscapeShown ==
  ASSUME NEW ch \in Shown
  PROVE  /\ Escape(ch) = IF ch = "quote" THEN <<"backslash", ch>> ELSE <<ch>>
         /\ Escape(ch) \in Seq(Char)
         /\ Len(Escape(ch)) = 1 + Extra(ch) /\ Extra(ch) \in Nat
<1>1. ch \in Char /\ ch # "wide" /\ ch # "backslash" /\ "backslash" \in Char
  BY DEF Shown, Char, Separator
<1>2. CASE ch = "quote"
  <2>1. Escape(ch) = <<"backslash", ch>>
    BY <1>2 DEF Escape
  <2>2. <<"backslash", ch>> \in Seq(Char) /\ Len(<<"backslash", ch>>) = 2
    BY <1>1
  <2>3. Escape(ch) \in Seq(Char) /\ Len(Escape(ch)) = 2
    BY <2>1, <2>2
  <2> QED
    BY <1>2, <2>1, <2>3 DEF Extra
<1>3. CASE ch # "quote"
  <2>1. Escape(ch) = <<ch>>
    BY <1>1, <1>3 DEF Escape
  <2>2. <<ch>> \in Seq(Char) /\ Len(<<ch>>) = 1
    BY <1>1
  <2>3. Escape(ch) \in Seq(Char) /\ Len(Escape(ch)) = 1
    BY <2>1, <2>2
  <2> QED
    BY <1>3, <2>1, <2>3 DEF Extra
<1> QED
  BY <1>2, <1>3

Reader(text) == [open |-> TRUE, literal |-> FALSE, text |-> text]

\* An escaped character is read back as that character.
LEMMA ReadEscaped ==
  ASSUME NEW s \in Seq(Char), NEW ch \in Shown, NEW text,
         ReadString(s) = Reader(text)
  PROVE  ReadString(s \o Escape(ch)) = Reader(Append(text, ch))
<1>0. ch \in Char /\ ch # "wide" /\ ch # "backslash" /\ "backslash" \in Char
  BY DEF Shown, Char, Separator
<1>1. CASE ch = "quote"
  <2> DEFINE half == s \o <<"backslash">>
             r == [open |-> TRUE, literal |-> TRUE, text |-> text]
  <2>1. half \in Seq(Char) /\ s \o Escape(ch) = half \o <<ch>>
    <3>1. Escape(ch) = <<"backslash", ch>>
      BY <1>1, EscapeShown
    <3>2. s \o <<"backslash", ch>> = (s \o <<"backslash">>) \o <<ch>>
      BY <1>0
    <3> QED
      BY <1>0, <3>1, <3>2
  <2>2. ReadString(half) = ReadChar(Reader(text), "backslash")
    BY <1>0, ReadMore
  <2>3. ReadChar(Reader(text), "backslash") = r
    BY DEF ReadChar, Reader
  <2> HIDE DEF half
  <2>4. ReadString(half \o <<ch>>) = ReadChar(r, ch)
    BY <1>0, <2>1, <2>2, <2>3, ReadMore
  <2>5. ReadChar(r, ch) = Reader(Append(text, ch))
    BY DEF ReadChar, Reader
  <2> QED
    BY <2>1, <2>4, <2>5
<1>2. CASE ch # "quote"
  <2>1. Escape(ch) = <<ch>>
    BY <1>2, EscapeShown
  <2>2. ReadString(s \o <<ch>>) = ReadChar(Reader(text), ch)
    BY <1>0, ReadMore
  <2>3. ReadChar(Reader(text), ch) = Reader(Append(text, ch))
    BY <1>0, <1>2 DEF ReadChar, Reader
  <2> QED
    BY <2>1, <2>2, <2>3
<1> QED
  BY <1>1, <1>2

---------------------------------------------------------------------------
(***************************************************************************)
(* The loop                                                                *)
(***************************************************************************)

(***************************************************************************)
(* The inductive invariant of the loop: what was escaped is within the     *)
(* budget, as long as the characters taken and their quotes together, and  *)
(* reads as those characters; once the loop has been left, it was at the   *)
(* end of the text, or the next character had no room.                     *)
(***************************************************************************)
Fitting ==
  /\ Len(escaped) <= Budget(event.state)
  /\ result # "too_long"

Counted == Len(escaped) = taken + Cardinality(QuotesTo(value, taken))

Readable == ReadString(escaped) = Reader(SubSeq(value, 1, taken))

Full == result # "none" /\ taken < Len(value) => ~ Fits(value[taken + 1])

MInv == /\ TypeOK /\ value = ConciseDisplayText(event)
        /\ Fitting /\ Counted /\ Readable /\ Full

\* The budget is what the prefix and the quotes leave of the limit.
LEMMA BudgetFits == ASSUME NEW state
                    PROVE  /\ Budget(state) \in Nat /\ Overhead(state) \in Nat
                           /\ Overhead(state) + Budget(state) <= MaxCommand
  <1>1. Overhead(state) \in {9, 27}
    BY DEF Overhead
  <1>2. MaxCommand \in Nat /\ MaxCommand >= 27
    BY MacroAssumption DEF MaxCommand
  <1>3. CASE MaxCommand > Overhead(state)
    BY <1>1, <1>2, <1>3 DEF Budget
  <1>4. CASE MaxCommand = Overhead(state)
    BY <1>1, <1>2, <1>4 DEF Budget
  <1> QED BY <1>1, <1>2, <1>3, <1>4

\* A string within the budget makes a command within the limit.
LEMMA WithinBudget == ASSUME NEW state, NEW n \in Nat, n <= Budget(state)
                      PROVE  Overhead(state) + n <= MaxCommand
  <1>1. MaxCommand \in Int
    BY MacroAssumption DEF MaxCommand
  <1> QED BY <1>1, BudgetFits

\* The loop starts with nothing taken.
LEMMA InitMInv == Init => MInv
<1> SUFFICES ASSUME Init PROVE MInv
  OBVIOUS
<1>1. /\ event \in AgentEvent /\ value = ConciseDisplayText(event)
      /\ taken = 0 /\ escaped = <<>> /\ result = "none"
  BY DEF Init
<1>2. value \in Seq(Shown) /\ Len(value) <= HostChars + AgentChars + DetailChars + 8
  BY <1>1, DisplayText
<1>3. TypeOK
  BY <1>1, <1>2 DEF TypeOK, Shown
<1>4. Fitting
  BY <1>1, BudgetFits DEF Fitting
<1>5. Counted
  <2>1. QuotesTo(value, 0) = {}
    BY DEF QuotesTo
  <2>2. Cardinality(QuotesTo(value, taken)) = 0
    BY <1>1, <2>1, FS_EmptySet
  <2> QED
    BY <1>1, <2>2 DEF Counted
<1>6. Readable
  <2>1. SubSeq(value, 1, 0) = <<>>
    BY <1>2
  <2> QED
    BY <1>1, <2>1, ReadNothing DEF Readable, Reader, Start
<1> QED
  BY <1>1, <1>3, <1>4, <1>5, <1>6 DEF MInv, Full

\* A turn of the loop keeps the invariant, and so does its end.
LEMMA NextMInv == MInv /\ [Next]_vars => MInv'
<1> SUFFICES ASSUME MInv, [Next]_vars PROVE MInv'
  OBVIOUS
<1>0. /\ TypeOK /\ value = ConciseDisplayText(event)
      /\ Fitting /\ Counted /\ Readable /\ Full
  BY DEF MInv
<1>1. /\ value \in Seq(Shown) /\ taken \in 0 .. Len(value) /\ escaped \in Seq(Char)
      /\ Len(value) \in Nat /\ Len(escaped) \in Nat
  BY <1>0 DEF TypeOK, Shown
<1>2. CASE Push
  <2> DEFINE ch == value[taken + 1]
  <2>1. /\ taken' = taken + 1 /\ taken < Len(value)
        /\ escaped' = escaped \o Escape(ch)
        /\ Len(escaped) + Len(Escape(ch)) <= Budget(event.state)
        /\ result = "none"
        /\ UNCHANGED <<event, value, result>>
    BY <1>2 DEF Push, Fits
  <2>2. ch \in Shown
    BY <1>1, <2>1
  <2> HIDE DEF ch
  <2>3. Escape(ch) \in Seq(Char) /\ Len(Escape(ch)) = 1 + Extra(ch) /\ Extra(ch) \in Nat
    BY <2>2, EscapeShown
  <2>4. escaped' \in Seq(Char) /\ Len(escaped') = Len(escaped) + Len(Escape(ch))
    BY <1>1, <2>1, <2>3, Concatenated
  <2>5. TypeOK'
    BY <1>0, <1>1, <2>1, <2>4 DEF TypeOK
  <2>6. Fitting'
    BY <1>0, <2>1, <2>4 DEF Fitting
  <2>7. Counted'
    <3>1. Cardinality(QuotesTo(value, taken)) \in Nat
      BY <1>1, QuotesCount
    <3>2. Cardinality(QuotesTo(value, taken + 1)) =
            Cardinality(QuotesTo(value, taken)) + Extra(ch)
      BY <1>1, QuotesCount DEF ch
    <3>3. value' = value /\ taken' = taken + 1
      BY <2>1
    <3>4. Len(escaped) = taken + Cardinality(QuotesTo(value, taken))
      BY <1>0 DEF Counted
    <3>5. Len(escaped') = taken + 1 + Cardinality(QuotesTo(value, taken + 1))
      BY <1>1, <2>3, <2>4, <3>1, <3>2, <3>4
    <3> QED
      BY <3>3, <3>5 DEF Counted
  <2>8. Readable'
    <3>1. SubSeq(value, 1, taken + 1) = Append(SubSeq(value, 1, taken), ch)
      BY <1>1, <2>1 DEF ch
    <3>2. ReadString(escaped \o Escape(ch)) = Reader(Append(SubSeq(value, 1, taken), ch))
      BY <1>0, <1>1, <2>2, ReadEscaped DEF Readable
    <3> QED
      BY <2>1, <3>1, <3>2 DEF Readable
  <2> QED
    BY <1>0, <2>1, <2>5, <2>6, <2>7, <2>8 DEF MInv, Full
<1>3. CASE Finish
  <2>1. /\ taken < Len(value) => ~ Fits(value[taken + 1])
        /\ result' = IF Overhead(event.state) + Len(escaped) <= MaxCommand
                     THEN "command" ELSE "too_long"
        /\ UNCHANGED <<event, value, taken, escaped>>
    BY <1>3 DEF Finish
  <2>2. Overhead(event.state) + Len(escaped) <= MaxCommand
    BY <1>0, <1>1, WithinBudget DEF Fitting
  <2>3. result' = "command"
    BY <2>1, <2>2
  <2> QED
    BY <1>0, <2>1, <2>3 DEF MInv, TypeOK, Fitting, Counted, Readable, Full, Fits
<1>4. CASE UNCHANGED vars
  BY <1>0, <1>4 DEF MInv, TypeOK, Fitting, Counted, Readable, Full, Fits, vars
<1> QED
  BY <1>2, <1>3, <1>4 DEF Next

\* The invariant of escape_and_truncate_macro_string's loop.
THEOREM LoopInvariant == Spec => []MInv
BY InitMInv, NextMInv, PTL DEF Spec

\* A display text has no separators, nothing that takes more than a byte, and
\* no more characters than its tokens and label allow.
THEOREM MacroTypes == Spec => []TypeOK
<1>1. MInv => TypeOK
  BY DEF MInv
<1> QED
  BY <1>1, LoopInvariant, PTL

\* quoted_macro_command never returns TooLong, and neither does
\* uhk_exec_macro_report of what it returned.
THEOREM AlwaysFits == Spec => []CommandFits
<1>1. MInv => CommandFits
  <2> SUFFICES ASSUME MInv PROVE CommandFits
    OBVIOUS
  <2>1. Len(escaped) \in Nat /\ Fitting
    BY DEF MInv, TypeOK
  <2>2. Overhead(event.state) + Len(escaped) <= MaxCommand
    BY <2>1, WithinBudget DEF Fitting
  <2> QED
    BY <2>1, <2>2 DEF Fitting, CommandFits
<1> QED
  BY <1>1, LoopInvariant, PTL

\* The keyboard reads, up to the closing quote of the command and no further,
\* the beginning of the display text, wherever the loop stopped.
THEOREM StringIsText == Spec => []ReadsBack
<1>1. MInv => ReadsBack
  BY DEF MInv, Readable, Reader, ReadsBack
<1> QED
  BY <1>1, LoopInvariant, PTL

\* The label of the event's state is never cut off: not by any tokens for the
\* other states, and for waiting_input not by tokens with at most 9 quotes.
THEOREM LabelSurvives == Spec => []StateIsShown
<1>1. MInv => StateIsShown
  <2> DEFINE t == Heading(event)
             q == Cardinality(QuotesTo(value, taken))
  <2> SUFFICES ASSUME MInv, result # "none",
                      event.state = "waiting_input" => Quotes(t) <= 9,
                      taken < Len(t)
               PROVE  FALSE
    <3>1. Len(t) \in Nat
      BY HeadingType DEF MInv, TypeOK
    <3>2. MInv => taken \in Int
      BY DEF MInv, TypeOK
    <3> QED
      BY <3>1, <3>2 DEF StateIsShown
  <2>1. /\ event \in AgentEvent /\ value = ConciseDisplayText(event)
        /\ value \in Seq(Shown) /\ taken \in Nat /\ Len(value) \in Nat
    BY DEF MInv, TypeOK, Shown
  <2>2. /\ t \in Seq(Plain) /\ Len(t) \in Nat
        /\ Len(t) <= HostChars + AgentChars + 2 + Len(Label(event.state))
        /\ Quotes(t) \in Nat /\ Quotes(t) <= HostChars + AgentChars
    <3>1. t \in Seq(Plain)
      BY <2>1, HeadingType
    <3> HIDE DEF t
    <3>2. Len(t) \in Nat
      BY <3>1
    <3> QED
      BY <2>1, <3>1, <3>2, HeadingType DEF t
  <2>3. taken < Len(value)
    BY <2>1, <2>2, DisplayText
  <2>4. ~ (Len(escaped) + Len(Escape(value[taken + 1])) <= Budget(event.state))
    BY <2>3 DEF MInv, Full, Fits
  <2>5. Len(escaped) + Len(Escape(value[taken + 1])) <= Len(t) + Quotes(t)
    <3> DEFINE ch == value[taken + 1]
    <3>1. ch \in Shown
      BY <2>1, <2>3
    <3> HIDE DEF ch
    <3>2. Len(Escape(ch)) = 1 + Extra(ch) /\ Extra(ch) \in Nat
      BY <3>1, EscapeShown
    <3>3. /\ q \in Nat
          /\ Cardinality(QuotesTo(value, taken + 1)) = q + Extra(ch)
      BY <2>1, QuotesCount DEF ch
    <3>4. Len(escaped) = taken + q
      BY DEF MInv, Counted
    <3>5. Cardinality(QuotesTo(value, taken + 1)) <= Quotes(t)
      <4> DEFINE A == QuotesTo(value, taken + 1)
                 B == QuotesTo(t, Len(t))
      <4>1. A \subseteq B
        <5> SUFFICES ASSUME NEW i \in 1 .. taken + 1, value[i] = "quote"
                     PROVE  i \in 1 .. Len(t) /\ t[i] = "quote"
          BY DEF QuotesTo
        <5>1. i \in 1 .. Len(t)
          BY <2>1, <2>2
        <5> QED
          BY <2>1, <5>1, DisplayText
      <4>2. IsFiniteSet(B)
        BY <2>2, QuotesCount
      <4>3. B = {i \in DOMAIN t : t[i] = "quote"}
        <5> HIDE DEF t
        <5>1. DOMAIN t = 1 .. Len(t)
          BY <2>2
        <5> QED
          BY <5>1 DEF QuotesTo
      <4>4. Cardinality(B) = Quotes(t)
        BY <4>3 DEF Quotes
      <4> HIDE DEF A, B
      <4>5. Cardinality(A) <= Cardinality(B)
        BY <4>1, <4>2, FS_Subset
      <4> QED
        BY <4>4, <4>5 DEF A
    <3>6. Len(escaped) + Len(Escape(ch)) = taken + 1 + Cardinality(QuotesTo(value, taken + 1))
      BY <2>1, <3>2, <3>3, <3>4
    <3>7. Cardinality(QuotesTo(value, taken + 1)) \in Nat
      BY <3>2, <3>3
    <3> HIDE DEF t
    <3>8. taken + 1 <= Len(t)
      BY <2>1, <2>2
    <3>9. Len(escaped) + Len(Escape(ch)) <= Len(t) + Quotes(t)
      BY <2>1, <2>2, <3>5, <3>6, <3>7, <3>8
    <3> QED
      BY <3>9 DEF ch
  <2> HIDE DEF t
  <2>6. Len(t) + Quotes(t) <= Budget(event.state)
    <3>1. HostChars \in Nat /\ AgentChars \in Nat
      BY LimitTypes
    <3>2. CASE event.state = "waiting_input"
      <4>1. Len(Label(event.state)) \in Nat /\ Len(Label(event.state)) <= 5
        BY LabelType
      <4>2. Quotes(t) <= 9 /\ Budget(event.state) = Budget("waiting_input")
        BY <3>2
      <4>3. Budget("waiting_input") \in Nat
        BY BudgetFits
      <4> QED
        BY <2>2, <3>1, <4>1, <4>2, <4>3, RoomAssumption
    <3>3. CASE event.state # "waiting_input"
      <4>1. Len(Label(event.state)) \in Nat /\ Len(Label(event.state)) <= 4
        BY <3>3, LabelType
      <4>2. Budget(event.state) = Budget("running")
        BY <3>3 DEF Budget, Overhead
      <4>3. Budget("running") \in Nat
        BY BudgetFits
      <4> QED
        BY <2>2, <3>1, <4>1, <4>2, <4>3, RoomAssumption
    <3> QED
      BY <3>2, <3>3
  <2>7. Len(escaped) \in Nat /\ Len(Escape(value[taken + 1])) \in Nat
    <3>1. value[taken + 1] \in Shown
      BY <2>1, <2>3
    <3>2. Escape(value[taken + 1]) \in Seq(Char)
      BY <3>1, EscapeShown
    <3> QED
      BY <3>2 DEF MInv, TypeOK
  <2> QED
    BY <2>2, <2>4, <2>5, <2>6, <2>7, BudgetFits
<1> QED
  BY <1>1, LoopInvariant, PTL

=============================================================================
