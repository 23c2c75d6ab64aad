----------------------- MODULE MetadataExtractorProofs -----------------------
(***************************************************************************)
(* The counts of the extractor are right for every blob of bytes, every    *)
(* length and every cap.  What its operators compute byte by byte is       *)
(* proved by induction: from the least counterexample, which natural       *)
(* numbers have because < is well founded on them.                         *)
(***************************************************************************)
EXTENDS MetadataExtractorProperties, FiniteSetTheorems, WellFoundedInduction, TLAPS

-----------------------------------------------------------------------------
(* Induction over an interval.                                             *)

\* A set of naturals has a least element.
LEMMA LeastNatural ==
  ASSUME NEW T \in SUBSET Nat, T # {}
  PROVE  \E n \in T : \A m \in T : n <= m
<1> DEFINE R == OpToRel(<, Nat)
<1>1. IsWellFoundedOn(R, Nat)
  BY NatLessThanWellFounded
<1>2. \A m, n \in Nat : m < n => <<m, n>> \in R
  BY DEF OpToRel
<1> HIDE DEF R
<1>3. PICK n \in T : \A m \in T : ~(<<m, n>> \in R)
  BY <1>1, WFMin
<1>4. \A m \in T : ~(m < n) /\ m \in Nat /\ n \in Nat
  BY <1>2, <1>3
<1>5. \A m \in T : n <= m
  BY <1>4
<1>6. QED
  BY <1>3, <1>5

\* What holds of 0 and of the successor of whatever it holds of, up to bound,
\* holds of all numbers up to bound.  The set stands for the predicate.
LEMMA UpTo ==
  ASSUME NEW bound \in Nat, NEW T, 0 \in T,
         \A n \in 0..(bound - 1) : n \in T => n + 1 \in T
  PROVE  \A n \in 0..bound : n \in T
<1> SUFFICES ASSUME (0..bound) \ T # {} PROVE FALSE
  OBVIOUS
<1>1. (0..bound) \ T \in SUBSET Nat
  OBVIOUS
<1>2. PICK n \in (0..bound) \ T : \A m \in (0..bound) \ T : n <= m
  BY <1>1, LeastNatural
<1>3. n # 0 /\ n - 1 \in 0..(bound - 1)
  BY <1>2
<1>4. n - 1 \in T
  BY <1>2, <1>3
<1>5. QED
  BY <1>2, <1>3, <1>4

-----------------------------------------------------------------------------
(* Functions defined by recursion over a sequence.                         *)

\* g has the values in S after each element of s, from start on.
Iterates(g, S, step, start, s) ==
  /\ g \in [0..Len(s) -> S]
  /\ g[0] = start
  /\ \A n \in 1..Len(s) : g[n] = step[g[n - 1]][s[n]]

\* A function of a value in S and an element can be iterated from a start in S over the elements of
\* a sequence: there is a function with the values after each of them.
LEMMA IteratesExist ==
  ASSUME NEW S, NEW E, NEW step \in [S -> [E -> S]], NEW start \in S, NEW s \in Seq(E)
  PROVE  \E g : Iterates(g, S, step, start, s)
<1> DEFINE Up(n, g) == /\ g \in [0..n -> S]
                       /\ g[0] = start
                       /\ \A m \in 1..n : g[m] = step[g[m - 1]][s[m]]
           T == {n \in 0..Len(s) : \E g : Up(n, g)}
<1>1. 0 \in T
  <2>1. Up(0, [m \in 0..0 |-> start])
    OBVIOUS
  <2>2. 0 \in 0..Len(s)
    OBVIOUS
  <2>3. \E g : Up(0, g)
    BY <2>1
  <2> HIDE DEF Up
  <2>4. QED
    BY <2>2, <2>3
<1>2. ASSUME NEW n \in 0..(Len(s) - 1), n \in T PROVE n + 1 \in T
  <2>1. PICK g : Up(n, g)
    BY <1>2
  <2> DEFINE next == step[g[n]][s[n + 1]]
             h == [m \in 0..(n + 1) |-> IF m = n + 1 THEN next ELSE g[m]]
  <2>2. next \in S
    <3>1. g[n] \in S /\ s[n + 1] \in E
      BY <2>1
    <3>2. QED
      BY <3>1
  <2>3. \A m \in 0..n : g[m] \in S
    BY <2>1
  <2> HIDE DEF next
  <2>4. h \in [0..(n + 1) -> S]
    BY <2>2, <2>3
  <2>5. h[0] = start
    BY <2>1
  <2>6. ASSUME NEW m \in 1..(n + 1) PROVE h[m] = step[h[m - 1]][s[m]]
    <3>1. CASE m = n + 1
      <4>1. h[m] = next /\ h[m - 1] = g[n] /\ s[m] = s[n + 1]
        BY <3>1
      <4>2. QED
        BY <4>1 DEF next
    <3>2. CASE m # n + 1
      <4>1. m \in 1..n /\ h[m] = g[m] /\ h[m - 1] = g[m - 1]
        BY <3>2
      <4>2. QED
        BY <4>1, <2>1
    <3>3. QED
      BY <3>1, <3>2
  <2> HIDE DEF h
  <2>7. Up(n + 1, h)
    BY <2>4, <2>5, <2>6
  <2>8. n + 1 \in 0..Len(s)
    OBVIOUS
  <2> HIDE DEF Up
  <2>9. QED
    BY <2>7, <2>8
<1> HIDE DEF T
<1>3. \A n \in 0..Len(s) : n \in T
  <2>1. Len(s) \in Nat
    OBVIOUS
  <2>2. QED
    BY <1>1, <1>2, <2>1, UpTo
<1> HIDE DEF Up
<1>4. PICK g : Up(Len(s), g)
  <2>1. Len(s) \in 0..Len(s)
    OBVIOUS
  <2>2. QED
    BY <1>3, <2>1 DEF T
<1>5. QED
  BY <1>4 DEF Up, Iterates

\* Functions that start alike and go on alike are alike: a recursive function
\* is determined by its equation, and so is its beginning by the beginning of
\* the sequence.
LEMMA Agree ==
  ASSUME NEW bound \in Nat, NEW g, NEW h, g[0] = h[0],
         \A n \in 1..bound : g[n - 1] = h[n - 1] => g[n] = h[n]
  PROVE  \A n \in 0..bound : g[n] = h[n]
<1> DEFINE T == {n \in 0..bound : g[n] = h[n]}
<1>1. 0 \in T
  OBVIOUS
<1>2. ASSUME NEW n \in 0..(bound - 1), n \in T PROVE n + 1 \in T
  <2>1. n + 1 \in 1..bound /\ (n + 1) - 1 = n
    OBVIOUS
  <2>2. g[n] = h[n]
    BY <1>2
  <2>3. g[n + 1] = h[n + 1]
    BY <2>1, <2>2
  <2>4. QED
    BY <2>1, <2>3
<1> HIDE DEF T
<1>3. \A n \in 0..bound : n \in T
  BY <1>1, <1>2, UpTo
<1>4. QED
  BY <1>3 DEF T

\* A function that never steps down never gets below an earlier value.
LEMMA NeverDown ==
  ASSUME NEW bound \in Nat, NEW f \in [0..bound -> Int],
         \A n \in 1..bound : f[n - 1] <= f[n]
  PROVE  \A k, n \in 0..bound : k <= n => f[k] <= f[n]
<1> DEFINE T == {n \in 0..bound : \A k \in 0..n : f[k] <= f[n]}
<1>1. 0 \in T
  <2>1. f[0] \in Int
    OBVIOUS
  <2>2. QED
    BY <2>1
<1>2. ASSUME NEW n \in 0..(bound - 1), n \in T PROVE n + 1 \in T
  <2>1. n + 1 \in 1..bound /\ (n + 1) - 1 = n
    OBVIOUS
  <2>2. f[n] <= f[n + 1] /\ f[n] \in Int /\ f[n + 1] \in Int
    BY <2>1
  <2>3. ASSUME NEW k \in 0..(n + 1) PROVE f[k] <= f[n + 1]
    <3>1. CASE k = n + 1
      BY <2>2, <3>1
    <3>2. CASE k # n + 1
      <4>1. k \in 0..n /\ f[k] \in Int
        BY <3>2
      <4>2. f[k] <= f[n]
        BY <1>2, <4>1
      <4>3. QED
        BY <2>2, <4>1, <4>2
    <3>3. QED
      BY <3>1, <3>2
  <2>4. QED
    BY <2>3
<1> HIDE DEF T
<1>3. \A n \in 0..bound : n \in T
  BY <1>1, <1>2, UpTo
<1>4. QED
  BY <1>3 DEF T

-----------------------------------------------------------------------------
(* The decoder.                                                            *)

Byte == 0..255

\* What a decoder carries between two bytes.  The ranges of the next byte and
\* of the code so far exclude overlong forms.
Text ==
  {text \in [chars : Seq(Nat), left : 0..3, code : Nat, low : 128..191, high : 128..191] :
     /\ text.left = 1 => text.code >= 2
     /\ text.left = 2 /\ text.code = 0 => text.low >= 160
     /\ text.left = 3 /\ text.code = 0 => text.low >= 144}

\* A byte where a character begins leaves the decoder in one of its states.
LEMMA LeadByteType ==
  ASSUME NEW chars \in Seq(Nat), NEW byte \in Byte
  PROVE  LeadByte(chars, byte) \in Text
<1>1. byte \in 0..255
  BY DEF Byte
<1>2. Append(chars, byte) \in Seq(Nat)
  BY <1>1
<1>3. QED
  BY <1>1, <1>2 DEF LeadByte, Text, Fresh, Partial

\* The arithmetic of a byte that goes on with a character: the code stays what
\* its range promised, and a finished code needs the bytes it has had.
LEMMA NextCodeFacts ==
  ASSUME NEW text \in Text, NEW byte \in Byte,
         GoesOn(text, byte)
  PROVE  /\ NextCode(text, byte) \in Nat
         /\ text.left = 1 /\ text.code < 32 => Width(NextCode(text, byte)) = 2
         /\ text.left = 1 /\ text.code \in 32..1023 => Width(NextCode(text, byte)) = 3
         /\ text.left = 1 /\ text.code >= 1024 => Width(NextCode(text, byte)) = 4
         /\ text.left = 2 /\ text.code < 16 => NextCode(text, byte) \in 32..1023
         /\ text.left = 2 /\ text.code >= 16 => NextCode(text, byte) >= 1024
         /\ text.left = 3 => NextCode(text, byte) >= 16
<1>1. PICK left, code, low, high :
        left = text.left /\ code = text.code /\ low = text.low /\ high = text.high
  OBVIOUS
<1>2. PICK next : next = NextCode(text, byte)
  OBVIOUS
<1>3. /\ left \in 0..3 /\ code \in Nat /\ low \in 128..191 /\ high \in 128..191
      /\ left = 1 => code >= 2
      /\ left = 2 /\ code = 0 => low >= 160
      /\ left = 3 /\ code = 0 => low >= 144
  BY <1>1 DEF Text
<1>4. left > 0 /\ byte \in low..high
  BY <1>1 DEF GoesOn
<1>5. byte \in Nat /\ low <= byte /\ byte <= 191
  BY <1>3, <1>4 DEF Byte
<1>6. next = 64 * code + byte - 128
  BY <1>1, <1>2 DEF NextCode
<1>7. /\ next \in Nat
      /\ left = 1 /\ code < 32 => Width(next) = 2
      /\ left = 1 /\ code \in 32..1023 => Width(next) = 3
      /\ left = 1 /\ code >= 1024 => Width(next) = 4
      /\ left = 2 /\ code < 16 => next \in 32..1023
      /\ left = 2 /\ code >= 16 => next >= 1024
      /\ left = 3 => next >= 16
  BY <1>3, <1>4, <1>5, <1>6 DEF Width
<1>8. QED
  BY <1>1, <1>2, <1>7

\* So does a byte that goes on with a character.
LEMMA DecodeByteType ==
  ASSUME NEW text \in Text, NEW byte \in Byte
  PROVE  DecodeByte(text, byte) \in Text
<1>1. /\ text.chars \in Seq(Nat) /\ text.left \in 0..3 /\ text.code \in Nat
      /\ text.low \in 128..191 /\ text.high \in 128..191
      /\ text.left = 2 /\ text.code = 0 => text.low >= 160
      /\ text.left = 3 /\ text.code = 0 => text.low >= 144
  BY DEF Text
<1>2. CASE ~GoesOn(text, byte)
  BY <1>1, <1>2, LeadByteType DEF DecodeByte
<1>3. CASE GoesOn(text, byte)
  <2> DEFINE code == NextCode(text, byte)
  <2>1. /\ code \in Nat
        /\ text.left = 2 /\ text.code < 16 => code \in 32..1023
        /\ text.left = 2 /\ text.code >= 16 => code >= 1024
        /\ text.left = 3 => code >= 16
    BY <1>3, NextCodeFacts
  <2> HIDE DEF code
  <2>2. text.left = 2 => code >= 2
    BY <1>1, <2>1
  <2>3. Append(text.chars, code) \in Seq(Nat)
    BY <1>1, <2>1
  <2>4. CASE text.left = 1
    <3>1. DecodeByte(text, byte) = Fresh(Append(text.chars, code))
      BY <1>3, <2>4 DEF DecodeByte, code
    <3>2. QED
      BY <2>3, <3>1 DEF Text, Fresh
  <2>5. CASE text.left # 1
    <3>1. DecodeByte(text, byte) = Partial(text.chars, text.left - 1, code, 128, 191)
      BY <1>3, <2>5 DEF DecodeByte, code
    <3>2. text.left \in {2, 3}
      BY <1>1, <1>3, <2>5 DEF GoesOn
    <3>3. QED
      BY <1>1, <2>1, <2>2, <3>1, <3>2 DEF Text, Partial
  <2>6. QED
    BY <2>4, <2>5
<1>4. QED
  BY <1>2, <1>3

\* The recursive definition of the decoder is one: it has a value after every
\* byte, which DecodeByte makes of the one before.
LEMMA DecodingSteps ==
  ASSUME NEW raw \in Seq(Byte)
  PROVE  /\ Decoding(raw) \in [0..Len(raw) -> Text]
         /\ Decoding(raw)[0] = Fresh(<<>>)
         /\ \A n \in 1..Len(raw) : Decoding(raw)[n] = DecodeByte(Decoding(raw)[n - 1], raw[n])
<1> DEFINE step == [text \in Text |-> [byte \in Byte |-> DecodeByte(text, byte)]]
           start == Fresh(<<>>)
           Is(g) == g = [n \in 0..Len(raw) |->
                           IF n = 0 THEN Fresh(<<>>) ELSE DecodeByte(g[n - 1], raw[n])]
<1>1. step \in [Text -> [Byte -> Text]]
  BY DecodeByteType
<1>2. start \in Text
  BY DEF Fresh, Text
<1>3. \A text \in Text, byte \in Byte : step[text][byte] = DecodeByte(text, byte)
  OBVIOUS
<1> HIDE DEF step, start, Is
<1>4. PICK g : Iterates(g, Text, step, start, raw)
  BY <1>1, <1>2, IteratesExist
<1>0. /\ g \in [0..Len(raw) -> Text]
      /\ g[0] = start
      /\ \A n \in 1..Len(raw) : g[n] = step[g[n - 1]][raw[n]]
  BY <1>4 DEF Iterates
<1>5. \A n \in 1..Len(raw) : g[n] = DecodeByte(g[n - 1], raw[n])
  <2> SUFFICES ASSUME NEW n \in 1..Len(raw) PROVE g[n] = DecodeByte(g[n - 1], raw[n])
    OBVIOUS
  <2>1. g[n - 1] \in Text
    BY <1>0
  <2>2. raw[n] \in Byte
    OBVIOUS
  <2>3. QED
    BY <2>1, <2>2, <1>3, <1>0
<1>6. Is(g)
  BY <1>0, <1>5 DEF start, Is
<1>7. Is(Decoding(raw))
  BY <1>6, Zenon DEF Decoding, Is
<1> DEFINE d == Decoding(raw)
<1>8. d[0] = start /\ \A n \in 1..Len(raw) : d[n] = DecodeByte(d[n - 1], raw[n])
  BY <1>7 DEF start, Is
<1>9. d = [n \in 0..Len(raw) |-> d[n]]
  BY <1>7 DEF Is
<1> HIDE DEF d
<1>10. \A n \in 1..Len(raw) : g[n - 1] = d[n - 1] => g[n] = d[n]
  BY <1>5, <1>8
<1>11. \A n \in 0..Len(raw) : g[n] = d[n]
  <2>1. Len(raw) \in Nat
    OBVIOUS
  <2>2. g[0] = d[0]
    BY <1>0, <1>8
  <2>3. QED
    BY <1>10, <2>1, <2>2, Agree, Zenon
<1>12. d = g
  BY <1>0, <1>9, <1>11
<1>13. QED
  BY <1>0, <1>5, <1>12 DEF start, d

-----------------------------------------------------------------------------
(* Prefixes.                                                               *)

Prefix(s, t) == Len(s) <= Len(t) /\ s = SubSeq(t, 1, Len(s))

\* A sequence is a prefix of itself.
LEMMA PrefixSelf ==
  ASSUME NEW E, NEW s \in Seq(E)
  PROVE  Prefix(s, s)
BY DEF Prefix

\* A prefix stays one when the sequence grows.
LEMMA PrefixAppend ==
  ASSUME NEW E, NEW s \in Seq(E), NEW t \in Seq(E), NEW x \in E, Prefix(s, t)
  PROVE  Prefix(s, Append(t, x))
<1>1. \A n \in 0..Len(t) : SubSeq(Append(t, x), 1, n) = SubSeq(t, 1, n)
  OBVIOUS
<1>2. QED
  BY <1>1 DEF Prefix

-----------------------------------------------------------------------------
(* The number of bytes of a text.                                          *)

\* UTF-8 has characters of one to four bytes.
LEMMA WidthType ==
  ASSUME NEW char \in Nat
  PROVE  Width(char) \in 1..4
BY DEF Width

\* The recursive sum of the widths is one.
LEMMA EncodedLengthsSteps ==
  ASSUME NEW content \in Seq(Nat)
  PROVE  /\ EncodedLengths(content) \in [0..Len(content) -> Nat]
         /\ EncodedLengths(content)[0] = 0
         /\ \A n \in 1..Len(content) :
              EncodedLengths(content)[n] = EncodedLengths(content)[n - 1] + Width(content[n])
<1> DEFINE step == [bytes \in Nat |-> [char \in Nat |-> bytes + Width(char)]]
           Is(g) == g = [n \in 0..Len(content) |->
                           IF n = 0 THEN 0 ELSE g[n - 1] + Width(content[n])]
<1>1. step \in [Nat -> [Nat -> Nat]]
  BY WidthType
<1>2. \A bytes, char \in Nat : step[bytes][char] = bytes + Width(char)
  OBVIOUS
<1> HIDE DEF step, Is
<1>3. PICK g : Iterates(g, Nat, step, 0, content)
  BY <1>1, IteratesExist
<1>4. /\ g \in [0..Len(content) -> Nat]
      /\ g[0] = 0
      /\ \A n \in 1..Len(content) : g[n] = step[g[n - 1]][content[n]]
  BY <1>3 DEF Iterates
<1>5. ASSUME NEW n \in 1..Len(content) PROVE g[n] = g[n - 1] + Width(content[n])
  <2>1. g[n - 1] \in Nat
    BY <1>4
  <2>2. content[n] \in Nat
    OBVIOUS
  <2>3. QED
    BY <2>1, <2>2, <1>2, <1>4
<1>6. Is(g)
  BY <1>4, <1>5 DEF Is
<1>7. Is(EncodedLengths(content))
  BY <1>6, Zenon DEF EncodedLengths, Is
<1> DEFINE d == EncodedLengths(content)
<1>8. d[0] = 0 /\ \A n \in 1..Len(content) : d[n] = d[n - 1] + Width(content[n])
  BY <1>7 DEF Is
<1>9. d = [n \in 0..Len(content) |-> d[n]]
  BY <1>7 DEF Is
<1> HIDE DEF d
<1>10. \A n \in 1..Len(content) : g[n - 1] = d[n - 1] => g[n] = d[n]
  BY <1>5, <1>8
<1>11. \A n \in 0..Len(content) : g[n] = d[n]
  <2>1. Len(content) \in Nat
    OBVIOUS
  <2>2. g[0] = d[0]
    BY <1>4, <1>8
  <2>3. QED
    BY <1>10, <2>1, <2>2, Agree, Zenon
<1>12. d = g
  BY <1>4, <1>9, <1>11
<1>13. QED
  BY <1>4, <1>5, <1>12 DEF d

\* A character adds its width.
LEMMA EncodedLengthAppend ==
  ASSUME NEW content \in Seq(Nat), NEW char \in Nat
  PROVE  /\ EncodedLength(content) \in Nat
         /\ EncodedLength(Append(content, char)) = EncodedLength(content) + Width(char)
<1> DEFINE longer == Append(content, char)
           h == EncodedLengths(longer)
<1>1. /\ longer \in Seq(Nat)
      /\ Len(longer) = Len(content) + 1
      /\ longer[Len(content) + 1] = char
      /\ \A n \in 1..Len(content) : longer[n] = content[n]
  OBVIOUS
<1> HIDE DEF longer
<1>0. PICK g : g = EncodedLengths(content)
  OBVIOUS
<1>2. /\ g \in [0..Len(content) -> Nat]
      /\ g[0] = 0
      /\ \A n \in 1..Len(content) : g[n] = g[n - 1] + Width(content[n])
  BY <1>0, EncodedLengthsSteps
<1>3. /\ h[0] = 0
      /\ \A n \in 1..(Len(content) + 1) : h[n] = h[n - 1] + Width(longer[n])
  BY <1>1, EncodedLengthsSteps
<1> HIDE DEF h
<1>4. \A n \in 1..Len(content) : g[n - 1] = h[n - 1] => g[n] = h[n]
  <2>1. \A n \in 1..Len(content) : n \in 1..(Len(content) + 1)
    OBVIOUS
  <2>2. QED
    BY <1>1, <1>2, <1>3, <2>1
<1>5. \A n \in 0..Len(content) : g[n] = h[n]
  <2>1. Len(content) \in Nat
    OBVIOUS
  <2>2. g[0] = h[0]
    BY <1>2, <1>3
  <2>3. QED
    BY <1>4, <2>1, <2>2, Agree, Zenon
<1>6. h[Len(content) + 1] = h[Len(content)] + Width(char)
  BY <1>1, <1>3
<1>7. g[Len(content)] \in Nat /\ g[Len(content)] = h[Len(content)]
  BY <1>2, <1>5
<1>8. EncodedLength(content) = g[Len(content)] /\ EncodedLength(longer) = h[Len(content) + 1]
  BY <1>0, <1>1 DEF EncodedLength, h
<1>9. QED
  BY <1>6, <1>7, <1>8 DEF longer

\* No characters need no bytes.
LEMMA EncodedLengthEmpty == EncodedLength(<<>>) = 0
<1>1. <<>> \in Seq(Nat) /\ Len(<<>>) = 0
  OBVIOUS
<1>2. QED
  BY <1>1, EncodedLengthsSteps DEF EncodedLength

-----------------------------------------------------------------------------
(* Every byte is used once at most.                                        *)

\* The bytes that an unfinished character has used so far: the code tells.
Pending(text) ==
  IF text.left = 0 THEN 0
  ELSE IF text.left = 3 THEN 1
  ELSE IF text.left = 2 THEN (IF text.code < 16 THEN 1 ELSE 2)
  ELSE IF text.code < 32 THEN 1
  ELSE IF text.code < 1024 THEN 2
  ELSE 3

UsedBytes(text) == EncodedLength(text.chars) + Pending(text)

\* One more character, finished with the last byte.
Finishes(before, after) ==
  /\ after.left = 0
  /\ \E char \in Nat : after.chars = Append(before.chars, char)

\* A byte where a character begins gives up what was unfinished and uses itself
\* at most.
LEMMA LeadByteUses ==
  ASSUME NEW text \in Text, NEW byte \in Byte
  PROVE  LET after == LeadByte(text.chars, byte) IN
           /\ after.chars = text.chars \/ Finishes(text, after)
           /\ UsedBytes(after) <= UsedBytes(text) + 1
<1>0. byte \in 0..255
  BY DEF Byte
<1> DEFINE chars == text.chars
           after == LeadByte(chars, byte)
<1>1. chars \in Seq(Nat) /\ Pending(text) \in 0..3
  BY DEF Text, Pending
<1>2. /\ EncodedLength(chars) \in Nat
      /\ EncodedLength(Append(chars, byte)) = EncodedLength(chars) + Width(byte)
  BY <1>0, <1>1, EncodedLengthAppend
<1> HIDE DEF chars
<1>3. UsedBytes(text) = EncodedLength(chars) + Pending(text)
  BY DEF UsedBytes, chars
<1>4. CASE byte < 128
  <2>1. after = Fresh(Append(chars, byte))
    BY <1>0, <1>4 DEF LeadByte
  <2>2. after.left = 0 /\ after.chars = Append(chars, byte)
    BY <2>1 DEF Fresh
  <2>3. Finishes(text, after)
    BY <1>0, <2>2 DEF Finishes, chars
  <2>4. UsedBytes(after) = EncodedLength(chars) + 1
    BY <1>0, <1>2, <1>4, <2>2 DEF UsedBytes, Pending, Width
  <2>5. QED
    BY <1>1, <1>2, <1>3, <2>3, <2>4 DEF chars
<1>5. CASE byte >= 128
  <2>1. after.chars = chars /\ Pending(after) \in 0..1
    <3>1. CASE byte \in 194..223
      BY <1>0, <1>5, <3>1 DEF LeadByte, Partial, Pending
    <3>2. CASE byte \in 224..239
      BY <1>0, <1>5, <3>2 DEF LeadByte, Partial, Pending
    <3>3. CASE byte \in 240..244
      BY <1>0, <1>5, <3>3 DEF LeadByte, Partial, Pending
    <3>4. CASE byte \notin 194..244
      BY <1>0, <1>5, <3>4 DEF LeadByte, Fresh, Pending
    <3>5. QED
      BY <3>1, <3>2, <3>3, <3>4
  <2> HIDE DEF after
  <2>2. UsedBytes(after) = EncodedLength(chars) + Pending(after)
    BY <2>1 DEF UsedBytes
  <2>3. QED
    BY <1>1, <1>2, <1>3, <2>1, <2>2 DEF chars, after
<1>6. QED
  BY <1>0, <1>4, <1>5

\* A byte uses itself at most, and a character it finishes is all it leaves: the
\* code has the width that its bytes promised.
LEMMA DecodeByteUses ==
  ASSUME NEW text \in Text, NEW byte \in Byte
  PROVE  LET after == DecodeByte(text, byte) IN
           /\ after.chars = text.chars \/ Finishes(text, after)
           /\ UsedBytes(after) <= UsedBytes(text) + 1
<1>1. /\ text.chars \in Seq(Nat) /\ text.left \in 0..3 /\ text.code \in Nat
      /\ text.low \in 128..191 /\ text.high \in 128..191
      /\ text.left = 1 => text.code >= 2
      /\ text.left = 2 /\ text.code = 0 => text.low >= 160
      /\ text.left = 3 /\ text.code = 0 => text.low >= 144
  BY DEF Text
<1>2. CASE ~GoesOn(text, byte)
  <2>1. DecodeByte(text, byte) = LeadByte(text.chars, byte)
    BY <1>2 DEF DecodeByte
  <2>2. QED
    BY <2>1, LeadByteUses
<1>3. CASE GoesOn(text, byte)
  <2> DEFINE next == NextCode(text, byte)
  <2>1. text.left \in 1..3
    BY <1>1, <1>3 DEF GoesOn
  <2>2. /\ text.left = 1 /\ text.code < 32 => Width(next) = 2
        /\ text.left = 1 /\ text.code \in 32..1023 => Width(next) = 3
        /\ text.left = 1 /\ text.code >= 1024 => Width(next) = 4
        /\ text.left = 2 /\ text.code < 16 => next \in 32..1023
        /\ text.left = 2 /\ text.code >= 16 => next >= 1024
        /\ text.left = 3 => next >= 16
    BY <1>3, NextCodeFacts
  <2>3. next \in Nat
    BY <1>3, NextCodeFacts
  <2> DEFINE after == DecodeByte(text, byte)
  <2>4. /\ EncodedLength(text.chars) \in Nat
        /\ EncodedLength(Append(text.chars, next)) = EncodedLength(text.chars) + Width(next)
    BY <1>1, <2>3, EncodedLengthAppend
  <2>5. CASE text.left = 1
    <3>1. after = Fresh(Append(text.chars, next))
      BY <1>3, <2>5 DEF DecodeByte
    <3> HIDE DEF after, next
    <3>2. after.left = 0 /\ after.chars = Append(text.chars, next)
      BY <3>1 DEF Fresh
    <3>3. Finishes(text, after)
      BY <2>3, <3>2 DEF Finishes
    <3>4. UsedBytes(after) = EncodedLength(text.chars) + Width(next)
      BY <2>3, <2>4, <3>2, WidthType DEF UsedBytes, Pending
    <3>a. Pending(text) = Width(next) - 1
      <4>1. CASE text.code < 32
        BY <1>1, <2>2, <2>5, <4>1 DEF Pending
      <4>2. CASE text.code \in 32..1023
        BY <1>1, <2>2, <2>5, <4>2 DEF Pending
      <4>3. CASE text.code >= 1024
        BY <1>1, <2>2, <2>5, <4>3 DEF Pending
      <4>4. PICK code \in Nat : code = text.code
        BY <1>1
      <4>5. code < 32 \/ code \in 32..1023 \/ code >= 1024
        OBVIOUS
      <4>6. QED
        BY <4>1, <4>2, <4>3, <4>4, <4>5
    <3>5. UsedBytes(text) = EncodedLength(text.chars) + Width(next) - 1
      BY <2>3, <2>4, <3>a, WidthType DEF UsedBytes
    <3>6. Width(next) \in Nat
      BY <2>3, WidthType
    <3>7. UsedBytes(after) <= UsedBytes(text) + 1
      BY <2>4, <3>4, <3>5, <3>6
    <3>8. QED
      BY <3>3, <3>7 DEF after
  <2>6. CASE text.left # 1
    <3>1. after = Partial(text.chars, text.left - 1, next, 128, 191)
      BY <1>3, <2>6 DEF DecodeByte
    <3> HIDE DEF after, next
    <3>2. after.left = text.left - 1 /\ after.chars = text.chars /\ after.code = next
      BY <3>1 DEF Partial
    <3>3. Pending(after) = Pending(text) + 1 /\ Pending(text) \in Nat
      <4>1. CASE text.left = 2 /\ text.code < 16
        <5>1. Pending(text) = 1
          BY <4>1 DEF Pending
        <5>2. after.left = 1 /\ after.code \in 32..1023
          BY <2>2, <3>2, <4>1
        <5>3. Pending(after) = 2
          BY <5>2 DEF Pending
        <5>4. QED
          BY <5>1, <5>3
      <4>2. CASE text.left = 2 /\ text.code >= 16
        <5>1. Pending(text) = 2
          BY <1>1, <4>2 DEF Pending
        <5>2. after.left = 1 /\ after.code >= 1024
          BY <2>2, <3>2, <4>2
        <5>3. Pending(after) = 3
          BY <2>3, <3>2, <5>2 DEF Pending
        <5>4. QED
          BY <5>1, <5>3
      <4>3. CASE text.left = 3
        <5>1. Pending(text) = 1
          BY <4>3 DEF Pending
        <5>2. after.left = 2 /\ after.code >= 16
          BY <2>2, <3>2, <4>3
        <5>a. \A code \in Nat : code >= 16 => ~(code < 16)
          OBVIOUS
        <5>b. ~(after.code < 16)
          BY <2>3, <3>2, <5>2, <5>a
        <5>3. Pending(after) = 2
          BY <5>2, <5>b DEF Pending
        <5>4. QED
          BY <5>1, <5>3
      <4>4. QED
        BY <1>1, <2>1, <2>6, <4>1, <4>2, <4>3
    <3>4. UsedBytes(after) = UsedBytes(text) + 1
      BY <2>4, <3>2, <3>3 DEF UsedBytes
    <3>5. UsedBytes(text) \in Nat
      BY <2>4, <3>3 DEF UsedBytes
    <3>6. QED
      BY <3>2, <3>4, <3>5 DEF after
  <2>7. QED
    BY <2>5, <2>6
<1>4. QED
  BY <1>2, <1>3

\* Used bytes are those of the characters and of what is unfinished.
LEMMA UsedBytesType ==
  ASSUME NEW text \in Text
  PROVE  UsedBytes(text) \in Nat /\ EncodedLength(text.chars) <= UsedBytes(text)
<1>1. text.chars \in Seq(Nat) /\ Pending(text) \in 0..3
  BY DEF Text, Pending
<1>2. EncodedLength(text.chars) \in Nat
  BY <1>1, EncodedLengthAppend
<1>3. QED
  BY <1>1, <1>2 DEF UsedBytes

-----------------------------------------------------------------------------
(* Decoding a prefix, and what the cap leaves out.                         *)

\* Decoding the first bytes is the beginning of decoding all of them.
LEMMA DecodingOfPrefix ==
  ASSUME NEW raw \in Seq(Byte), NEW k \in 0..Len(raw)
  PROVE  Decode(SubSeq(raw, 1, k)) = Decoding(raw)[k].chars
<1>1. PICK start : start = SubSeq(raw, 1, k)
  OBVIOUS
<1>2. /\ start \in Seq(Byte)
      /\ Len(start) = k
      /\ \A n \in 1..k : start[n] = raw[n]
  BY <1>1
<1>3. PICK g : g = Decoding(start)
  OBVIOUS
<1>4. PICK h : h = Decoding(raw)
  OBVIOUS
<1>5. g[0] = Fresh(<<>>) /\ \A n \in 1..k : g[n] = DecodeByte(g[n - 1], start[n])
  BY <1>2, <1>3, DecodingSteps
<1>6. h[0] = Fresh(<<>>) /\ \A n \in 1..k : h[n] = DecodeByte(h[n - 1], raw[n])
  <2>1. \A n \in 1..k : n \in 1..Len(raw)
    OBVIOUS
  <2>2. QED
    BY <1>4, <2>1, DecodingSteps
<1>7. \A n \in 1..k : g[n - 1] = h[n - 1] => g[n] = h[n]
  BY <1>2, <1>5, <1>6
<1>8. g[0] = h[0] /\ k \in Nat
  BY <1>5, <1>6
<1>9. \A n \in 0..k : g[n] = h[n]
  BY <1>7, <1>8, Agree
<1>10. g[k] = h[k]
  BY <1>8, <1>9
<1>11. QED
  BY <1>1, <1>2, <1>3, <1>4, <1>10 DEF Decode

\* What decoding does between two bytes.
LEMMA DecodedSteps ==
  ASSUME NEW raw \in Seq(Byte)
  PROVE  /\ \A n \in 0..Len(raw) : /\ Decoding(raw)[n] \in Text
                                   /\ Decoding(raw)[n].chars \in Seq(Nat)
         /\ Decoding(raw)[0].chars = <<>>
         /\ UsedBytes(Decoding(raw)[0]) = 0
         /\ \A n \in 1..Len(raw) :
              /\ \/ Decoding(raw)[n].chars = Decoding(raw)[n - 1].chars
                 \/ Finishes(Decoding(raw)[n - 1], Decoding(raw)[n])
              /\ UsedBytes(Decoding(raw)[n]) <= UsedBytes(Decoding(raw)[n - 1]) + 1
<1>1. PICK d : d = Decoding(raw)
  OBVIOUS
<1>2. /\ d \in [0..Len(raw) -> Text]
      /\ d[0] = Fresh(<<>>)
      /\ \A n \in 1..Len(raw) : d[n] = DecodeByte(d[n - 1], raw[n])
  BY <1>1, DecodingSteps
<1>3. \A n \in 0..Len(raw) : d[n] \in Text /\ d[n].chars \in Seq(Nat)
  BY <1>2 DEF Text
<1>4. d[0].chars = <<>> /\ UsedBytes(d[0]) = 0
  <2>1. d[0].chars = <<>> /\ d[0].left = 0
    BY <1>2 DEF Fresh
  <2>2. QED
    BY <2>1, EncodedLengthEmpty DEF UsedBytes, Pending
<1>5. ASSUME NEW n \in 1..Len(raw)
      PROVE  /\ d[n].chars = d[n - 1].chars \/ Finishes(d[n - 1], d[n])
             /\ UsedBytes(d[n]) <= UsedBytes(d[n - 1]) + 1
  <2>1. d[n - 1] \in Text
    BY <1>2
  <2>2. raw[n] \in Byte
    OBVIOUS
  <2>3. d[n] = DecodeByte(d[n - 1], raw[n])
    BY <1>2
  <2>4. QED
    BY <2>1, <2>2, <2>3, DecodeByteUses
<1>6. QED
  BY <1>1, <1>3, <1>4, <1>5

\* There is no more text than bytes, and what was decoded stays.
LEMMA DecodedGrows ==
  ASSUME NEW raw \in Seq(Byte)
  PROVE  \A n \in 0..Len(raw) :
           /\ Len(Decoding(raw)[n].chars) <= n
           /\ \A k \in 0..n : Prefix(Decoding(raw)[k].chars, Decoding(raw)[n].chars)
<1>1. PICK d : d = Decoding(raw)
  OBVIOUS
<1>2. /\ \A n \in 0..Len(raw) : d[n].chars \in Seq(Nat)
      /\ d[0].chars = <<>>
      /\ \A n \in 1..Len(raw) : d[n].chars = d[n - 1].chars \/ Finishes(d[n - 1], d[n])
  BY <1>1, DecodedSteps
<1> DEFINE Grown(n) == /\ Len(d[n].chars) <= n
                       /\ \A k \in 0..n : Prefix(d[k].chars, d[n].chars)
           T == {n \in 0..Len(raw) : Grown(n)}
<1>3. Len(raw) \in Nat
  OBVIOUS
<1>4. 0 \in T
  <2>1. Prefix(d[0].chars, d[0].chars)
    BY <1>2, <1>3, PrefixSelf
  <2>2. Len(d[0].chars) = 0
    BY <1>2
  <2>3. \A k \in 0..0 : k = 0
    OBVIOUS
  <2>4. QED
    BY <1>3, <2>1, <2>2, <2>3
<1>5. ASSUME NEW n \in 0..(Len(raw) - 1), n \in T PROVE n + 1 \in T
  <2>1. n + 1 \in 1..Len(raw) /\ (n + 1) - 1 = n /\ n \in 0..Len(raw) /\ n + 1 \in 0..Len(raw)
    BY <1>3
  <2>2. PICK now, next : now = d[n].chars /\ next = d[n + 1].chars
    OBVIOUS
  <2>3. now \in Seq(Nat) /\ next \in Seq(Nat)
    BY <1>2, <2>1, <2>2
  <2>4. Len(now) <= n /\ \A k \in 0..n : Prefix(d[k].chars, now)
    BY <1>5, <2>2
  <2>5. next = now \/ \E char \in Nat : next = Append(now, char)
    BY <1>2, <2>1, <2>2 DEF Finishes
  <2>6. Len(next) <= n + 1
    BY <2>3, <2>4, <2>5
  <2>7. ASSUME NEW k \in 0..(n + 1) PROVE Prefix(d[k].chars, next)
    <3>1. CASE k = n + 1
      BY <2>2, <2>3, <3>1, PrefixSelf
    <3>2. CASE k # n + 1
      <4>1. k \in 0..n /\ k \in 0..Len(raw)
        BY <3>2
      <4>2. Prefix(d[k].chars, now) /\ d[k].chars \in Seq(Nat)
        BY <1>2, <2>4, <4>1
      <4>3. QED
        BY <2>3, <2>5, <4>2, PrefixAppend
    <3>3. QED
      BY <3>1, <3>2
  <2>8. Grown(n + 1)
    BY <2>2, <2>6, <2>7
  <2>9. QED
    BY <2>1, <2>8
<1> HIDE DEF T
<1>6. \A n \in 0..Len(raw) : n \in T
  BY <1>3, <1>4, <1>5, UpTo
<1>7. QED
  BY <1>1, <1>6 DEF T

\* Bytes never come back: none is used twice, and one that is ignored stays
\* unused.  So if all bytes of the blob are used, all are at every cut.
LEMMA AllUsed ==
  ASSUME NEW raw \in Seq(Byte), EncodedLength(Decode(raw)) = Len(raw)
  PROVE  \A n \in 0..Len(raw) : UsedBytes(Decoding(raw)[n]) = n
<1>1. PICK d : d = Decoding(raw)
  OBVIOUS
<1>2. /\ \A n \in 0..Len(raw) : d[n] \in Text
      /\ UsedBytes(d[0]) = 0
      /\ \A n \in 1..Len(raw) : UsedBytes(d[n]) <= UsedBytes(d[n - 1]) + 1
  BY <1>1, DecodedSteps
<1>3. Len(raw) \in Nat
  OBVIOUS
<1>4. PICK last : last = Len(raw)
  OBVIOUS
<1> DEFINE used == [n \in 0..last |-> UsedBytes(d[n])]
           unused == [n \in 0..last |-> n - used[n]]
<1>5. used \in [0..last -> Nat]
  BY <1>2, <1>4, UsedBytesType
<1>6. used[0] = 0 /\ \A n \in 1..last : used[n] <= used[n - 1] + 1
  BY <1>2, <1>3, <1>4
<1>7. \A n \in 0..last : used[n] = UsedBytes(d[n])
  OBVIOUS
<1> HIDE DEF used
<1>8. unused \in [0..last -> Int] /\ unused[0] = 0
  BY <1>3, <1>4, <1>5, <1>6
<1>9. ASSUME NEW n \in 1..last PROVE unused[n - 1] <= unused[n]
  <2>1. n \in 0..last /\ n - 1 \in 0..last /\ n \in Int
    BY <1>3, <1>4
  <2>2. used[n] \in Nat /\ used[n - 1] \in Nat /\ used[n] <= used[n - 1] + 1
    BY <1>5, <1>6, <2>1
  <2>3. unused[n - 1] = n - 1 - used[n - 1] /\ unused[n] = n - used[n]
    BY <2>1
  <2>4. QED
    BY <2>1, <2>2, <2>3
<1>10. \A n \in 0..last : unused[n] = n - used[n]
  OBVIOUS
<1> HIDE DEF unused
<1>11. \A k, n \in 0..last : k <= n => unused[k] <= unused[n]
  BY <1>3, <1>4, <1>8, <1>9, NeverDown
<1>12. used[last] >= last
  <2>1. EncodedLength(d[last].chars) = last
    BY <1>1, <1>4 DEF Decode
  <2>2. d[last] \in Text
    BY <1>2, <1>3, <1>4
  <2>3. EncodedLength(d[last].chars) <= UsedBytes(d[last])
    BY <2>2, UsedBytesType
  <2>4. QED
    BY <1>3, <1>4, <1>7, <2>1, <2>3
<1>13. ASSUME NEW n \in 0..last PROVE used[n] = n
  <2>1. 0 \in 0..last /\ last \in 0..last /\ 0 <= n /\ n <= last
    BY <1>3, <1>4
  <2>2. unused[0] <= unused[n] /\ unused[n] <= unused[last]
    BY <1>11, <2>1
  <2>3. unused[n] = n - used[n] /\ unused[last] = last - used[last]
    BY <1>10, <2>1
  <2>4. used[n] \in Nat /\ used[last] \in Nat /\ last \in Nat
    BY <1>3, <1>4, <1>5, <2>1
  <2>5. QED
    BY <1>8, <1>12, <2>2, <2>3, <2>4
<1>14. QED
  BY <1>1, <1>4, <1>7, <1>13

\* If all bytes are used, the character after those before a cut ends beyond it.
LEMMA NextEndsLater ==
  ASSUME NEW raw \in Seq(Byte), EncodedLength(Decode(raw)) = Len(raw), NEW k \in 0..Len(raw),
         NEW kept, kept = Decoding(raw)[k].chars
  PROVE  \A n \in k..Len(raw) :
           LET chars == Decoding(raw)[n].chars IN
             Len(chars) > Len(kept) => EncodedLength(SubSeq(chars, 1, Len(kept) + 1)) > k
<1>1. PICK d : d = Decoding(raw)
  OBVIOUS
<1>2. /\ \A n \in 0..Len(raw) : d[n].chars \in Seq(Nat)
      /\ \A n \in 1..Len(raw) : d[n].chars = d[n - 1].chars \/ Finishes(d[n - 1], d[n])
      /\ \A n \in 0..Len(raw) : UsedBytes(d[n]) = n
  BY <1>1, DecodedSteps, AllUsed
<1> DEFINE Later(chars) == Len(chars) > Len(kept) =>
                             EncodedLength(SubSeq(chars, 1, Len(kept) + 1)) > k
           T == {n \in 0..Len(raw) : n >= k => /\ Prefix(kept, d[n].chars)
                                                /\ Later(d[n].chars)}
<1>3. Len(raw) \in Nat /\ k \in Nat /\ kept = d[k].chars /\ kept \in Seq(Nat) /\ Len(kept) \in Nat
  BY <1>1, <1>2
<1>4. Prefix(kept, kept) /\ Later(kept)
  BY <1>3, PrefixSelf
<1>5. 0 \in T
  BY <1>3, <1>4
<1>6. ASSUME NEW n \in 0..(Len(raw) - 1), n \in T PROVE n + 1 \in T
  <2>1. n + 1 \in 1..Len(raw) /\ (n + 1) - 1 = n /\ n \in 0..Len(raw) /\ n + 1 \in 0..Len(raw)
    BY <1>3
  <2>2. CASE n + 1 < k
    BY <1>3, <2>1, <2>2
  <2>3. CASE n + 1 = k
    BY <1>3, <1>4, <2>1, <2>3
  <2>4. CASE n >= k
    <3>1. PICK now, next : now = d[n].chars /\ next = d[n + 1].chars
      OBVIOUS
    <3>2. now \in Seq(Nat) /\ next \in Seq(Nat)
      BY <1>2, <2>1, <3>1
    <3>3. Prefix(kept, now) /\ Later(now)
      BY <1>6, <2>4, <3>1
    <3> HIDE DEF Later
    <3>4. CASE next = now
      BY <2>1, <3>1, <3>3, <3>4
    <3>5. CASE next # now
      <4>1. Finishes(d[n], d[n + 1])
        BY <1>2, <2>1, <3>1, <3>5
      <4>2. PICK char \in Nat : next = Append(now, char)
        BY <3>1, <4>1 DEF Finishes
      <4>3. Prefix(kept, next)
        BY <1>3, <3>2, <3>3, <4>2, PrefixAppend
      <4>4. Later(next)
        <5>1. CASE Len(now) > Len(kept)
          <6>1. SubSeq(next, 1, Len(kept) + 1) = SubSeq(now, 1, Len(kept) + 1)
            BY <1>3, <3>2, <4>2, <5>1
          <6>2. QED
            BY <3>3, <5>1, <6>1 DEF Later
        <5>2. CASE ~(Len(now) > Len(kept))
          <6>1. Len(now) = Len(kept)
            BY <1>3, <3>2, <3>3, <5>2 DEF Prefix
          <6>2. SubSeq(next, 1, Len(kept) + 1) = next
            <7>1. Len(next) = Len(kept) + 1
              BY <3>2, <4>2, <6>1
            <7>2. QED
              BY <3>2, <7>1, PrefixSelf DEF Prefix
          <6>3. EncodedLength(next) = UsedBytes(d[n + 1])
            <7>1. Pending(d[n + 1]) = 0
              BY <4>1 DEF Finishes, Pending
            <7>2. EncodedLength(next) \in Nat
              BY <3>2, EncodedLengthAppend
            <7>3. QED
              BY <3>1, <7>1, <7>2 DEF UsedBytes
          <6>4. EncodedLength(next) = n + 1
            BY <1>2, <2>1, <6>3
          <6>5. n + 1 > k
            BY <1>3, <2>1, <2>4
          <6>6. EncodedLength(SubSeq(next, 1, Len(kept) + 1)) = n + 1
            BY <6>2, <6>4
          <6> HIDE DEF T
          <6>7. QED
            BY <6>5, <6>6 DEF Later
        <5>3. QED
          BY <5>1, <5>2
      <4>5. QED
        BY <2>1, <3>1, <4>3, <4>4
    <3>6. QED
      BY <3>4, <3>5
  <2>5. QED
    BY <1>3, <2>1, <2>2, <2>3, <2>4
<1> HIDE DEF T
<1>7. \A n \in 0..Len(raw) : n \in T
  BY <1>3, <1>5, <1>6, UpTo
<1>8. ASSUME NEW n \in k..Len(raw) PROVE Later(d[n].chars)
  <2>1. n \in 0..Len(raw) /\ n >= k
    BY <1>3
  <2>2. QED
    BY <1>7, <2>1 DEF T
<1>9. QED
  BY <1>1, <1>8

-----------------------------------------------------------------------------
(* Lines.                                                                  *)

PlainText == [chars : Seq(Nat), cr : BOOLEAN]

\* LF and CR are two of the breaks.
LEMMA LineBreakFacts == LF \in Nat /\ LF \in LineBreaks /\ CR \in LineBreaks /\ CR # LF
BY DEF LF, CR, LineBreaks

\* What normalising a character makes of a plain text is one.
LEMMA NormaliseCharType ==
  ASSUME NEW text \in PlainText, NEW char \in Nat
  PROVE  NormaliseChar(text, char) \in PlainText
<1>1. text.chars \in Seq(Nat)
  BY DEF PlainText
<1>2. Append(text.chars, char) \in Seq(Nat) /\ Append(text.chars, LF) \in Seq(Nat)
  BY <1>1, LineBreakFacts
<1>3. (char = CR) \in BOOLEAN
  OBVIOUS
<1>4. \A chars \in Seq(Nat), cr \in BOOLEAN : Plain(chars, cr) \in PlainText
  BY DEF Plain, PlainText
<1>5. \/ NormaliseChar(text, char) = Plain(Append(text.chars, char), FALSE)
      \/ NormaliseChar(text, char) = Plain(text.chars, FALSE)
      \/ NormaliseChar(text, char) = Plain(Append(text.chars, LF), char = CR)
  BY DEF NormaliseChar
<1>6. QED
  BY <1>1, <1>2, <1>3, <1>4, <1>5

\* The recursive definition of plain text is one as well.
LEMMA NormalisingSteps ==
  ASSUME NEW content \in Seq(Nat)
  PROVE  /\ Normalising(content) \in [0..Len(content) -> PlainText]
         /\ Normalising(content)[0] = Plain(<<>>, FALSE)
         /\ \A n \in 1..Len(content) :
              Normalising(content)[n] = NormaliseChar(Normalising(content)[n - 1], content[n])
<1> DEFINE step == [text \in PlainText |-> [char \in Nat |-> NormaliseChar(text, char)]]
           start == Plain(<<>>, FALSE)
           Is(g) == g = [n \in 0..Len(content) |->
                           IF n = 0 THEN start ELSE NormaliseChar(g[n - 1], content[n])]
<1>1. step \in [PlainText -> [Nat -> PlainText]]
  BY NormaliseCharType
<1>2. start \in PlainText
  BY DEF Plain, PlainText
<1>3. \A text \in PlainText, char \in Nat : step[text][char] = NormaliseChar(text, char)
  OBVIOUS
<1> HIDE DEF step, start, Is
<1>4. PICK g : Iterates(g, PlainText, step, start, content)
  BY <1>1, <1>2, IteratesExist
<1>5. /\ g \in [0..Len(content) -> PlainText]
      /\ g[0] = start
      /\ \A n \in 1..Len(content) : g[n] = step[g[n - 1]][content[n]]
  BY <1>4 DEF Iterates
<1>6. ASSUME NEW n \in 1..Len(content) PROVE g[n] = NormaliseChar(g[n - 1], content[n])
  <2>1. g[n - 1] \in PlainText
    BY <1>5
  <2>2. content[n] \in Nat
    OBVIOUS
  <2>3. QED
    BY <2>1, <2>2, <1>3, <1>5
<1>7. Is(g)
  BY <1>5, <1>6 DEF Is
<1>8. Is(Normalising(content))
  BY <1>7, Zenon DEF Normalising, start, Is
<1> DEFINE d == Normalising(content)
<1>9. d[0] = start /\ \A n \in 1..Len(content) : d[n] = NormaliseChar(d[n - 1], content[n])
  BY <1>8 DEF Is
<1>10. d = [n \in 0..Len(content) |-> d[n]]
  BY <1>8 DEF Is
<1> HIDE DEF d
<1>11. \A n \in 1..Len(content) : g[n - 1] = d[n - 1] => g[n] = d[n]
  BY <1>6, <1>9
<1>12. \A n \in 0..Len(content) : g[n] = d[n]
  <2>1. Len(content) \in Nat
    OBVIOUS
  <2>2. g[0] = d[0]
    BY <1>5, <1>9
  <2>3. QED
    BY <1>11, <2>1, <2>2, Agree, Zenon
<1>13. d = g
  BY <1>5, <1>10, <1>12
<1>14. QED
  BY <1>5, <1>6, <1>13 DEF start, d

\* The lines among the first n characters.
Starts(content, n) == {i \in 1..n : StartsLine(content, i)}

\* Lines are counted by their starts: no more than characters, none only of
\* nothing, and one more character begins one more line at most.
LEMMA StartsCount ==
  ASSUME NEW content, NEW n \in Nat
  PROVE  /\ IsFiniteSet(Starts(content, n))
         /\ Cardinality(Starts(content, n)) \in 0..n
         /\ Cardinality(Starts(content, n)) = 0 <=> n = 0
         /\ Cardinality(Starts(content, n + 1)) =
              Cardinality(Starts(content, n)) + (IF StartsLine(content, n + 1) THEN 1 ELSE 0)
<1>1. IsFiniteSet(1..n) /\ Cardinality(1..n) = n
  BY FS_Interval
<1>2. Starts(content, n) \in SUBSET (1..n)
  BY DEF Starts
<1>3. /\ IsFiniteSet(Starts(content, n))
      /\ Cardinality(Starts(content, n)) \in Nat
      /\ Cardinality(Starts(content, n)) <= n
  BY <1>1, <1>2, FS_Subset, FS_CardinalityType
<1>4. Cardinality(Starts(content, n)) = 0 <=> n = 0
  <2>1. n # 0 => 1 \in Starts(content, n)
    BY DEF Starts, StartsLine
  <2>2. n = 0 => Starts(content, n) = {}
    BY DEF Starts
  <2>3. QED
    BY <1>3, <2>1, <2>2, FS_EmptySet
<1>5. Cardinality(Starts(content, n + 1)) =
        Cardinality(Starts(content, n)) + (IF StartsLine(content, n + 1) THEN 1 ELSE 0)
  <2>1. CASE StartsLine(content, n + 1)
    <3>1. Starts(content, n + 1) = Starts(content, n) \cup {n + 1}
      BY <2>1 DEF Starts
    <3>2. n + 1 \notin Starts(content, n)
      BY DEF Starts
    <3>3. QED
      BY <1>3, <2>1, <3>1, <3>2, FS_AddElement
  <2>2. CASE ~StartsLine(content, n + 1)
    <3>1. Starts(content, n + 1) = Starts(content, n)
      BY <2>2 DEF Starts
    <3>2. QED
      BY <1>3, <2>2, <3>1
  <2>3. QED
    BY <2>1, <2>2
<1>6. QED
  BY <1>3, <1>4, <1>5

\* A character adds a break exactly if it is LF.
LEMMA BreaksAppend ==
  ASSUME NEW content \in Seq(Nat), NEW char \in Nat
  PROVE  /\ Breaks(content) \in Nat
         /\ Breaks(Append(content, char)) = Breaks(content) + (IF char = LF THEN 1 ELSE 0)
<1> DEFINE N == Len(content)
           B == {i \in 1..N : content[i] = LF}
<1>0. N \in Nat
  OBVIOUS
<1>1. Breaks(content) = Cardinality(B)
  <2>1. DOMAIN content = 1..N
    OBVIOUS
  <2>2. QED
    BY <2>1, Zenon DEF Breaks
<1>2. PICK longer : longer = Append(content, char)
  OBVIOUS
<1>3. /\ DOMAIN longer = 1..(N + 1)
      /\ longer[N + 1] = char
      /\ \A i \in 1..N : longer[i] = content[i]
  BY <1>2
<1>4. Breaks(longer) = Cardinality({i \in 1..(N + 1) : longer[i] = LF})
  BY <1>3, Zenon DEF Breaks
<1> HIDE DEF N
<1>5. IsFiniteSet(B) /\ Cardinality(B) \in Nat
  <2>1. IsFiniteSet(1..N)
    BY <1>0, FS_Interval
  <2>2. QED
    BY <2>1, FS_Subset, FS_CardinalityType
<1>6. CASE char = LF
  <2>1. {i \in 1..(N + 1) : longer[i] = LF} = B \cup {N + 1}
    BY <1>0, <1>3, <1>6
  <2>2. N + 1 \notin B
    BY <1>0
  <2> HIDE DEF B
  <2>3. QED
    BY <1>1, <1>2, <1>4, <1>5, <1>6, <2>1, <2>2, FS_AddElement
<1>7. CASE char # LF
  <2>1. {i \in 1..(N + 1) : longer[i] = LF} = B
    BY <1>0, <1>3, <1>7
  <2>2. Breaks(longer) = Breaks(content)
    BY <1>1, <1>4, <2>1
  <2>3. Breaks(content) \in Nat
    BY <1>1, <1>5
  <2> HIDE DEF B
  <2>4. QED
    BY <1>2, <1>7, <2>2, <2>3
<1>8. QED
  BY <1>6, <1>7

\* The last line is open: there is text after the last break.
Open(text) == text # <<>> /\ text[Len(text)] # LF

\* After every character: the lines begun are the breaks of the plain text so
\* far, and one more if its last line is open; it is open, and the decision on
\* the next break known, by the character alone.
LEMMA LinesUpTo ==
  ASSUME NEW content \in Seq(Nat)
  PROVE  \A n \in 0..Len(content) :
           LET plain == Normalising(content)[n].chars IN
             Cardinality(Starts(content, n)) = Breaks(plain) + (IF Open(plain) THEN 1 ELSE 0)
<1>1. PICK d : d = Normalising(content)
  OBVIOUS
<1>2. /\ d \in [0..Len(content) -> PlainText]
      /\ d[0] = Plain(<<>>, FALSE)
      /\ \A n \in 1..Len(content) : d[n] = NormaliseChar(d[n - 1], content[n])
  BY <1>1, NormalisingSteps
<1> DEFINE Counted(n) == Cardinality(Starts(content, n)) =
                           Breaks(d[n].chars) + (IF Open(d[n].chars) THEN 1 ELSE 0)
           Ends(n) == /\ n = 0 => d[n].chars = <<>>
                      /\ n # 0 => d[n].chars # <<>>
                      /\ Open(d[n].chars) <=> n # 0 /\ content[n] \notin LineBreaks
                      /\ d[n].cr <=> n # 0 /\ content[n] = CR
           T == {n \in 0..Len(content) : Counted(n) /\ Ends(n)}
<1>3. Len(content) \in Nat
  OBVIOUS
<1>4. 0 \in T
  <2>1. d[0].chars = <<>> /\ d[0].cr = FALSE
    BY <1>2 DEF Plain
  <2>2. ~Open(d[0].chars)
    BY <2>1 DEF Open
  <2>3. Breaks(<<>>) = 0
    <3>1. {i \in DOMAIN <<>> : <<>>[i] = LF} = {}
      OBVIOUS
    <3>2. QED
      BY <3>1, FS_EmptySet DEF Breaks
  <2>4. Cardinality(Starts(content, 0)) = 0
    BY StartsCount
  <2>5. QED
    BY <1>3, <2>1, <2>2, <2>3, <2>4
<1>5. ASSUME NEW n \in 0..(Len(content) - 1), n \in T PROVE n + 1 \in T
  <2>1. n + 1 \in 1..Len(content) /\ (n + 1) - 1 = n /\ n \in 0..Len(content) /\ n + 1 \in 0..Len(content)
    BY <1>3
  <2>2. PICK char \in Nat : char = content[n + 1]
    BY <2>1
  <2>3. PICK now \in PlainText, next \in PlainText : now = d[n] /\ next = d[n + 1]
    BY <1>2, <2>1
  <2>4. next = NormaliseChar(now, char)
    BY <1>2, <2>1, <2>2, <2>3
  <2>5. PICK begun \in Nat, starts \in Nat :
          begun = Cardinality(Starts(content, n)) /\ starts = Cardinality(Starts(content, n + 1))
    BY <2>1, StartsCount
  <2>6. starts = begun + (IF StartsLine(content, n + 1) THEN 1 ELSE 0)
    <3>1. n \in Nat
      BY <2>1
    <3>2. Cardinality(Starts(content, n + 1)) =
            Cardinality(Starts(content, n)) + (IF StartsLine(content, n + 1) THEN 1 ELSE 0)
      BY <3>1, StartsCount
    <3>3. QED
      BY <2>5, <3>2
  <2>7. StartsLine(content, n + 1) <=>
          n = 0 \/ (content[n] \in LineBreaks /\ ~(content[n] = CR /\ char = LF))
    BY <2>1, <2>2 DEF StartsLine
  <2>8. begun = Breaks(now.chars) + (IF Open(now.chars) THEN 1 ELSE 0)
    BY <1>5, <2>3, <2>5
  <2>9. /\ n # 0 => now.chars # <<>>
        /\ Open(now.chars) <=> n # 0 /\ content[n] \notin LineBreaks
        /\ now.cr <=> n # 0 /\ content[n] = CR
    BY <1>5, <2>3
  <2>10. now.chars \in Seq(Nat) /\ now.cr \in BOOLEAN
    BY DEF PlainText
  <2>11. \A text \in Seq(Nat), x \in Nat :
           /\ Append(text, x) # <<>>
           /\ Open(Append(text, x)) <=> x # LF
    BY DEF Open
  <2>12. /\ Breaks(now.chars) \in Nat
         /\ \A x \in Nat : Breaks(Append(now.chars, x)) = Breaks(now.chars) + (IF x = LF THEN 1 ELSE 0)
    BY <2>10, BreaksAppend
  <2> HIDE DEF Counted, Ends
  <2>13. SUFFICES /\ starts = Breaks(next.chars) + (IF Open(next.chars) THEN 1 ELSE 0)
                  /\ next.chars # <<>>
                  /\ Open(next.chars) <=> char \notin LineBreaks
                  /\ next.cr <=> char = CR
    BY <2>1, <2>2, <2>3, <2>5 DEF Counted, Ends
  <2>14. CASE char \notin LineBreaks
    <3>1. next = Plain(Append(now.chars, char), FALSE)
      BY <2>4, <2>14 DEF NormaliseChar
    <3>2. next.chars = Append(now.chars, char) /\ next.cr = FALSE
      BY <3>1 DEF Plain
    <3>3. char # LF /\ char # CR
      BY <2>14, LineBreakFacts
    <3>4. next.chars # <<>> /\ Open(next.chars)
      BY <2>10, <2>11, <3>2, <3>3
    <3>5. Breaks(next.chars) = Breaks(now.chars)
      BY <2>12, <3>2, <3>3
    <3>6. starts = Breaks(now.chars) + 1
      BY <2>6, <2>7, <2>8, <2>9, <2>12, <3>3
    <3>7. QED
      BY <2>14, <3>2, <3>3, <3>4, <3>5, <3>6
  <2>15. CASE char \in LineBreaks /\ char = LF /\ now.cr
    <3>1. next = Plain(now.chars, FALSE)
      BY <2>4, <2>15 DEF NormaliseChar
    <3>2. next.chars = now.chars /\ next.cr = FALSE
      BY <3>1 DEF Plain
    <3>3. n # 0 /\ content[n] = CR /\ content[n] \in LineBreaks /\ char # CR
      BY <2>9, <2>15, LineBreakFacts
    <3>4. starts = Breaks(now.chars)
      BY <2>6, <2>7, <2>8, <2>9, <2>12, <2>15, <3>3
    <3>5. QED
      BY <2>9, <2>12, <2>15, <3>2, <3>3, <3>4
  <2>16. CASE char \in LineBreaks /\ ~(char = LF /\ now.cr)
    <3>1. next = Plain(Append(now.chars, LF), char = CR)
      BY <2>4, <2>16 DEF NormaliseChar
    <3>2. next.chars = Append(now.chars, LF) /\ next.cr = (char = CR)
      BY <3>1 DEF Plain
    <3>3. next.chars # <<>> /\ ~Open(next.chars)
      BY <2>10, <2>11, <3>2, LineBreakFacts
    <3>4. Breaks(next.chars) = Breaks(now.chars) + 1
      BY <2>12, <3>2, LineBreakFacts
    <3>5. starts = Breaks(now.chars) + 1
      BY <2>6, <2>7, <2>8, <2>9, <2>12, <2>16
    <3>6. starts = Breaks(next.chars) + (IF Open(next.chars) THEN 1 ELSE 0)
      BY <2>12, <3>3, <3>4, <3>5
    <3>7. next.cr <=> char = CR
      BY <3>2
    <3>8. QED
      BY <2>16, <3>3, <3>6, <3>7
  <2>17. QED
    BY <2>14, <2>15, <2>16
<1> HIDE DEF T
<1>6. \A n \in 0..Len(content) : n \in T
  BY <1>3, <1>4, <1>5, UpTo
<1>7. QED
  BY <1>1, <1>6 DEF T

-----------------------------------------------------------------------------
(* The extractor on every blob.                                            *)

\* A blob is a sequence of bytes, and there is a cap.
BlobInv == blob \in Seq(Byte) /\ limit \in Nat \ {0}

\* The blob keeps its type.
LEMMA BlobInductive == Spec => []BlobInv
<1>1. Init => BlobInv
  BY MaxLengthAssumption DEF Init, BlobInv
<1>2. BlobInv /\ [Grow]_vars => BlobInv'
  <2> SUFFICES ASSUME BlobInv, [Grow]_vars PROVE BlobInv'
    OBVIOUS
  <2>1. CASE Grow
    <3>1. PICK byte \in Bytes : blob' = Append(blob, byte)
      BY <2>1 DEF Grow
    <3>2. byte \in Byte
      BY BytesAssumption DEF Byte
    <3>3. limit' = limit
      BY <2>1 DEF Grow
    <3>4. QED
      BY <3>1, <3>2, <3>3 DEF BlobInv
  <2>2. CASE UNCHANGED vars
    BY <2>2 DEF BlobInv, vars
  <2>3. QED
    BY <2>1, <2>2
<1>3. QED
  BY <1>1, <1>2, PTL DEF Spec

\* What was read is the beginning of the blob, up to the cap.
LEMMA CappedReadFacts ==
  ASSUME BlobInv
  PROVE  \E k \in 0..Len(blob) :
           /\ k <= limit
           /\ k < Len(blob) => k = limit
           /\ CappedRead(blob, limit) = SubSeq(blob, 1, k)
           /\ Capped = Decoding(blob)[k].chars
<1>1. blob \in Seq(Byte) /\ limit \in Nat /\ Len(blob) \in Nat
  BY DEF BlobInv
<1>2. PICK k : k = (IF limit < Len(blob) THEN limit ELSE Len(blob))
  OBVIOUS
<1>3. k \in 0..Len(blob) /\ k <= limit /\ (k < Len(blob) => k = limit)
  BY <1>1, <1>2
<1>4. CappedRead(blob, limit) = SubSeq(blob, 1, k)
  BY <1>2 DEF CappedRead
<1>5. Capped = Decoding(blob)[k].chars
  BY <1>1, <1>3, <1>4, DecodingOfPrefix DEF Capped
<1>6. QED
  BY <1>3, <1>4, <1>5

\* What was decoded is a text, no longer than the cap.
LEMMA CappedFacts ==
  ASSUME BlobInv
  PROVE  /\ Capped \in Seq(Nat)
         /\ Len(Capped) \in Nat
         /\ Len(Capped) <= limit
         /\ TextMetadata(blob, limit).char_count = Len(Capped)
         /\ TextMetadata(blob, limit).line_count = Cardinality(Starts(Capped, Len(Capped)))
<1>1. PICK k \in 0..Len(blob) : k <= limit /\ Capped = Decoding(blob)[k].chars
  BY CappedReadFacts
<1>2. blob \in Seq(Byte) /\ limit \in Nat /\ Len(blob) \in Nat
  BY DEF BlobInv
<1>3. Capped \in Seq(Nat)
  BY <1>1, <1>2, DecodedSteps
<1>4. Len(Capped) <= k
  BY <1>1, <1>2, DecodedGrows
<1>5. PICK text : text = Capped
  OBVIOUS
<1>6. text \in Seq(Nat) /\ Len(text) \in Nat /\ DOMAIN text = 1..Len(text)
  BY <1>3, <1>5
<1>7. /\ TextMetadata(blob, limit).char_count = Len(text)
      /\ TextMetadata(blob, limit).line_count = LineCount(text)
  BY <1>5 DEF TextMetadata, Capped
<1>8. LineCount(text) = Cardinality(Starts(text, Len(text)))
  BY <1>6, Zenon DEF LineCount, Starts
<1>9. Len(text) <= limit
  BY <1>1, <1>2, <1>4, <1>5, <1>6
<1>10. QED
  BY <1>5, <1>6, <1>7, <1>8, <1>9

\* The counts agree with each other and with the cap, for every blob of every
\* length: invariant CountsOK.
THEOREM CountsAreConsistent == Spec => []CountsOK
<1>1. BlobInv => CountsOK
  <2> SUFFICES ASSUME BlobInv PROVE CountsOK
    OBVIOUS
  <2>1. limit \in Nat
    BY DEF BlobInv
  <2>2. PICK metadata : metadata = TextMetadata(blob, limit)
    OBVIOUS
  <2>3. /\ metadata.char_count \in Nat
        /\ metadata.char_count <= limit
        /\ metadata.line_count = Cardinality(Starts(Capped, metadata.char_count))
    BY <2>2, CappedFacts
  <2>4. /\ metadata.line_count \in 0..metadata.char_count
        /\ metadata.line_count = 0 <=> metadata.char_count = 0
    BY <2>3, StartsCount
  <2>5. metadata.char_count \in 0..limit
    BY <2>1, <2>3
  <2>6. \A pages \in Pages : PdfMetadata(pages).approx_page_count \in Nat \ {0}
    BY DEF Pages, PdfMetadata
  <2>7. QED
    BY <2>2, <2>4, <2>5, <2>6 DEF CountsOK
<1>2. QED
  BY <1>1, BlobInductive, PTL

\* No cap splits a character or loses one that was read as a whole: invariant
\* CutKeepsWholeCharacters.
THEOREM CutsKeepWholeCharacters == Spec => []CutKeepsWholeCharacters
<1>1. BlobInv => CutKeepsWholeCharacters
  <2> SUFFICES ASSUME BlobInv PROVE CutKeepsWholeCharacters
    OBVIOUS
  <2>1. PICK k \in 0..Len(blob) :
          /\ k < Len(blob) => k = limit
          /\ Capped = Decoding(blob)[k].chars
    BY CappedReadFacts
  <2>2. blob \in Seq(Byte) /\ Len(blob) \in Nat /\ limit \in Nat
    BY DEF BlobInv
  <2>3. Whole = Decoding(blob)[Len(blob)].chars
    BY DEF Whole, Decode
  <2>4. Prefix(Capped, Whole)
    <3>1. Len(blob) \in 0..Len(blob) /\ k \in 0..Len(blob)
      BY <2>2
    <3>2. QED
      BY <2>1, <2>2, <2>3, <3>1, DecodedGrows
  <2>5. ASSUME EncodedLength(Whole) = Len(blob), Len(Capped) < Len(Whole)
        PROVE  EncodedLength(SubSeq(Whole, 1, Len(Capped) + 1)) > limit
    <3>1. PICK kept : kept = Capped
      OBVIOUS
    <3>2. k # Len(blob)
      BY <2>1, <2>3, <2>5, CappedFacts
    <3>3. k = limit
      BY <2>1, <2>2, <3>2
    <3>4. Len(kept) \in Nat /\ Len(Whole) > Len(kept)
      <4>1. blob \in Seq(Byte) /\ Len(blob) \in 0..Len(blob)
        BY <2>2
      <4>2. Whole \in Seq(Nat)
        BY <2>3, <4>1, DecodedSteps
      <4>3. QED
        BY <2>5, <3>1, <4>2, CappedFacts
    <3>5. Len(blob) \in k..Len(blob)
      BY <2>2
    <3>6. EncodedLength(Decode(blob)) = Len(blob)
      BY <2>5 DEF Whole
    <3>7. EncodedLength(SubSeq(Whole, 1, Len(kept) + 1)) > k
      BY <2>1, <2>2, <2>3, <3>1, <3>4, <3>5, <3>6, NextEndsLater
    <3>8. QED
      BY <3>1, <3>3, <3>7
  <2>6. QED
    BY <2>4, <2>5 DEF CutKeepsWholeCharacters, Prefix
<1>2. QED
  BY <1>1, BlobInductive, PTL

\* Lines of any mixture of breaks are those of the plain text: invariant
\* LinesAsInPlainText.
THEOREM LinesAreThoseOfPlainText == Spec => []LinesAsInPlainText
<1>1. BlobInv => LinesAsInPlainText
  <2> SUFFICES ASSUME BlobInv PROVE LinesAsInPlainText
    OBVIOUS
  <2>1. PICK text : text = Capped
    OBVIOUS
  <2>2. text \in Seq(Nat) /\ Len(text) \in 0..Len(text)
    BY <2>1, CappedFacts
  <2>3. TextMetadata(blob, limit).line_count = Cardinality(Starts(text, Len(text)))
    BY <2>1, CappedFacts
  <2>4. PICK plain : plain = Normalised(text)
    OBVIOUS
  <2>5. plain = Normalising(text)[Len(text)].chars
    BY <2>4 DEF Normalised
  <2>6. Cardinality(Starts(text, Len(text))) = Breaks(plain) + (IF Open(plain) THEN 1 ELSE 0)
    BY <2>2, <2>5, LinesUpTo
  <2>7. QED
    BY <2>1, <2>3, <2>4, <2>6 DEF LinesAsInPlainText, Open
<1>2. QED
  BY <1>1, BlobInductive, PTL

\* FileDomain has the keys that the extractor returns: invariant KeysAsInDomain.
THEOREM KeysAreThoseOfDomain == Spec => []KeysAsInDomain
<1>1. KeysAsInDomain
  <2> SUFFICES ASSUME NEW extension \in Extensions, NEW mime \in Mimes
               PROVE  DOMAIN Extract(extension, Len(blob), mime, blob, 1, limit)
                        = Domain!Extract([ext |-> IF extension = "pdf" THEN "pdf" ELSE "other",
                                          mime |-> mime, size |-> Len(blob)])
    BY DEF KeysAsInDomain
  <2> DEFINE file == FileMetadata(extension, Len(blob), mime)
             text == TextMetadata(blob, limit)
             pdf == PdfMetadata(1)
  <2>1. /\ DOMAIN file = {"extension", "size_bytes", "mime_type"}
        /\ DOMAIN text = {"line_count", "char_count"}
        /\ DOMAIN pdf = {"approx_page_count"}
    BY DEF FileMetadata, TextMetadata, PdfMetadata
  <2> HIDE DEF file, text, pdf
  <2>2. DOMAIN Updated(file, text) = DOMAIN file \cup DOMAIN text
    BY DEF Updated
  <2>3. DOMAIN Updated(file, pdf) = DOMAIN file \cup DOMAIN pdf
    BY DEF Updated
  <2>4. CASE mime = "text"
    <3>1. Extract(extension, Len(blob), mime, blob, 1, limit) = Updated(file, text)
      BY <2>4 DEF Extract, file, text
    <3>2. QED
      BY <2>1, <2>2, <2>4, <3>1 DEF Domain!Extract
  <2>5. CASE mime = "pdf"
    <3>1. Extract(extension, Len(blob), mime, blob, 1, limit) = Updated(file, pdf)
      BY <2>5 DEF Extract, file, pdf
    <3>2. QED
      BY <2>1, <2>3, <2>5, <3>1 DEF Domain!Extract
  <2>6. CASE mime = "other"
    <3>1. Extract(extension, Len(blob), mime, blob, 1, limit) = file
      BY <2>6 DEF Extract, file
    <3>2. QED
      BY <2>1, <2>6, <3>1 DEF Domain!Extract
  <2>7. QED
    BY <2>4, <2>5, <2>6 DEF Mimes
<1>2. QED
  BY <1>1, PTL
=============================================================================
