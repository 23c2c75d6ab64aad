--------------------- MODULE MetadataExtractorProperties ---------------------
(***************************************************************************)
(* What the extractor promises, of every blob of up to MaxLength bytes     *)
(* under every cap up to MaxLength.  A step of the specification makes the *)
(* blob one byte longer.                                                   *)
(***************************************************************************)
EXTENDS MetadataExtractor

CONSTANTS Bytes, MaxLength

ASSUME BytesAssumption == Bytes \subseteq 0..255

ASSUME MaxLengthAssumption == MaxLength \in Nat

VARIABLES blob, limit

Init == blob = <<>> /\ limit \in 1..MaxLength

Grow ==
  /\ Len(blob) < MaxLength
  /\ \E byte \in Bytes : blob' = Append(blob, byte)
  /\ UNCHANGED limit

vars == <<blob, limit>>

Spec == Init /\ [][Grow]_vars

Extensions == {"txt", "pdf", "other"}
Mimes == {"text", "pdf", "other"}
Pages == {Malformed, 0, 3}

Whole == Decode(blob)
Capped == Decode(CappedRead(blob, limit))

-----------------------------------------------------------------------------
(* Reference definitions.                                                  *)

\* How many bytes UTF-8 needs for a text.
Width(char) == IF char < 128 THEN 1 ELSE IF char < 2048 THEN 2 ELSE IF char < 65536 THEN 3 ELSE 4
EncodedLengths(content) ==
  LET bytes[n \in 0..Len(content)] ==
        IF n = 0 THEN 0 ELSE bytes[n - 1] + Width(content[n])
  IN  bytes
EncodedLength(content) == EncodedLengths(content)[Len(content)]

\* Breaks of every kind made into LF, as text mode would.
Plain(chars, cr) == [chars |-> chars, cr |-> cr]
NormaliseChar(text, char) ==
  IF char \notin LineBreaks THEN Plain(Append(text.chars, char), FALSE)
  ELSE IF char = LF /\ text.cr THEN Plain(text.chars, FALSE)
  ELSE Plain(Append(text.chars, LF), char = CR)
Normalising(content) ==
  LET text[n \in 0..Len(content)] ==
        IF n = 0 THEN Plain(<<>>, FALSE) ELSE NormaliseChar(text[n - 1], content[n])
  IN  text
Normalised(content) == Normalising(content)[Len(content)].chars

Breaks(content) == Cardinality({i \in DOMAIN content : content[i] = LF})

-----------------------------------------------------------------------------
(* Properties.                                                             *)

\* _text_metadata counts what was read: no more characters than bytes, no
\* more lines than characters, at least one line if there is a character, and
\* at least one page whatever pypdf says.
CountsOK ==
  /\ LET text == TextMetadata(blob, limit) IN
       /\ text.char_count \in 0..limit
       /\ text.line_count \in 0..text.char_count
       /\ text.line_count = 0 <=> text.char_count = 0
  /\ \A pages \in Pages : PdfMetadata(pages).approx_page_count \in Nat \ {0}

\* The cap may fall inside a character.  Decoding what was read yields a prefix
\* of the characters of the whole blob, whatever bytes it has; and if all of
\* them are text, the longest prefix the cap leaves room for.
CutKeepsWholeCharacters ==
  /\ Len(Capped) <= Len(Whole) /\ Capped = SubSeq(Whole, 1, Len(Capped))
  /\ EncodedLength(Whole) = Len(blob) /\ Len(Capped) < Len(Whole) =>
       EncodedLength(SubSeq(Whole, 1, Len(Capped) + 1)) > limit

\* line_count is that of the same text with plain LF breaks, where the last
\* line counts with or without a break of its own.
LinesAsInPlainText ==
  LET plain == Normalised(Capped) IN
  TextMetadata(blob, limit).line_count =
    Breaks(plain) + (IF plain # <<>> /\ plain[Len(plain)] # LF THEN 1 ELSE 0)

\* The abstraction of FileDomain: its classes of uploads decide which keys the
\* metadata has.
Domain == INSTANCE FileDomain
            WITH Titles <- {}, LongTitles <- {}, Uploads <- {},
                 MaxSafeSize <- MaxLength, IntMax <- MaxLength

KeysAsInDomain ==
  \A extension \in Extensions, mime \in Mimes :
    DOMAIN Extract(extension, Len(blob), mime, blob, 1, limit)
      = Domain!Extract([ext |-> IF extension = "pdf" THEN "pdf" ELSE "other",
                        mime |-> mime, size |-> Len(blob)])
=============================================================================
