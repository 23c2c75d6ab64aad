-------------------------- MODULE MetadataExtractor --------------------------
(***************************************************************************)
(* What the worker's extractor reports about a blob: the capped read, the  *)
(* UTF-8 decoding that ignores errors, the lines and characters of what is *)
(* left, and the page count of a PDF.  A byte is a number, a decoded       *)
(* character its code point.  Pure operators: the worker calls extract     *)
(* once, on a blob that nobody writes any more.                            *)
(***************************************************************************)
EXTENDS Integers, Sequences, FiniteSets

CONSTANT Malformed  \* what pypdf makes of a blob when it raises PdfReadError

ASSUME MalformedAssumption == Malformed \notin Nat

-----------------------------------------------------------------------------
(* bytes.decode("utf-8", errors="ignore"), one byte after the other.  Of   *)
(* an unfinished character the decoder keeps the code so far, the number   *)
(* of bytes that are left and the range of the next one.                   *)

Fresh(chars) == [chars |-> chars, left |-> 0, code |-> 0, low |-> 128, high |-> 191]
Partial(chars, left, code, low, high) ==
  [chars |-> chars, left |-> left, code |-> code, low |-> low, high |-> high]

\* A byte where a character begins.  Overlong forms, surrogates and codes
\* beyond U+10FFFF are excluded by the range of the second byte.
LeadByte(chars, byte) ==
  IF byte < 128 THEN Fresh(Append(chars, byte))
  ELSE IF byte \in 194..223 THEN Partial(chars, 1, byte - 192, 128, 191)
  ELSE IF byte \in 224..239 THEN Partial(chars, 2, byte - 224,
                                         IF byte = 224 THEN 160 ELSE 128,
                                         IF byte = 237 THEN 159 ELSE 191)
  ELSE IF byte \in 240..244 THEN Partial(chars, 3, byte - 240,
                                         IF byte = 240 THEN 144 ELSE 128,
                                         IF byte = 244 THEN 143 ELSE 191)
  ELSE Fresh(chars)

\* A byte that does not go on with the character begins the next one; what
\* there was of the old one is ignored.
GoesOn(text, byte) == text.left > 0 /\ byte \in text.low..text.high
NextCode(text, byte) == 64 * text.code + byte - 128
DecodeByte(text, byte) ==
  IF ~GoesOn(text, byte) THEN LeadByte(text.chars, byte)
  ELSE IF text.left = 1 THEN Fresh(Append(text.chars, NextCode(text, byte)))
  ELSE Partial(text.chars, text.left - 1, NextCode(text, byte), 128, 191)

\* The decoder after each number of bytes.
Decoding(raw) ==
  LET text[n \in 0..Len(raw)] ==
        IF n = 0 THEN Fresh(<<>>) ELSE DecodeByte(text[n - 1], raw[n])
  IN  text

\* Mutant of Decode: errors="replace".
DecodeReplacing(raw) ==
  LET text == Decoding(raw)[Len(raw)]
  IN  IF text.left > 0 THEN Append(text.chars, 65533) ELSE text.chars

\* A character that the end of the bytes cuts off is ignored as well.
Decode(raw) == Decoding(raw)[Len(raw)].chars

-----------------------------------------------------------------------------
(* str.splitlines.                                                         *)

CR == 13
LF == 10
LineBreaks == {LF, 11, 12, CR, 28, 29, 30, 133, 8232, 8233}

\* Mutant of StartsLine: CR LF taken for two breaks.
StartsLineAfterAny(content, i) == i = 1 \/ content[i - 1] \in LineBreaks

\* A line starts with the text and after every break; CR LF is one break, and
\* a break at the end of the text starts nothing.
StartsLine(content, i) ==
  \/ i = 1
  \/ /\ content[i - 1] \in LineBreaks
     /\ ~(content[i - 1] = CR /\ content[i] = LF)

LineCount(content) == Cardinality({i \in DOMAIN content : StartsLine(content, i)})

-----------------------------------------------------------------------------
(* MetadataExtractor.                                                      *)

\* Mutant of CappedRead: the whole file.
UncappedRead(blob, limit) == blob

CappedRead(blob, limit) == SubSeq(blob, 1, IF limit < Len(blob) THEN limit ELSE Len(blob))

TextMetadata(blob, limit) ==
  LET content == Decode(CappedRead(blob, limit))
  IN  [line_count |-> LineCount(content), char_count |-> Len(content)]

\* pages is what pypdf counts.  Any exception but PdfReadError leaves extract,
\* which FileExchange has as a fault of its extraction.
PdfMetadata(pages) ==
  [approx_page_count |-> IF pages = Malformed \/ pages = 0 THEN 1 ELSE pages]

FileMetadata(extension, size, mime) ==
  [extension |-> extension, size_bytes |-> size, mime_type |-> mime]

\* dict.update.
Updated(dict, extra) ==
  [key \in DOMAIN dict \cup DOMAIN extra |->
     IF key \in DOMAIN extra THEN extra[key] ELSE dict[key]]

\* Mutant of Extract: the kind of a file taken from its suffix.
ExtractBySuffix(extension, size, mime, blob, pages, limit) ==
  LET metadata == FileMetadata(extension, size, mime) IN
  CASE extension = "pdf" -> Updated(metadata, PdfMetadata(pages))
    [] extension = "txt" -> Updated(metadata, TextMetadata(blob, limit))
    [] OTHER             -> metadata

\* mime is the class of the stored mime type: text/*, application/pdf, other.
Extract(extension, size, mime, blob, pages, limit) ==
  LET metadata == FileMetadata(extension, size, mime) IN
  CASE mime = "text" -> Updated(metadata, TextMetadata(blob, limit))
    [] mime = "pdf"  -> Updated(metadata, PdfMetadata(pages))
    [] OTHER         -> metadata
=============================================================================
