------------------------- MODULE MCMetadataExtractor -------------------------
(* The bytes of MetadataExtractorProperties for TLC. *)
EXTENDS MetadataExtractorProperties

\* Breaks, a letter, continuation bytes and the leads of two, three and four
\* bytes.  226 128 168 is the line separator U+2028, 194 128 and 240 168 128
\* 128 are characters, and 237 168 would begin a surrogate.
MCBytes == {LF, CR, 97, 128, 168, 194, 226, 237, 240}
=============================================================================
