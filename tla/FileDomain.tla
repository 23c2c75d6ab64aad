----------------------------- MODULE FileDomain -----------------------------
(***************************************************************************)
(* The data the service keeps about an upload and the pure rules that      *)
(* compute it: the scan rules, the metadata an extraction yields, the row  *)
(* a worker is about to commit and the alert it raises.  Nothing here has  *)
(* state; FileExchange applies these operators inside its transactions.    *)
(*                                                                         *)
(* Strings are abstracted to what the rules tell apart: an upload is the   *)
(* class of its lower-cased suffix, the class of its resolved mime type    *)
(* and its size; a joined list of scan reasons is the set of the reasons   *)
(* (the code appends them in a fixed order); a metadata document is the    *)
(* set of its keys.  The empty set stands for a NULL column.               *)
(***************************************************************************)
EXTENDS Integers

CONSTANTS
  Titles,        \* the titles clients send
  LongTitles,    \* those that do not fit the String(255) column
  Uploads,       \* the uploads clients send
  MaxSafeSize,   \* settings.suspicious_size_bytes
  IntMax         \* the largest value of the Integer column "size"

Upload == [ext : {"blocked", "pdf", "other"},
           mime : {"text", "pdf", "octet", "other"},
           size : Nat]

ASSUME UploadsAssumption == Uploads \subseteq Upload
ASSUME SizeAssumption == MaxSafeSize \in Nat /\ IntMax \in Nat

-----------------------------------------------------------------------------
(* Statuses and column types.                                              *)

ProcessingStatus == {"uploaded", "processing", "processed", "failed"}
ScanStatus == {"clean", "suspicious", "failed"}
AlertLevel == {"info", "warning", "critical"}

ScanReason == {"extension", "size", "pdf_mime"}
ScanDetail == ScanReason \cup {"no_threats", "missing"}
MetadataKey == {"extension", "size_bytes", "mime_type",
                "line_count", "char_count", "approx_page_count"}

\* A row of table "files".  After the insert the title is written by PATCH
\* and every other column by worker tasks.
Row == [title : Titles,
        upload : Uploads,
        processing_status : ProcessingStatus,
        scan_status : ScanStatus \cup {"null"},
        scan_details : SUBSET ScanDetail,
        metadata : SUBSET MetadataKey,
        requires_attention : BOOLEAN]

Alert == [level : AlertLevel, details : SUBSET ScanDetail]

\* The object create_file adds to its session.
NewRow(title, upload) ==
  [title |-> title, upload |-> upload, processing_status |-> "uploaded",
   scan_status |-> "null", scan_details |-> {}, metadata |-> {},
   requires_attention |-> FALSE]

\* Mutant of IsEmpty: the guard of a create_file that trusts the client.
NeverEmpty(upload) == upload.size < 0

IsEmpty(upload) == upload.size = 0

\* The values PostgreSQL accepts for the columns a client controls.
FitsColumns(file) ==
  file.upload.size <= IntMax /\ file.title \notin LongTitles

-----------------------------------------------------------------------------
(* The scan and what the worker makes of it.                               *)

Reasons(upload) ==
  {reason \in ScanReason :
     \/ reason = "extension" /\ upload.ext = "blocked"
     \/ reason = "size" /\ upload.size > MaxSafeSize
     \/ reason = "pdf_mime" /\ upload.ext = "pdf"
                            /\ upload.mime \notin {"pdf", "octet"}}

Scan(upload) ==
  IF Reasons(upload) # {}
    THEN [status |-> "suspicious", details |-> Reasons(upload),
          requires_attention |-> TRUE]
    ELSE [status |-> "clean", details |-> {"no_threats"},
          requires_attention |-> FALSE]

ApplyScan(file, result) ==
  [file EXCEPT !.scan_status = result.status,
               !.scan_details = result.details,
               !.requires_attention = result.requires_attention]

\* The extractor opens the blob for text and for PDF uploads only.
ReadsBlob(upload) == upload.mime \in {"text", "pdf"}

Extract(upload) ==
  {"extension", "size_bytes", "mime_type"}
    \cup (IF upload.mime = "text" THEN {"line_count", "char_count"} ELSE {})
    \cup (IF upload.mime = "pdf" THEN {"approx_page_count"} ELSE {})

\* Mutant of Failed: the status is forgotten.
FailedQuietly(file) ==
  [file EXCEPT !.scan_status = IF @ = "null" THEN "failed" ELSE @,
               !.scan_details = {"missing"}]

Failed(file) ==
  [file EXCEPT !.processing_status = "failed",
               !.scan_status = IF @ = "null" THEN "failed" ELSE @,
               !.scan_details = {"missing"}]

Processed(file) ==
  [file EXCEPT !.metadata = Extract(file.upload),
               !.processing_status = "processed"]

\* Mutant of Outcome: the scan applied last.
ScanLast(file, found) ==
  LET started == [file EXCEPT !.processing_status = "processing"]
  IN  ApplyScan(IF found THEN Processed(started) ELSE Failed(started),
                Scan(file.upload))

\* The worker's object when it reaches its commit; found is what
\* storage.exists answered.
Outcome(file, found) ==
  LET scanned == ApplyScan([file EXCEPT !.processing_status = "processing"],
                           Scan(file.upload))
  IN  IF found THEN Processed(scanned) ELSE Failed(scanned)

AlertFor(file) ==
  [level |-> IF file.processing_status = "failed" THEN "critical"
             ELSE IF file.requires_attention THEN "warning" ELSE "info",
   details |-> IF file.processing_status # "failed" /\ file.requires_attention
                 THEN file.scan_details ELSE {}]

-----------------------------------------------------------------------------
(* What an ORM flush writes: the columns whose value differs from the one  *)
(* the session loaded, over whatever the table holds by then.              *)

Pick(current, loaded, new) == IF new = loaded THEN current ELSE new

Merge(current, loaded, new) ==
  [title |-> Pick(current.title, loaded.title, new.title),
   upload |-> current.upload,
   processing_status |-> Pick(current.processing_status,
                              loaded.processing_status, new.processing_status),
   scan_status |-> Pick(current.scan_status, loaded.scan_status, new.scan_status),
   scan_details |-> Pick(current.scan_details,
                         loaded.scan_details, new.scan_details),
   metadata |-> Pick(current.metadata, loaded.metadata, new.metadata),
   requires_attention |-> Pick(current.requires_attention,
                               loaded.requires_attention, new.requires_attention)]
=============================================================================
