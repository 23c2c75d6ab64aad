------------------------- MODULE MCSchemaMigrations -------------------------
(***************************************************************************)
(* SchemaMigrations for TLC: three sessions, so that one can hold a table, *)
(* one wait for it and one come later; one file.                           *)
(***************************************************************************)
EXTENDS SchemaMigrations

CONSTANTS s1, s2, s3, f1

ThreeSessions == {s1, s2, s3}
OneFile == {f1}
=============================================================================
