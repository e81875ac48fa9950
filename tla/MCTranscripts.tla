--------------------------- MODULE MCTranscripts ---------------------------
(* TLC instances of Transcripts: content b is long enough for two chunks.   *)
EXTENDS Transcripts

CONSTANTS w, cli, a, b

MCChunks == [c \in Contents |-> IF c = b THEN 2 ELSE 1]
=============================================================================
