--------------------------- MODULE MCRtcmSplitter ---------------------------
(* Bytes 0, 1 and the preamble 2; the header is the preamble and a length, *)
(* the checksum one byte, the sum of the others modulo 3.                  *)
EXTENDS RtcmSplitter, SequencesExt

MCPayloadLen(h) == h[2]
MCCrcOk(f)      == f[Len(f)] = FoldLeft(+, 0, Front(f)) % 3
=============================================================================
