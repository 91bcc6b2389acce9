--------------------------- MODULE MCFirmwareUploads ---------------------------
(* One session of two chunks and the two files that claim it, one sent with its *)
(* fingerprint and one without.                                                 *)
EXTENDS FirmwareUploads

CONSTANTS f1, f2, q1, q2

MCSent == {<<f1, f1>>, <<f2, Unnamed>>}
================================================================================
