--------------------------- MODULE MCApplyPatches ---------------------------
(* Segment 0 is the file's header, at offset 0; 1 is code, and its last byte *)
(* is not in the file, where segment 2 follows; 2 ends behind the file, and  *)
(* its index is that of the box.                                             *)
EXTENDS ApplyPatches

MCOffset == [s \in Segs |-> s]
MCSize   == [s \in Segs |-> IF s = 0 THEN 1 ELSE 2]
MCStored == [s \in Segs |-> 1]
MCEditable == {<<1, 0>>}
=============================================================================
