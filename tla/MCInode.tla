------------------------------ MODULE MCInode ------------------------------
(* An instance of Inode for TLC: three threads and a file of two and a     *)
(* half sectors of two bytes, with requests for whole sectors, for parts   *)
(* of sectors around a whole one up to the end, and past the end.          *)
EXTENDS Inode

CONSTANTS t1, t2, t3

MCThreads == {t1, t2, t3}
MCBytes == {0, 1}
MCExtents == {<<0, 4>>, <<1, 5>>, <<5, 1>>}
=============================================================================
