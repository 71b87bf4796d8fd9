------------------------- MODULE MC_ColumnProgress -------------------------
EXTENDS ColumnProgress

CONSTANTS r1, r2, r3

MCReaders == {r1, r2, r3}

(* A chunk that divides the column, one that does not, and one larger     *)
(* than the column.                                                        *)
MCReaderChunk == [r \in MCReaders |-> CASE r = r1 -> 2 [] r = r2 -> 3 [] r = r3 -> 8]
====
