------------------------------ MODULE MC_Framing ------------------------------
(* Two worker threads: w1 sends a (header only) and then b (a message    *)
(* exactly as large as the buffer), w2 sends d (one payload byte) and   *)
(* then c (larger than the buffer).                                         *)
(* Headers are 2 bytes and the buffer holds 4.                             *)
EXTENDS Framing, TLC

CONSTANTS w1, w2, a, b, c, d

MCSenders == {w1, w2}
MCWork    == (w1 :> <<a, b>>) @@ (w2 :> <<d, c>>)
MCPayload == (a :> 0) @@ (b :> 2) @@ (c :> 4) @@ (d :> 1)
====
