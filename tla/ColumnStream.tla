--------------------------- MODULE ColumnStream ---------------------------
(***************************************************************************)
(* What a streamed Column promises its readers (spec 4.1 and 4.6):        *)
(* the producer makes a growing prefix of the column's N elements          *)
(* available, never takes it back, and every reader consumes the column    *)
(* front to back, never past the available prefix, until it has read all   *)
(* of it.                                                                  *)
(***************************************************************************)
EXTENDS Naturals

CONSTANTS
    N,        \* elements of the column
    Readers   \* operators reading the column

VARIABLES
    avail,     \* elements made available so far
    consumed   \* consumed[r]: elements reader r has read

vars == <<avail, consumed>>

Init ==
    /\ avail = 0
    /\ consumed = [r \in Readers |-> 0]

(* The producer makes more of the column available.                        *)
Produce ==
    /\ avail < N
    /\ \E k \in avail + 1..N : avail' = k
    /\ UNCHANGED consumed

(* Reader r reads the next elements, up to the available prefix.           *)
Read(r) ==
    /\ consumed[r] < avail
    /\ \E k \in consumed[r] + 1..avail : consumed' = [consumed EXCEPT ![r] = k]
    /\ UNCHANGED avail

Next == Produce \/ \E r \in Readers : Read(r)

SafetySpec == Init /\ [][Next]_vars

(* Every reader that can read eventually does.                             *)
Spec == SafetySpec /\ WF_vars(Produce) /\ \A r \in Readers : WF_vars(Read(r))
====
