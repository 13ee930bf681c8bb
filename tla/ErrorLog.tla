------------------------------ MODULE ErrorLog ------------------------------
(***************************************************************************)
(* What the error queue of an SCPI client promises: errors come back in    *)
(* the order they happened, and when there is no room for one more the     *)
(* newest entry gives way to the overflow mark, so that a reader learns    *)
(* where errors are missing.                                               *)
(***************************************************************************)
EXTENDS Integers, Sequences

CONSTANTS
    Errors,    \* the codes commands push
    Overflow,  \* the mark of lost errors
    Size       \* entries the queue holds

VARIABLE log

Init == log = << >>

Push(e) == log' = IF Len(log) < Size THEN Append(log, e) ELSE [log EXCEPT ![Size] = Overflow]
Pop     == log # << >> /\ log' = Tail(log)
Clear   == log' = << >>

Next == Pop \/ Clear \/ \E e \in Errors : Push(e)

Spec == Init /\ [][Next]_log
=============================================================================
