----------------------------- MODULE MCUartLink -----------------------------
(* UartLink with two rows per half, for TLC: the left half has a key in    *)
(* each row, in different columns, or none; the right half holds two keys. *)
EXTENDS UartLinkProperties

SomeKeys == [r \in Rows |-> IF r = 0 THEN {7} ELSE {1, 6}]
MCKeyStates == [h \in Halves |-> IF h = "left" THEN {SomeKeys, Blank} ELSE {SomeKeys}]

\* A bound: one fault in a behaviour, of any kind.  None is ever due.
OneFault == spent.lost + spent.late + spent.error <= 1
=============================================================================
