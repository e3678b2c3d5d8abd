------------------------------ MODULE MCSession ------------------------------
(***************************************************************************)
(* Two digits for Session, the second of which tells a length of two bytes *)
(* from one.                                                               *)
(***************************************************************************)
EXTENDS Session

MCDigit == [ch \in {"1", "2"} |-> IF ch = "1" THEN 1 ELSE 2]

MCFileName == <<"1">>
=============================================================================
