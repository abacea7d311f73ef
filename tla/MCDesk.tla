------------------------------- MODULE MCDesk -------------------------------
(***************************************************************************)
(* Desk with two customers.  The bank's "chidi okafor" could be chidi      *)
(* only; "c okafor" could be nobody until the trader says.                 *)
(***************************************************************************)
EXTENDS Desk

CONSTANTS chidi, mama, okafor, cokafor, t1, t2, n1

MCBank == [t \in Texts |-> IF t = t2 THEN cokafor ELSE okafor]
MCAmount == [t \in Texts |-> 1]
MCNames == {<<chidi, okafor>>}
MCContacts == [p \in Parties |-> IF p = chidi THEN n1 ELSE NoPhone]
=============================================================================
