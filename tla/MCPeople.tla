------------------------------ MODULE MCPeople ------------------------------
(***************************************************************************)
(* Two customers, and a name that sounds like one of them.                 *)
(***************************************************************************)
EXTENDS People

CONSTANTS mama_chidi, mama_c, emeka, usual

MCNames == {mama_chidi, mama_c, emeka}
MCKnown == {mama_chidi, emeka}
MCAliases == {mama_c}
MCResembles == {<<mama_c, mama_chidi>>}
MCWithin == {<<mama_c, mama_chidi>>}
MCMessages == {{mama_c}, {mama_chidi}, {mama_c, mama_chidi}}
MCWords == [n \in MCNames |-> CASE n = mama_chidi -> {"chidi"} [] n = mama_c -> {"c"} [] OTHER -> {"emeka"}]
MCKinds == {"usual_order"}
MCContents == {usual}
=============================================================================
