------------------------------ MODULE MCTurns ------------------------------
(* Turns with a web message and two WhatsApp messages of one trader. *)
EXTENDS Turns, TLC

CONSTANT ada

MCUsers == {ada}
MCMessages == 1 .. 3
MCSender == [m \in MCMessages |-> ada]
MCChannel == 1 :> "web" @@ 2 :> "whatsapp" @@ 3 :> "whatsapp"
=============================================================================
