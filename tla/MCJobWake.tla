----------------------------- MODULE MCJobWake ------------------------------
(***************************************************************************)
(* JobQueue with a history of what each loop could have been woken for.    *)
(***************************************************************************)
EXTENDS MCJobQueue

VARIABLE heard  \* heard[w]: jobs announced in w's process since it last cleared the event

WakeSpec ==
  /\ Init /\ heard = [w \in Workers |-> {}]
  /\ [][/\ Next
        /\ heard' = [w \in Workers |->
                       IF pc[w] = "top" /\ pc'[w] = "look" THEN {}
                       ELSE heard[w] \cup (announce[ProcOf[w]] \ announce'[ProcOf[w]])]]_<<vars, heard>>

\* A due job that no loop of process p runs or is about to look for.
Unattended(j, p) ==
  /\ j \in Heads /\ jobs[j].due /\ locks[jobs[j].user] = NoWorker
  /\ \A w \in LoopsOf(p) : pc[w] \in {"asleep", "handle"}

\* "a job committed while we look still wakes us": a loop is not left asleep over a
\* job that was announced in its process since it began to look, while the other
\* loops are busy with other users.
CommitWakesLoop ==
  \A w \in Workers : pc[w] = "asleep" => \A j \in heard[w] : ~Unattended(j, ProcOf[w])
=============================================================================
