----------------------------- MODULE MCJobQueue -----------------------------
(***************************************************************************)
(* JobQueue on a few traders, loops and jobs.                              *)
(***************************************************************************)
EXTENDS JobQueue, TLC

CONSTANTS w1, w2, p1, p2

TwoProcesses == w1 :> p1 @@ w2 :> p2
OneProcess == w1 :> p1 @@ w2 :> p1
OneLoop == w1 :> p1

TradersAreAlike == Permutations(Users)

\* Changes are made one after the other.
OneChangeAtATime == \A p \in Procs : Cardinality(open[p] \cup announce[p]) <= 1

\* "Users whose oldest pending job is due, oldest first": a lookup comes back
\* empty only when there is no such user.
LookFindsDueUser ==
  [][\A w \in Workers :
       pc[w] = "look" /\ pc'[w] = "scan" /\ (\E j \in Heads : jobs[j].due) => found'[w] # {}]_vars
=============================================================================
