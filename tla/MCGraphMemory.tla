--------------------------- MODULE MCGraphMemory ---------------------------
(* GraphMemory on a debt, two people and a few days. *)
EXTENDS GraphMemory, TLC

PeopleAreAlike == Permutations(Parties)
=============================================================================
