----------------------------- MODULE MCFactions -----------------------------
\* Factions, hands and commands under way are interchangeable; the members are not,
\* as one of them votes. Every property of the run is a safety property.
EXTENDS Factions, TLC

Symmetric == Permutations(Factions) \cup Permutations(Hands) \cup Permutations(Tasks)
=============================================================================
