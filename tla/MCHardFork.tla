----------------------------- MODULE MCHardFork -----------------------------
(* Registered forks for the model-checking runs of HardFork.               *)
EXTENDS HardFork

F(v, h, p) == [version |-> v, height |-> h, threshold |-> p]

(* Voting disabled, as in every table of hardforks.cpp; the second release *)
(* adds a fork, possibly below the height the first one has reached.       *)
ScheduledReleases == << <<F(1, 1, 0), F(2, 3, 0)>>, <<F(1, 1, 0), F(2, 3, 0), F(3, 4, 0)>> >>

(* Voting enabled: a simple majority, then unanimity.                      *)
VotingReleases == << <<F(1, 1, 0), F(2, 2, 50), F(3, 3, 100)>> >>
=============================================================================
