------------------------------ MODULE MCIssues ------------------------------
(* Model values for the runs of Issues: alice owns both repositories. *)
EXTENDS Issues, TLC

CONSTANTS alice, bob, core, docs

AliceOwns == [r \in Repos |-> alice]

BobHelps == {<<core, bob>>}

RequestSymmetry == Permutations(Requests)
=============================================================================
