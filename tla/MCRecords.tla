----------------------------- MODULE MCRecords -----------------------------
(* Model values for Records: a user who may follow another and star, and a *)
(* listed repository of the user's own.                                    *)
EXTENDS Records

CONSTANTS alice, bob, core, k1, x1

AliceOwns == [r \in Repos |-> alice]
=============================================================================
