------------------------------- MODULE MCKnot -------------------------------
(***************************************************************************)
(* Model values for the runs of Knot, and a second initial state: alice    *)
(* has initialised the knot and made a repository, which Spec reaches by   *)
(* one InitKnot and one NewRepo.                                           *)
(***************************************************************************)
EXTENDS Knot, TLC

CONSTANTS alice, bob, core, glob

\* glob stands for "[c]ore", which matches core and not itself
KnotMatches == {<<core, core>>, <<glob, core>>} \cap (RepoNames \X RepoNames)

HttpSymmetry == Permutations(Http)

FoundedInit ==
    /\ known = {alice}
    /\ keys = {alice}
    /\ policy = AddRepo(AddOwner(AddDomain(EmptyPolicy, ThisServer), ThisServer, alice),
                        alice, ThisServer, <<alice, core>>)
    /\ dirs = {<<alice, core>>}
    /\ knotInitialized = FALSE
    /\ initClosed = TRUE
    /\ wanted = {alice}
    /\ subscribed = {}
    /\ pc = [t \in Processes |-> "idle"]
    /\ req = [t \in Processes |-> None]
    /\ appointed = {alice}
    /\ enlisted = {}
    /\ invited = {}
    /\ broken = {}

\* bound: the only one that requests make owner, member or collaborator is bob; his
\* own glob is in no request, and that of alice is not made
FewRepos ==
    \A t \in Processes : req[t] # None =>
        /\ req[t].repo # <<bob, glob>>
        /\ req[t].op \in {"Init", "AddMember", "AddRepoCollaborator"} => req[t].who = bob
        /\ req[t].repo = <<alice, glob>> => req[t].op # "NewRepo"

FoundedSpec == FoundedInit /\ [][Next]_vars
=============================================================================
