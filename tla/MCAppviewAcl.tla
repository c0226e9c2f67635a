---------------------------- MODULE MCAppviewAcl ----------------------------
(***************************************************************************)
(* Model values for the runs of AppviewAcl, and a second initial state for *)
(* the concurrent ones: the knots in Founded are registered already, by    *)
(* alice, with their policy saved and loaded.  Spec reaches this state by  *)
(* one RegistrationKey and one InitKnotServer for each of them.            *)
(***************************************************************************)
EXTENDS AppviewAcl, FiniteSetsExt, TLC

CONSTANTS alice, bob, knot1, knot2, Founded

\* names without a pattern character match themselves
OwnName == {<<n, n>> : n \in RepoNames}

\* ... "[c]ore" matches core and not itself
Patterns == {<<"core", "core">>, <<"[c]ore", "core">>}

RequestSymmetry == Permutations(Requests)

FoundedPolicy ==
    FoldSet(LAMBDA d, pol : AddOwner(AddDomain(pol, d), d, alice), EmptyPolicy, Founded)

FoundedInit ==
    /\ mem = FoundedPolicy
    /\ acl = FoundedPolicy
    /\ claimant = [d \in Domains |-> IF d \in Founded THEN alice ELSE None]
    /\ registered = Founded
    /\ rows = {}
    /\ collaborators = {}
    /\ writer = None
    /\ disk = {}
    /\ initialised = Founded
    /\ pc = [t \in Requests |-> "new"]
    /\ req = [t \in Requests |-> None]
    /\ buf = [t \in Requests |-> EmptyPolicy]
    /\ admissions = [by : {alice}, who : {alice}, role : {Owner}, dom : Founded]
    /\ invitations = {}
    /\ unsaved = {}
    /\ leftover = EmptyPolicy

FoundedSpec == FoundedInit /\ [][Next]_vars
=============================================================================
