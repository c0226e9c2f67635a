-------------------------------- MODULE Rbac --------------------------------
(***************************************************************************)
(* The access-control model of rbac/rbac.go: what the enforcer stores and  *)
(* what its operations add to it.  Both servers use it, the appview for    *)
(* every knot it knows and a knot for itself (domain "thisserver").        *)
(*                                                                         *)
(* A policy value is what one casbin model holds: p, the permission rules, *)
(* and g, the role groupings.  A request is allowed when some rule has its *)
(* domain and action, a subject the requester is or has as a role, and an  *)
(* object that, read as a pattern of path.Match, matches the requested one *)
(* (keyMatch2).  Nothing keeps a repository's name from holding the        *)
(* characters of a pattern: a rule for <did>/* is about every repository   *)
(* of that owner, and one for <did>/[x] is not about the repository called *)
(* [x].  Which name matches which is a parameter, Matches.                 *)
(***************************************************************************)

CONSTANTS
    Dids,       \* the users, by DID
    Domains,    \* the knots, by host name
    RepoNames,  \* names of repositories
    Matches     \* pairs of them: the first, as a pattern, matches the second

Owner == "server:owner"
Member == "server:member"
Roles == {Owner, Member}

\* "did:.../name", the path AddRepo and AddCollaborator insist on
Repos == Dids \X RepoNames

\* A DID starts with "did:", no role does; a repository path has two parts,
\* a domain is a host name.
ASSUME DidsAssumption == Dids \cap Roles = {}
ASSUME DomainsAssumption == Domains \cap Repos = {}
ASSUME MatchesAssumption == Matches \subseteq RepoNames \X RepoNames

OwnerActs == {"repo:settings", "repo:push", "repo:owner", "repo:invite", "repo:delete"}
CollaboratorActs == {"repo:collaborator", "repo:settings", "repo:push"}
DomainActs == {"server:invite", "repo:create"}
Acts == OwnerActs \cup CollaboratorActs \cup DomainActs

Rule == [sub : Dids \cup Roles, dom : Domains, obj : Domains \cup Repos, act : Acts]
Grouping == [sub : Dids \cup Roles, role : Roles, dom : Domains]
Policy == [p : SUBSET Rule, g : SUBSET Grouping]

EmptyPolicy == [p |-> {}, g |-> {}]

Rules(s, d, o, as) == {[sub |-> s, dom |-> d, obj |-> o, act |-> a] : a \in as}
InRole(s, r, d) == [sub |-> s, role |-> r, dom |-> d]

-----------------------------------------------------------------------------
(* casbin, as rbac.go uses it.                                              *)

\* AddPolicies is all or nothing: when one of the rules is already there it
\* adds none of them and returns false with no error, and rbac.go drops the
\* boolean.
AddPolicies(pol, rules) ==
    IF rules \cap pol.p # {} THEN pol ELSE [pol EXCEPT !.p = @ \cup rules]

AddGroupingPolicy(pol, s, r, d) == [pol EXCEPT !.g = @ \cup {InRole(s, r, d)}]

HasGroupingPolicy(pol, s, r, d) == InRole(s, r, d) \in pol.g

\* g(sub, s, dom) of the matcher.  The only grouping between roles is
\* server:owner -> server:member, so two hops are all there are.
Linked(pol, u, s, d) ==
    \/ u = s
    \/ HasGroupingPolicy(pol, u, s, d)
    \/ \E r \in Roles : HasGroupingPolicy(pol, u, r, d) /\ HasGroupingPolicy(pol, r, s, d)

\* path.Match(obj, o).  A host name and a DID hold no pattern character, and
\* what a name matches has no slash: the DIDs must be equal.
keyMatch2(o, obj) ==
    \/ obj \in Domains /\ o = obj
    \/ /\ {o, obj} \subseteq Repos
       /\ o[1] = obj[1]
       /\ <<obj[2], o[2]>> \in Matches

Enforce(pol, u, d, o, act) ==
    \E r \in pol.p :
        r.act = act /\ r.dom = d /\ keyMatch2(o, r.obj) /\ Linked(pol, u, r.sub, d)

-----------------------------------------------------------------------------
(* The operations of rbac.go.                                               *)

AddDomain(pol, d) ==
    AddGroupingPolicy(
        AddPolicies(pol, Rules(Owner, d, d, {"server:invite"})
                         \cup Rules(Member, d, d, {"repo:create"})),
        Owner, Member, d)

AddOwner(pol, d, u) == AddGroupingPolicy(pol, u, Owner, d)

AddMember(pol, d, u) == AddGroupingPolicy(pol, u, Member, d)

OwnerRules(u, d, repo) ==
    Rules(u, d, repo, OwnerActs) \cup Rules(Owner, d, repo, {"repo:delete"})

AddRepo(pol, u, d, repo) == AddPolicies(pol, OwnerRules(u, d, repo))

CollaboratorRules(u, d, repo) == Rules(u, d, repo, CollaboratorActs)

AddCollaborator(pol, u, d, repo) == AddPolicies(pol, CollaboratorRules(u, d, repo))
=============================================================================
