----------------------------- MODULE RbacLemmas -----------------------------
(***************************************************************************)
(* What the operations of Rbac preserve and add.  Only these facts, never  *)
(* the definitions, are used by the proofs about the servers.              *)
(***************************************************************************)
EXTENDS Rbac, TLAPS

\* A set of rules for one subject, domain and object is a set of rules.
LEMMA RulesType ==
    ASSUME NEW s \in Dids \cup Roles, NEW d \in Domains,
           NEW o \in Domains \cup Repos, NEW as \in SUBSET Acts
    PROVE  Rules(s, d, o, as) \subseteq Rule
<1>1. \A a \in as : [sub |-> s, dom |-> d, obj |-> o, act |-> a] \in Rule
  BY DEF Rule
<1> QED
  BY <1>1 DEF Rules

\* AddPolicies keeps the type and the groupings, and adds nothing but the
\* rules it is given.
LEMMA AddPoliciesAdds ==
    ASSUME NEW pol \in Policy, NEW rules \in SUBSET Rule
    PROVE  /\ AddPolicies(pol, rules) \in Policy
           /\ AddPolicies(pol, rules).p \subseteq pol.p \cup rules
           /\ AddPolicies(pol, rules).g = pol.g
BY DEF AddPolicies, Policy

\* AddGroupingPolicy keeps the type and the rules, and adds one grouping.
LEMMA AddGroupingAdds ==
    ASSUME NEW pol \in Policy, NEW s \in Dids \cup Roles, NEW r \in Roles, NEW d \in Domains
    PROVE  /\ AddGroupingPolicy(pol, s, r, d) \in Policy
           /\ AddGroupingPolicy(pol, s, r, d).p = pol.p
           /\ AddGroupingPolicy(pol, s, r, d).g = pol.g \cup {InRole(s, r, d)}
           /\ InRole(s, r, d) \in Grouping
BY DEF AddGroupingPolicy, Policy, InRole, Grouping

\* The rules AddDomain gives a knot: repo:create is for members only, and
\* the object is the knot itself.
DomainRules(d) == Rules(Owner, d, d, {"server:invite"}) \cup Rules(Member, d, d, {"repo:create"})

LEMMA AddDomainAdds ==
    ASSUME NEW pol \in Policy, NEW d \in Domains
    PROVE  /\ AddDomain(pol, d) \in Policy
           /\ AddDomain(pol, d).p \subseteq pol.p \cup DomainRules(d)
           /\ AddDomain(pol, d).g = pol.g \cup {InRole(Owner, Member, d)}
<1>1. /\ Owner \in Dids \cup Roles
      /\ Member \in Dids \cup Roles
      /\ Member \in Roles
      /\ {"server:invite"} \in SUBSET Acts
      /\ {"repo:create"} \in SUBSET Acts
  BY DEF Owner, Member, Roles, Acts, DomainActs
<1>2. DomainRules(d) \in SUBSET Rule
  BY <1>1, RulesType DEF DomainRules
<1>3. AddPolicies(pol, DomainRules(d)) \in Policy
  BY <1>2, AddPoliciesAdds
<1>4. AddDomain(pol, d)
        = AddGroupingPolicy(AddPolicies(pol, DomainRules(d)), Owner, Member, d)
  BY DEF AddDomain, DomainRules
<1> QED
  BY <1>1, <1>2, <1>3, <1>4, AddPoliciesAdds, AddGroupingAdds

LEMMA AddOwnerAdds ==
    ASSUME NEW pol \in Policy, NEW d \in Domains, NEW u \in Dids
    PROVE  /\ AddOwner(pol, d, u) \in Policy
           /\ AddOwner(pol, d, u).p = pol.p
           /\ AddOwner(pol, d, u).g = pol.g \cup {InRole(u, Owner, d)}
BY AddGroupingAdds DEF AddOwner, Roles

LEMMA AddMemberAdds ==
    ASSUME NEW pol \in Policy, NEW d \in Domains, NEW u \in Dids
    PROVE  /\ AddMember(pol, d, u) \in Policy
           /\ AddMember(pol, d, u).p = pol.p
           /\ AddMember(pol, d, u).g = pol.g \cup {InRole(u, Member, d)}
BY AddGroupingAdds DEF AddMember, Roles

LEMMA AddRepoAdds ==
    ASSUME NEW pol \in Policy, NEW d \in Domains, NEW u \in Dids, NEW repo \in Repos
    PROVE  /\ AddRepo(pol, u, d, repo) \in Policy
           /\ AddRepo(pol, u, d, repo).p \subseteq pol.p \cup OwnerRules(u, d, repo)
           /\ AddRepo(pol, u, d, repo).g = pol.g
<1>1. Owner \in Dids \cup Roles /\ OwnerActs \in SUBSET Acts /\ {"repo:delete"} \in SUBSET Acts
  BY DEF Owner, Roles, Acts, OwnerActs
<1>2. OwnerRules(u, d, repo) \in SUBSET Rule
  BY <1>1, RulesType DEF OwnerRules
<1> QED
  BY <1>2, AddPoliciesAdds DEF AddRepo

LEMMA AddCollaboratorAdds ==
    ASSUME NEW pol \in Policy, NEW d \in Domains, NEW u \in Dids, NEW repo \in Repos
    PROVE  /\ AddCollaborator(pol, u, d, repo) \in Policy
           /\ AddCollaborator(pol, u, d, repo).p \subseteq pol.p \cup CollaboratorRules(u, d, repo)
           /\ AddCollaborator(pol, u, d, repo).g = pol.g
<1>1. CollaboratorActs \in SUBSET Acts
  BY DEF Acts
<1>2. CollaboratorRules(u, d, repo) \in SUBSET Rule
  BY <1>1, RulesType DEF CollaboratorRules
<1> QED
  BY <1>2, AddPoliciesAdds DEF AddCollaborator

\* The matcher of rbac.go:28, read backwards:
\* whoever Enforce lets do something is the subject of a rule whose object
\* matches, or has, directly or through one role, the rule's role.
LEMMA EnforceMeans ==
    ASSUME NEW pol \in Policy, NEW u \in Dids, NEW d \in Domains, NEW o, NEW act,
           Enforce(pol, u, d, o, act)
    PROVE  \E r \in pol.p :
              /\ r.dom = d /\ keyMatch2(o, r.obj) /\ r.act = act
              /\ \/ u = r.sub
                 \/ /\ r.sub \in Roles
                    /\ \E role \in Roles : InRole(u, role, d) \in pol.g
<1>1. PICK r \in pol.p :
         r.dom = d /\ keyMatch2(o, r.obj) /\ r.act = act /\ Linked(pol, u, r.sub, d)
  BY DEF Enforce
<1>2. \A s, role \in {r.sub} \cup Roles \cup Dids : InRole(s, role, d) \in pol.g => role \in Roles
  BY DEF Policy, Grouping, InRole
<1>3. r.sub \in Dids \cup Roles
  BY DEF Policy, Rule
<1>4. CASE u = r.sub
  BY <1>1, <1>4
<1>5. CASE HasGroupingPolicy(pol, u, r.sub, d)
  BY <1>1, <1>2, <1>3, <1>5 DEF HasGroupingPolicy
<1>6. CASE \E role \in Roles : HasGroupingPolicy(pol, u, role, d) /\ HasGroupingPolicy(pol, role, r.sub, d)
  BY <1>1, <1>2, <1>3, <1>6 DEF HasGroupingPolicy
<1> QED
  BY <1>1, <1>4, <1>5, <1>6 DEF Linked
=============================================================================
