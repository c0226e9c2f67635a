----------------------------- MODULE KnotProofs -----------------------------
(***************************************************************************)
(* Theorems about Knot: types, who may push, who has a role, whom the      *)
(* client wants, that owners may push and stay, and that Subscription is   *)
(* implemented; for every set of users, names, requests and sessions.      *)
(*                                                                         *)
(* The properties are about the tables; what makes them inductive is about *)
(* the handlers in flight: what each of them was told, and which of its    *)
(* own steps it has behind it (Facts).                                     *)
(***************************************************************************)
EXTENDS Knot, RbacLemmas

\* What is known of call c of process t when its next step is s.
Facts(t, c, s) ==
    /\ t = Firehose <=> c.op \in FirehoseOps
    /\ c.op \in {"AddRepoCollaborator", "NewRepo", "Push"} => c.repo \in Repos
    /\ c.op = "NewRepo" => c.who = c.repo[1]
    /\ c.op = "Init" => c.who \in appointed
    /\ c.op = "AddMember" => <<c.who, c.who>> \in enlisted
    /\ c.op = "AddRepoCollaborator" => <<c.who, c.repo>> \in invited
    /\ c.op = "KnotMember" => <<c.who, c.by>> \in enlisted /\ IsOwner(c.by)
    /\ t = Firehose => c.by \in known
    /\ t # Firehose /\ s = "fetch" => c.who \in known
    /\ s = "grant" /\ c.op \in {"Init", "AddMember", "AddRepoCollaborator"} => c.who \in known
    /\ s = "push" =>
        /\ \/ c.who = c.repo[1]
           \/ \E repo \in Repos : <<c.who, repo>> \in invited /\ keyMatch2(c.repo, repo)
        /\ c.who \in known

AllFacts == \A t \in Processes : req[t] # None => Facts(t, req[t], pc[t])

Control ==
    /\ pc \in [Processes -> Steps]
    /\ req \in [Processes -> Call \cup {None}]
    /\ \A t \in Processes : req[t] = None <=> pc[t] \in {"idle", "done"}

\* A rule that lets somebody push is for a repository, and its subject owns
\* that repository or was invited to it.
PushRules ==
    \A r \in policy.p : r.act = "repo:push" =>
        /\ r.obj \in Repos
        /\ r.sub = r.obj[1] \/ <<r.sub, r.obj>> \in invited

\* Only owners may invite, and the only role that has a role is the owner's.
InviteRules == \A r \in policy.p : r.act = "server:invite" => r.sub = Owner
RoleLinks == \A x \in policy.g : x.sub \in Roles => x.role = Member

PolicySound == PushRules /\ InviteRules /\ RoleLinks /\ RolesChain

Sound == PolicySound /\ OnlyKnown

KInv == TypeOK /\ AllFacts /\ Sound

\* What no step takes back.
Grows ==
    /\ known \subseteq known'
    /\ appointed \subseteq appointed'
    /\ enlisted \subseteq enlisted'
    /\ invited \subseteq invited'
    /\ policy.g \subseteq policy'.g

LEMMA GrowFacts ==
    ASSUME Grows, NEW t, NEW c, NEW s, NEW s2, Facts(t, c, s), s2 \in {s, "deferred"}
    PROVE  Facts(t, c, s2)'
BY DEF Grows, Facts, IsOwner, HasGroupingPolicy

LEMMA ActiveCall ==
    ASSUME KInv, NEW t \in Processes, pc[t] \in ActiveSteps
    PROVE  req[t] \in Call /\ req[t] # None /\ Facts(t, req[t], pc[t])
BY DEF KInv, AllFacts, TypeOK, ActiveSteps

LEMMA ArriveFacts ==
    ASSUME KInv, Grows, NEW t \in Processes, NEW op \in HttpOps \cup FirehoseOps,
           NEW u \in Dids, NEW b \in Dids, NEW r \in Repos \cup {None},
           NEW s \in ActiveSteps, Arrive(t, op, u, b, r, s),
           Facts(t, [op |-> op, who |-> u, by |-> b, repo |-> r], s)'
    PROVE  Control' /\ AllFacts'
<1> DEFINE c == [op |-> op, who |-> u, by |-> b, repo |-> r]
<1>1. c \in Call /\ c # None
  BY NoneAssumption DEF Call
<1>2. pc' = [pc EXCEPT ![t] = s] /\ req' = [req EXCEPT ![t] = c]
  BY DEF Arrive
<1>3. s \in Steps /\ s \notin {"idle", "done"}
  BY DEF Steps, ActiveSteps
<1>4. Facts(t, c, s)'
  OBVIOUS
<1> HIDE DEF c
<1>5. Control'
  BY <1>1, <1>2, <1>3 DEF Control, KInv, TypeOK
<1>6. ASSUME NEW x \in Processes, req'[x] # None PROVE Facts(x, req[x], pc[x])'
  <2>1. CASE x = t
    <3>1. req'[x] = c /\ pc'[x] = s
      BY <1>2, <2>1 DEF KInv, TypeOK
    <3> QED
      BY <1>4, <2>1, <3>1 DEF Facts
  <2>2. CASE x # t
    <3>1. req'[x] = req[x] /\ pc'[x] = pc[x]
      BY <1>2, <2>2 DEF KInv, TypeOK
    <3>2. PICK k, p : k = req[x] /\ p = pc[x]
      OBVIOUS
    <3>3. Facts(x, k, p)
      BY <1>6, <3>1, <3>2 DEF KInv, AllFacts
    <3>4. Facts(x, k, p)'
      BY <3>3, GrowFacts
    <3> QED
      BY <3>1, <3>2, <3>4 DEF Facts
  <2> QED
    BY <2>1, <2>2
<1> QED
  BY <1>5, <1>6 DEF AllFacts

LEMMA GotoFacts ==
    ASSUME KInv, Grows, NEW t \in Processes, pc[t] \in ActiveSteps,
           NEW s \in ActiveSteps, Goto(t, s), NEW c, c = req[t], Facts(t, c, s)'
    PROVE  Control' /\ AllFacts'
<1>1. s \in Steps /\ s \notin {"idle", "done"}
  BY DEF Steps, ActiveSteps
<1>2. req[t] # None /\ pc' = [pc EXCEPT ![t] = s] /\ req' = req
  BY ActiveCall DEF Goto
<1>3. Control'
  BY <1>1, <1>2 DEF Control, KInv, TypeOK
<1>4. ASSUME NEW x \in Processes, req'[x] # None PROVE Facts(x, req[x], pc[x])'
  <2>1. CASE x = t
    <3>1. req'[x] = c /\ pc'[x] = s
      BY <1>2, <2>1 DEF KInv, TypeOK
    <3> QED
      BY <2>1, <3>1 DEF Facts
  <2>2. CASE x # t
    <3>1. req'[x] = req[x] /\ pc'[x] = pc[x]
      BY <1>2, <2>2 DEF KInv, TypeOK
    <3>2. PICK k, p : k = req[x] /\ p = pc[x]
      OBVIOUS
    <3>3. Facts(x, k, p)
      BY <1>4, <3>1, <3>2 DEF KInv, AllFacts
    <3>4. Facts(x, k, p)'
      BY <3>3, GrowFacts
    <3> QED
      BY <3>1, <3>2, <3>4 DEF Facts
  <2> QED
    BY <2>1, <2>2
<1> QED
  BY <1>3, <1>4 DEF AllFacts

\* A request ends, an event goes on to its deferred function.
LEMMA FinishFacts ==
    ASSUME KInv, Grows, NEW t \in Processes, pc[t] \in ActiveSteps, Finish(t)
    PROVE  Control' /\ AllFacts'
<1>1. CASE t = Firehose
  <2>1. Goto(t, "deferred")
    BY <1>1 DEF Finish
  <2>2. PICK c, p : c = req[t] /\ p = pc[t]
    OBVIOUS
  <2>3. Facts(t, c, "deferred")'
    BY <2>2, ActiveCall, GrowFacts
  <2>4. "deferred" \in ActiveSteps
    BY DEF ActiveSteps
  <2> QED
    BY <2>1, <2>2, <2>3, <2>4, GotoFacts
<1>2. CASE t # Firehose
  <2>1. pc' = [pc EXCEPT ![t] = "done"] /\ req' = [req EXCEPT ![t] = None]
    BY <1>2 DEF Finish
  <2>2. Control'
    BY <2>1 DEF Control, KInv, TypeOK, Steps
  <2>3. ASSUME NEW x \in Processes, req'[x] # None PROVE Facts(x, req[x], pc[x])'
    <3>1. req'[x] = req[x] /\ pc'[x] = pc[x]
      BY <2>1, <2>3 DEF KInv, TypeOK
    <3>2. PICK k, p : k = req[x] /\ p = pc[x]
      OBVIOUS
    <3>3. Facts(x, k, p)
      BY <2>3, <3>1, <3>2 DEF KInv, AllFacts
    <3>4. Facts(x, k, p)'
      BY <3>3, GrowFacts
    <3> QED
      BY <3>1, <3>2, <3>4 DEF Facts
  <2> QED
    BY <2>2, <2>3 DEF AllFacts
<1> QED
  BY <1>1, <1>2

\* Nothing happens to any process.
LEMMA StillFacts ==
    ASSUME KInv, Grows, UNCHANGED <<pc, req>>
    PROVE  Control' /\ AllFacts'
<1>1. Control'
  BY DEF Control, KInv, TypeOK
<1>2. ASSUME NEW x \in Processes, req'[x] # None PROVE Facts(x, req[x], pc[x])'
  <2>1. PICK k, p : k = req[x] /\ p = pc[x]
    OBVIOUS
  <2>2. Facts(x, k, p)
    BY <1>2, <2>1 DEF KInv, AllFacts
  <2>3. Facts(x, k, p)'
    BY <2>2, GrowFacts
  <2> QED
    BY <2>1, <2>3 DEF Facts
<1> QED
  BY <1>1, <1>2 DEF AllFacts

-----------------------------------------------------------------------------
(* What keeps the policy sound.                                             *)

LEMMA SamePolicy ==
    ASSUME KInv, Grows, UNCHANGED policy
    PROVE  PolicySound'
BY DEF KInv, Sound, PolicySound, PushRules, InviteRules, RoleLinks, RolesChain, Grows, IsOwner

LEMMA MoreRules ==
    ASSUME KInv, Grows, policy'.g = policy.g,
           \A r \in policy'.p \ policy.p :
               /\ r.act = "repo:push" =>
                     /\ r.obj \in Repos
                     /\ r.sub = r.obj[1] \/ <<r.sub, r.obj>> \in invited'
               /\ r.act = "server:invite" => r.sub = Owner
    PROVE  PolicySound'
BY DEF KInv, Sound, PolicySound, PushRules, InviteRules, RoleLinks, RolesChain, Grows, IsOwner,
       HasGroupingPolicy

LEMMA MoreRoles ==
    ASSUME KInv, Grows, NEW x, policy'.g = policy.g \cup {x}, policy'.p = policy.p,
           x.sub \in Roles => x.role = Member,
           x.sub \in Dids =>
             \/ x.role = Owner /\ x.sub \in appointed' \cap known'
             \/ /\ x.role = Member
                /\ \E by \in Dids : /\ <<x.sub, by>> \in enlisted'
                                    /\ by = x.sub \/ IsOwner(by)
    PROVE  PolicySound'
<1>1. PushRules' /\ InviteRules' /\ RoleLinks'
  BY DEF KInv, Sound, PolicySound, PushRules, InviteRules, RoleLinks, Grows
<1>2. \A u \in Dids : IsOwner(u) => IsOwner(u)'
  BY DEF Grows, IsOwner, HasGroupingPolicy
<1>3. RolesChain'
  BY <1>2 DEF KInv, Sound, PolicySound, RolesChain, Grows
<1> QED
  BY <1>1, <1>3 DEF PolicySound

\* Who may invite has the owner's role: no chain of roles leads there.
LEMMA InviterOwns ==
    ASSUME KInv, NEW u \in Dids, Enforce(policy, u, ThisServer, ThisServer, "server:invite")
    PROVE  IsOwner(u)
<1>1. Linked(policy, u, Owner, ThisServer)
  BY DEF Enforce, KInv, Sound, PolicySound, InviteRules
<1>2. u # Owner
  BY DidsAssumption DEF Roles
<1>3. ASSUME NEW r \in Roles, HasGroupingPolicy(policy, r, Owner, ThisServer) PROVE FALSE
  BY <1>3 DEF HasGroupingPolicy, InRole, KInv, Sound, PolicySound, RoleLinks, Owner, Member
<1> QED
  BY <1>1, <1>2, <1>3 DEF Linked, IsOwner

-----------------------------------------------------------------------------
(* The steps.                                                               *)

LEMMA RequestInv ==
    ASSUME KInv, NEW t \in Http, Request(t)
    PROVE  KInv'
<1>1. t \in Processes /\ t # Firehose
  BY FirehoseAssumption DEF Processes
<1>2. /\ UNCHANGED <<known, keys, policy, dirs, knotInitialized, initClosed, wanted, subscribed, broken>>
      /\ appointed \subseteq appointed' /\ enlisted \subseteq enlisted' /\ invited \subseteq invited'
      /\ appointed' \subseteq Dids /\ enlisted' \subseteq Dids \X Dids /\ invited' \subseteq Dids \X Repos
  BY DEF Request, InitKnot, AddMemberHandler, AddRepoCollaborator, NewRepo, Push, Repos,
         KInv, TypeOK, tables, setup, jetstream, history
<1>3. Grows
  BY <1>2 DEF Grows
<1>4. Sound'
  BY <1>2, <1>3, SamePolicy DEF KInv, Sound, OnlyKnown
<1>5. ASSUME Control', AllFacts' PROVE KInv'
  BY <1>2, <1>4, <1>5 DEF KInv, TypeOK, Control
<1>6. {"did", "create", "push"} \subseteq ActiveSteps
  BY DEF ActiveSteps
<1>7. /\ {"Init", "AddMember", "AddRepoCollaborator", "NewRepo", "Push"} \subseteq HttpOps
      /\ HttpOps \cap FirehoseOps = {}
  BY DEF HttpOps, FirehoseOps
<1>8. ASSUME NEW u \in Dids, InitKnot(t, u) PROVE KInv'
  <2>1. Arrive(t, "Init", u, u, None, "did") /\ u \in appointed'
    BY <1>8 DEF InitKnot
  <2>2. Facts(t, [op |-> "Init", who |-> u, by |-> u, repo |-> None], "did")'
    BY <1>1, <1>7, <2>1 DEF Facts
  <2> QED
    BY <1>1, <1>3, <1>5, <1>6, <1>7, <2>1, <2>2, ArriveFacts
<1>9. ASSUME NEW u \in Dids, AddMemberHandler(t, u) PROVE KInv'
  <2>1. Arrive(t, "AddMember", u, u, None, "did") /\ <<u, u>> \in enlisted'
    BY <1>9 DEF AddMemberHandler
  <2>2. Facts(t, [op |-> "AddMember", who |-> u, by |-> u, repo |-> None], "did")'
    BY <1>1, <1>7, <2>1 DEF Facts
  <2> QED
    BY <1>1, <1>3, <1>5, <1>6, <1>7, <2>1, <2>2, ArriveFacts
<1>10. ASSUME NEW u \in Dids, NEW r \in Repos, AddRepoCollaborator(t, u, r) PROVE KInv'
  <2>1. Arrive(t, "AddRepoCollaborator", u, u, r, "did") /\ <<u, r>> \in invited'
    BY <1>10 DEF AddRepoCollaborator
  <2>2. Facts(t, [op |-> "AddRepoCollaborator", who |-> u, by |-> u, repo |-> r], "did")'
    BY <1>1, <1>7, <2>1 DEF Facts
  <2> QED
    BY <1>1, <1>3, <1>5, <1>6, <1>7, <2>1, <2>2, ArriveFacts
<1>11. ASSUME NEW r \in Repos, NewRepo(t, r) PROVE KInv'
  <2>1. Arrive(t, "NewRepo", r[1], r[1], r, "create") /\ r[1] \in Dids
    BY <1>11 DEF NewRepo, Repos
  <2>2. Facts(t, [op |-> "NewRepo", who |-> r[1], by |-> r[1], repo |-> r], "create")'
    BY <1>1, <1>7, <2>1 DEF Facts
  <2> QED
    BY <1>1, <1>3, <1>5, <1>6, <1>7, <2>1, <2>2, ArriveFacts
<1>12. ASSUME NEW u \in Dids, NEW r \in Repos, Push(t, u, r) PROVE KInv'
  <2>1. Arrive(t, "Push", u, u, r, "push")
    BY <1>12 DEF Push
  <2>2. u \in known'
    BY <1>2, <1>12 DEF Push, KInv, Sound, OnlyKnown
  <2>3. \/ u = r[1]
        \/ \E repo \in Repos : <<u, repo>> \in invited' /\ keyMatch2(r, repo)
    <3>1. ThisServer \in Domains
      BY ThisServerAssumption
    <3>2. PICK x \in policy.p : /\ keyMatch2(r, x.obj) /\ x.act = "repo:push"
                                /\ u = x.sub \/ x.sub \in Roles
      BY <1>12, <3>1, EnforceMeans DEF Push, KInv, TypeOK
    <3>3. x.obj \in Repos /\ (x.sub = x.obj[1] \/ <<x.sub, x.obj>> \in invited)
      BY <3>2 DEF KInv, Sound, PolicySound, PushRules
    <3>4. x.sub \in Dids
      BY <3>3 DEF Repos, KInv, TypeOK
    <3>5. u = x.sub
      BY <3>2, <3>4, DidsAssumption
    <3>6. x.obj[1] = r[1]
      BY <3>2, <3>3, DomainsAssumption DEF keyMatch2
    <3> QED
      BY <1>2, <3>2, <3>3, <3>5, <3>6
  <2>4. Facts(t, [op |-> "Push", who |-> u, by |-> u, repo |-> r], "push")'
    BY <1>1, <1>7, <2>2, <2>3 DEF Facts
  <2> QED
    BY <1>1, <1>3, <1>5, <1>6, <1>7, <2>1, <2>4, ArriveFacts
<1> QED
  BY <1>8, <1>9, <1>10, <1>11, <1>12 DEF Request

\* The steps of a handler that are not its last: what each needs to know of
\* its own call comes from Facts.
LEMMA WorkInv ==
    ASSUME KInv, NEW t \in Processes, Work(t)
    PROVE  KInv'
<1>1. pc[t] \in ActiveSteps
  BY DEF Work, AddDid, AddDidFails, FetchKeys, InitKnotGrant, InitKnotClose, AddMemberGrant,
         AddRepoCollaboratorGrant, NewRepoCreate, NewRepoCreateFails, NewRepoGrant,
         NewRepoGrantFails, PushEnds, At, ActiveSteps
<1>2. PICK c, p : c = req[t] /\ p = pc[t]
  OBVIOUS
<1>3. /\ c \in Call /\ Facts(t, c, p)
      /\ c.who \in Dids /\ c.by \in Dids /\ Subject(t) \in Dids
  BY <1>1, <1>2, ActiveCall DEF Call, Subject
<1>4. /\ {"fetch", "close", "grant"} \subseteq ActiveSteps
      /\ ThisServer \in Domains
  BY ThisServerAssumption DEF ActiveSteps
<1>5. /\ UNCHANGED <<knotInitialized, appointed, enlisted, invited>>
      /\ initClosed' \in BOOLEAN /\ broken' \subseteq Repos /\ dirs' \subseteq Repos
  <2>1. pc[t] \in {"create", "grant"} /\ req[t].op = "NewRepo" => req[t].repo \in Repos
    BY <1>2, <1>3 DEF Facts
  <2> QED
    BY <2>1 DEF Work, AddDid, AddDidFails, Fails, FetchKeys, InitKnotGrant, InitKnotClose,
         AddMemberGrant, AddRepoCollaboratorGrant, NewRepoCreate, NewRepoCreateFails,
         NewRepoGrant, NewRepoGrantFails, PushEnds, At, KInv, TypeOK,
         tables, setup, jetstream, history
<1>6. ASSUME Control', AllFacts', PolicySound', OnlyKnown', policy' \in Policy,
             known' \subseteq Dids
      PROVE  KInv'
  BY <1>5, <1>6 DEF KInv, TypeOK, Control, Sound, OnlyKnown
<1>7. policy \in Policy /\ known \subseteq Dids /\ OnlyKnown
  BY DEF KInv, TypeOK, Sound
<1>8. CASE AddDid(t)
  <2>1. /\ known' = known \cup {Subject(t)}
        /\ UNCHANGED <<policy, keys, wanted, subscribed>>
        /\ p = "did"
        /\ Goto(t, IF t = Firehose THEN "fetch" ELSE "grant")
    BY <1>2, <1>8 DEF AddDid, jetstream
  <2>2. Grows /\ OnlyKnown'
    BY <1>5, <1>7, <2>1 DEF Grows, OnlyKnown
  <2>3. CASE t = Firehose
    <3>1. c.by \in known'
      BY <1>2, <2>1, <2>3 DEF Subject
    <3>2. Facts(t, c, "fetch")'
      BY <1>3, <2>2, <2>3, <3>1, GrowFacts DEF Facts
    <3> QED
      BY <1>1, <1>2, <1>3, <1>4, <1>6, <1>7, <2>1, <2>2, <2>3, <3>2, GotoFacts, SamePolicy
  <2>4. CASE t # Firehose
    <3>1. c.who \in known'
      BY <1>2, <2>1, <2>4 DEF Subject
    <3>2. Facts(t, c, "deferred")'
      BY <1>3, <2>2, GrowFacts
    <3>3. Facts(t, c, "grant")'
      BY <2>4, <3>1, <3>2 DEF Facts
    <3> QED
      BY <1>1, <1>2, <1>3, <1>4, <1>6, <1>7, <2>1, <2>2, <2>4, <3>3, GotoFacts, SamePolicy
  <2> QED
    BY <2>3, <2>4
<1>9. CASE AddDidFails(t) \/ NewRepoCreateFails(t) \/ NewRepoGrantFails(t) \/ PushEnds(t)
           \/ InitKnotClose(t)
  <2>1. UNCHANGED <<policy, known, keys, wanted, subscribed>> /\ Finish(t)
    BY <1>9 DEF AddDidFails, Fails, NewRepoCreateFails, NewRepoGrantFails, PushEnds,
                InitKnotClose, tables, jetstream
  <2>2. Grows /\ OnlyKnown'
    BY <1>5, <1>7, <2>1 DEF Grows, OnlyKnown
  <2> QED
    BY <1>1, <1>6, <1>7, <2>1, <2>2, FinishFacts, SamePolicy
<1>10. CASE NewRepoCreate(t)
  <2>1. UNCHANGED <<policy, known, keys, wanted, subscribed>> /\ Goto(t, "grant")
        /\ c.op = "NewRepo"
    BY <1>2, <1>10 DEF NewRepoCreate, At, jetstream
  <2>2. Grows /\ OnlyKnown'
    BY <1>5, <1>7, <2>1 DEF Grows, OnlyKnown
  <2>3. Facts(t, c, "deferred")'
    BY <1>3, <2>2, GrowFacts
  <2>4. Facts(t, c, "grant")'
    BY <2>1, <2>3 DEF Facts
  <2> QED
    BY <1>1, <1>2, <1>4, <1>6, <1>7, <2>1, <2>2, <2>4, GotoFacts, SamePolicy
<1>11. CASE FetchKeys(t)
  <2>1. UNCHANGED <<policy, known, wanted, subscribed>> /\ p = "fetch"
        /\ keys' \in {keys, keys \cup {Subject(t)}} /\ (Finish(t) \/ Goto(t, "close"))
    BY <1>2, <1>11 DEF FetchKeys, jetstream
  <2>2. Subject(t) \in known
    BY <1>2, <1>3, <2>1 DEF Facts, Subject
  <2>3. Grows /\ OnlyKnown'
    BY <1>5, <1>7, <2>1, <2>2 DEF Grows, OnlyKnown
  <2>4. Facts(t, c, "deferred")'
    BY <1>3, <2>3, GrowFacts
  <2>5. Facts(t, c, "close")'
    BY <2>4 DEF Facts
  <2> QED
    BY <1>1, <1>2, <1>4, <1>6, <1>7, <2>1, <2>3, <2>5, GotoFacts, FinishFacts, SamePolicy
<1>12. CASE InitKnotGrant(t) \/ AddMemberGrant(t) \/ AddRepoCollaboratorGrant(t)
  <2>1. /\ UNCHANGED <<known, keys>>
        /\ wanted' = wanted \cup {c.who} /\ subscribed' \in {{}, subscribed}
        /\ p = "grant" /\ c.op \in {"Init", "AddMember", "AddRepoCollaborator"}
        /\ Goto(t, "fetch") \/ Finish(t)
    BY <1>2, <1>12 DEF InitKnotGrant, AddMemberGrant, AddRepoCollaboratorGrant, At
  <2>2. t # Firehose /\ c.who \in known
    BY <1>3, <2>1 DEF Facts, FirehoseOps
  <2>3. OnlyKnown'
    BY <1>7, <2>1, <2>2 DEF OnlyKnown
  <2>4. ASSUME Grows, PolicySound', policy' \in Policy PROVE KInv'
    <3>1. Facts(t, c, "deferred")'
      BY <1>3, <2>4, GrowFacts
    <3>2. Facts(t, c, "fetch")'
      BY <2>1, <2>2, <3>1 DEF Facts
    <3> QED
      BY <1>1, <1>2, <1>4, <1>6, <1>7, <2>1, <2>3, <2>4, <3>2, GotoFacts, FinishFacts
  <2>5. CASE UNCHANGED policy
    <3>1. Grows
      BY <1>5, <2>1, <2>5 DEF Grows
    <3> QED
      BY <1>7, <2>4, <2>5, <3>1, SamePolicy
  <2>6. CASE policy' = AddOwner(policy, ThisServer, c.who) /\ c.op = "Init"
    <3>1. /\ policy' \in Policy /\ policy'.p = policy.p
          /\ policy'.g = policy.g \cup {InRole(c.who, Owner, ThisServer)}
      BY <1>3, <1>4, <1>7, <2>6, AddOwnerAdds
    <3>2. Grows
      BY <1>5, <2>1, <3>1 DEF Grows
    <3>3. c.who \in appointed' \cap known'
      BY <1>3, <1>5, <2>1, <2>2, <2>6 DEF Facts
    <3>4. PolicySound'
      BY <1>3, <3>1, <3>2, <3>3, MoreRoles, DidsAssumption DEF InRole
    <3> QED
      BY <2>4, <3>1, <3>2, <3>4
  <2>7. CASE policy' = AddMember(policy, ThisServer, c.who) /\ c.op = "AddMember"
    <3>1. /\ policy' \in Policy /\ policy'.p = policy.p
          /\ policy'.g = policy.g \cup {InRole(c.who, Member, ThisServer)}
      BY <1>3, <1>4, <1>7, <2>7, AddMemberAdds
    <3>2. Grows
      BY <1>5, <2>1, <3>1 DEF Grows
    <3>3. <<c.who, c.who>> \in enlisted'
      BY <1>3, <1>5, <2>7 DEF Facts
    <3>4. PolicySound'
      BY <1>3, <3>1, <3>2, <3>3, MoreRoles, DidsAssumption DEF InRole
    <3> QED
      BY <2>4, <3>1, <3>2, <3>4
  <2>8. CASE /\ policy' = AddCollaborator(policy, c.who, ThisServer, c.repo)
             /\ c.op = "AddRepoCollaborator"
    <3>0. c.repo \in Repos /\ <<c.who, c.repo>> \in invited'
      BY <1>3, <1>5, <2>8 DEF Facts
    <3>1. /\ policy' \in Policy /\ policy'.g = policy.g
          /\ policy'.p \subseteq policy.p \cup CollaboratorRules(c.who, ThisServer, c.repo)
      BY <1>3, <1>4, <1>7, <2>8, <3>0, AddCollaboratorAdds
    <3>2. Grows
      BY <1>5, <2>1, <3>1 DEF Grows
    <3>3. \A r \in CollaboratorRules(c.who, ThisServer, c.repo) :
               r.obj = c.repo /\ r.sub = c.who /\ r.act # "server:invite"
      BY DEF CollaboratorRules, Rules, CollaboratorActs
    <3>4. PolicySound'
      BY <3>0, <3>1, <3>2, <3>3, MoreRules
    <3> QED
      BY <2>4, <3>1, <3>2, <3>4
  <2> QED
    BY <1>2, <1>12, <2>5, <2>6, <2>7, <2>8
       DEF InitKnotGrant, AddMemberGrant, AddRepoCollaboratorGrant, At
<1>13. CASE NewRepoGrant(t)
  <2>1. /\ UNCHANGED <<known, keys, wanted, subscribed>> /\ Finish(t) /\ c.op = "NewRepo"
        /\ policy' = AddRepo(policy, c.who, ThisServer, c.repo)
    BY <1>2, <1>13 DEF NewRepoGrant, At, jetstream
  <2>2. c.repo \in Repos /\ c.who = c.repo[1]
    BY <1>3, <2>1 DEF Facts
  <2>3. /\ policy' \in Policy /\ policy'.g = policy.g
        /\ policy'.p \subseteq policy.p \cup OwnerRules(c.who, ThisServer, c.repo)
    BY <1>3, <1>4, <1>7, <2>1, <2>2, AddRepoAdds
  <2>4. Grows /\ OnlyKnown'
    BY <1>5, <1>7, <2>1, <2>3 DEF Grows, OnlyKnown
  <2>5. \A r \in OwnerRules(c.who, ThisServer, c.repo) :
           /\ r.act = "repo:push" => r.obj = c.repo /\ r.sub = c.who
           /\ r.act # "server:invite"
    BY DEF OwnerRules, Rules, OwnerActs
  <2>6. PolicySound'
    BY <2>2, <2>3, <2>4, <2>5, MoreRules
  <2> QED
    BY <1>1, <1>6, <1>7, <2>1, <2>3, <2>4, <2>6, FinishFacts
<1> QED
  BY <1>8, <1>9, <1>10, <1>11, <1>12, <1>13 DEF Work

LEMMA EventInv ==
    ASSUME KInv, Event
    PROVE  KInv'
<1>1. Firehose \in Processes
  BY DEF Processes
<1>2. /\ UNCHANGED <<known, dirs, knotInitialized, initClosed, appointed, invited, broken>>
      /\ enlisted \subseteq enlisted' /\ enlisted' \subseteq Dids \X Dids
  BY DEF Event, KnotMember, PublicKey, KnotMemberGrant, PublicKeyAdd, Deferred,
         KInv, TypeOK, tables, setup, jetstream, history
<1>3. ASSUME Control', AllFacts', PolicySound', OnlyKnown', policy' \in Policy
      PROVE  KInv'
  BY <1>2, <1>3 DEF KInv, TypeOK, Control, Sound, OnlyKnown
<1>4. policy \in Policy /\ known \subseteq Dids /\ OnlyKnown
  BY DEF KInv, TypeOK, Sound
<1>5. ThisServer \in Domains
  BY ThisServerAssumption
<1>6. {"grant", "key", "did"} \subseteq ActiveSteps /\ {"KnotMember", "PublicKey"} \subseteq FirehoseOps
  BY DEF ActiveSteps, FirehoseOps
<1>7. ASSUME NEW u \in Dids, NEW m \in Dids, KnotMember(u, m) PROVE KInv'
  <2>1. /\ UNCHANGED <<policy, keys, wanted, subscribed>>
        /\ Arrive(Firehose, "KnotMember", m, u, None, "grant")
        /\ <<m, u>> \in enlisted'
    BY <1>7 DEF KnotMember, tables, jetstream
  <2>2. Grows /\ OnlyKnown'
    BY <1>2, <1>4, <2>1 DEF Grows, OnlyKnown
  <2>3. u \in known'
    BY <1>2, <1>4, <1>7 DEF KnotMember, OnlyKnown
  <2>4. IsOwner(u)'
    BY <1>7, <2>1, InviterOwns DEF KnotMember, IsOwner
  <2>5. Facts(Firehose, [op |-> "KnotMember", who |-> m, by |-> u, repo |-> None], "grant")'
    BY <1>6, <2>1, <2>3, <2>4 DEF Facts, IsOwner
  <2> QED
    BY <1>1, <1>3, <1>4, <1>6, <2>1, <2>2, <2>5, ArriveFacts, SamePolicy
<1>8. ASSUME NEW u \in Dids, PublicKey(u) PROVE KInv'
  <2>1. /\ UNCHANGED <<policy, keys, wanted, subscribed>>
        /\ Arrive(Firehose, "PublicKey", u, u, None, "key")
    BY <1>8 DEF PublicKey, tables, jetstream
  <2>2. Grows /\ OnlyKnown'
    BY <1>2, <1>4, <2>1 DEF Grows, OnlyKnown
  <2>3. u \in known'
    BY <1>2, <1>4, <1>8 DEF PublicKey, OnlyKnown
  <2>4. Facts(Firehose, [op |-> "PublicKey", who |-> u, by |-> u, repo |-> None], "key")'
    BY <1>6, <2>3 DEF Facts
  <2> QED
    BY <1>1, <1>3, <1>4, <1>6, <2>1, <2>2, <2>4, ArriveFacts, SamePolicy
<1>9. CASE KnotMemberGrant
  <2>1. PICK c, p : c = req[Firehose] /\ p = pc[Firehose]
    OBVIOUS
  <2>2. /\ p = "grant" /\ c.op = "KnotMember" /\ UNCHANGED <<keys, wanted, subscribed>>
        /\ \/ policy' = AddMember(policy, ThisServer, c.who) /\ Goto(Firehose, "did")
           \/ UNCHANGED policy /\ Finish(Firehose)
    BY <1>9, <2>1 DEF KnotMemberGrant, At, jetstream
  <2>3. pc[Firehose] \in ActiveSteps
    BY <1>6, <2>1, <2>2
  <2>4. c \in Call /\ Facts(Firehose, c, p) /\ c.who \in Dids /\ c.by \in Dids
    BY <1>1, <2>1, <2>3, ActiveCall DEF Call
  <2>5. CASE policy' = AddMember(policy, ThisServer, c.who) /\ Goto(Firehose, "did")
    <3>1. /\ policy' \in Policy /\ policy'.p = policy.p
          /\ policy'.g = policy.g \cup {InRole(c.who, Member, ThisServer)}
      BY <1>4, <1>5, <2>4, <2>5, AddMemberAdds
    <3>2. Grows /\ OnlyKnown'
      BY <1>2, <1>4, <2>2, <3>1 DEF Grows, OnlyKnown
    <3>3. <<c.who, c.by>> \in enlisted' /\ IsOwner(c.by)
      BY <1>2, <2>2, <2>4 DEF Facts
    <3>4. PolicySound'
      BY <2>4, <3>1, <3>2, <3>3, MoreRoles, DidsAssumption DEF InRole
    <3>5. Facts(Firehose, c, "deferred")'
      BY <2>4, <3>2, GrowFacts
    <3>6. Facts(Firehose, c, "did")'
      BY <3>5 DEF Facts
    <3> QED
      BY <1>1, <1>3, <1>6, <2>1, <2>3, <2>5, <3>1, <3>2, <3>4, <3>6, GotoFacts
  <2>6. CASE UNCHANGED policy /\ Finish(Firehose)
    <3>1. Grows /\ OnlyKnown'
      BY <1>2, <1>4, <2>2, <2>6 DEF Grows, OnlyKnown
    <3> QED
      BY <1>1, <1>3, <1>4, <2>3, <2>6, <3>1, FinishFacts, SamePolicy
  <2> QED
    BY <2>2, <2>5, <2>6
<1>10. CASE PublicKeyAdd
  <2>1. /\ pc[Firehose] = "key" /\ UNCHANGED <<policy, wanted, subscribed>> /\ Finish(Firehose)
        /\ keys' \in {keys, keys \cup {req[Firehose].by}}
    BY <1>10 DEF PublicKeyAdd, At, jetstream
  <2>2. pc[Firehose] \in ActiveSteps /\ req[Firehose].by \in known
    BY <1>1, <1>6, <2>1, ActiveCall DEF Facts
  <2>3. Grows /\ OnlyKnown'
    BY <1>2, <1>4, <2>1, <2>2 DEF Grows, OnlyKnown
  <2> QED
    BY <1>1, <1>3, <1>4, <2>1, <2>2, <2>3, FinishFacts, SamePolicy
<1>11. CASE Deferred
  <2>1. /\ pc[Firehose] = "deferred" /\ UNCHANGED <<policy, keys>>
        /\ wanted' = wanted \cup {req[Firehose].by} /\ subscribed' = {}
        /\ pc' = [pc EXCEPT ![Firehose] = "idle"] /\ req' = [req EXCEPT ![Firehose] = None]
    BY <1>11 DEF Deferred, tables
  <2>2. req[Firehose].by \in known
    BY <1>1, <2>1, ActiveCall DEF Facts, ActiveSteps
  <2>3. Grows /\ OnlyKnown'
    BY <1>2, <1>4, <2>1, <2>2 DEF Grows, OnlyKnown
  <2>4. Control'
    BY <1>1, <2>1 DEF Control, KInv, TypeOK, Steps
  <2>5. ASSUME NEW x \in Processes, req'[x] # None PROVE Facts(x, req[x], pc[x])'
    <3>1. req'[x] = req[x] /\ pc'[x] = pc[x]
      BY <2>1, <2>5 DEF KInv, TypeOK
    <3>2. PICK k, p : k = req[x] /\ p = pc[x]
      OBVIOUS
    <3>3. Facts(x, k, p)
      BY <2>5, <3>1, <3>2 DEF KInv, AllFacts
    <3>4. Facts(x, k, p)'
      BY <2>3, <3>3, GrowFacts
    <3> QED
      BY <3>1, <3>2, <3>4 DEF Facts
  <2>6. AllFacts'
    BY <2>5 DEF AllFacts
  <2> QED
    BY <1>3, <1>4, <2>1, <2>3, <2>4, <2>6, SamePolicy
<1> QED
  BY <1>7, <1>8, <1>9, <1>10, <1>11 DEF Event

\* The subscription and the directories change, no process does.
LEMMA OutsideInv ==
    ASSUME KInv,
           \/ \E repo \in Repos : RemoveRepo(repo)
           \/ Connect
           \/ UNCHANGED vars
    PROVE  KInv'
<1>1. /\ UNCHANGED <<known, keys, policy, knotInitialized, initClosed, wanted, pc, req,
                    appointed, enlisted, invited, broken>>
      /\ dirs' \subseteq Repos /\ subscribed' \in {subscribed, wanted}
  BY DEF RemoveRepo, Connect, vars, tables, setup, jetstream, history, KInv, TypeOK
<1>2. Grows
  BY <1>1 DEF Grows
<1>3. Control' /\ AllFacts' /\ PolicySound'
  BY <1>1, <1>2, StillFacts, SamePolicy
<1>4. OnlyKnown'
  BY <1>1 DEF KInv, Sound, OnlyKnown
<1> QED
  BY <1>1, <1>3, <1>4 DEF KInv, TypeOK, Control, Sound, OnlyKnown

\* Setup starts from the tables; the sessions that outlive the process are
\* pushes, and keep what they were let in with.
LEMMA RestartInv ==
    ASSUME KInv, Restart
    PROVE  KInv'
<1>1. /\ UNCHANGED <<known, keys, dirs, appointed, enlisted, invited>>
      /\ wanted' = known /\ subscribed' = {}
      /\ knotInitialized' \in BOOLEAN /\ initClosed' \in BOOLEAN
      /\ policy' = AddDomain(policy, ThisServer)
  BY DEF Restart
<1>2. /\ policy' \in Policy /\ policy'.p \subseteq policy.p \cup DomainRules(ThisServer)
      /\ policy'.g = policy.g \cup {InRole(Owner, Member, ThisServer)}
  BY <1>1, ThisServerAssumption, AddDomainAdds DEF KInv, TypeOK
<1>3. Grows
  BY <1>1, <1>2 DEF Grows
<1>4. \A r \in DomainRules(ThisServer) :
          /\ r.act # "repo:push"
          /\ r.act = "server:invite" => r.sub = Owner
  BY DEF DomainRules, Rules
<1>5. PushRules' /\ InviteRules'
  BY <1>1, <1>2, <1>4 DEF KInv, Sound, PolicySound, PushRules, InviteRules
<1>6. RoleLinks'
  BY <1>2 DEF KInv, Sound, PolicySound, RoleLinks, InRole
<1>7. RolesChain'
  <2>1. \A u \in Dids : IsOwner(u) => IsOwner(u)'
    BY <1>2 DEF IsOwner, HasGroupingPolicy
  <2>2. Owner \notin Dids
    BY DidsAssumption DEF Roles
  <2>3. SUFFICES ASSUME NEW x \in policy'.g, x.sub \in Dids
                 PROVE  \/ x.role = Owner /\ x.sub \in appointed' \cap known'
                        \/ /\ x.role = Member
                           /\ \E by \in Dids : /\ <<x.sub, by>> \in enlisted'
                                               /\ by = x.sub \/ IsOwner(by)'
    BY DEF RolesChain
  <2>4. x \in policy.g
    BY <1>2, <2>2, <2>3 DEF InRole
  <2>5. \/ x.role = Owner /\ x.sub \in appointed \cap known
        \/ /\ x.role = Member
           /\ \E by \in Dids : <<x.sub, by>> \in enlisted /\ (by = x.sub \/ IsOwner(by))
    BY <2>3, <2>4 DEF KInv, Sound, PolicySound, RolesChain
  <2> QED
    BY <1>1, <2>1, <2>5
<1>8. OnlyKnown'
  BY <1>1 DEF KInv, Sound, OnlyKnown
<1>9. ASSUME NEW t \in Processes
      PROVE  \/ pc[t] = "push" /\ pc'[t] = pc[t] /\ req'[t] = req[t]
             \/ pc'[t] \in {"idle", "done"} /\ req'[t] = None
  <2>1. pc' = [u \in Processes |-> AfterRestart(u)]
        /\ req' = [u \in Processes |-> IF Remains(u) THEN req[u] ELSE None]
    BY DEF Restart
  <2>2. CASE t # Firehose /\ pc[t] = "push"
    BY <2>1, <2>2 DEF Remains, AfterRestart
  <2>3. CASE ~(t # Firehose /\ pc[t] = "push")
    BY <2>1, <2>3 DEF Remains, AfterRestart
  <2> QED
    BY <2>2, <2>3
<1>10. Control'
  <2>1. pc' = [t \in Processes |-> AfterRestart(t)]
        /\ req' = [t \in Processes |-> IF Remains(t) THEN req[t] ELSE None]
    BY DEF Restart
  <2>2. \A t \in Processes : pc'[t] \in Steps /\ req'[t] \in Call \cup {None}
                              /\ (req'[t] = None <=> pc'[t] \in {"idle", "done"})
    BY <1>9 DEF KInv, TypeOK, Steps
  <2> QED
    BY <2>1, <2>2 DEF Control
<1>11. AllFacts'
  <2>1. SUFFICES ASSUME NEW x \in Processes, req'[x] # None PROVE Facts(x, req[x], pc[x])'
    BY DEF AllFacts
  <2>2. req'[x] = req[x] /\ pc'[x] = pc[x]
    BY <1>9, <2>1
  <2>3. PICK k, p : k = req[x] /\ p = pc[x]
    OBVIOUS
  <2>4. Facts(x, k, p)
    BY <2>1, <2>2, <2>3 DEF KInv, AllFacts
  <2>5. Facts(x, k, p)'
    BY <1>3, <2>4, GrowFacts
  <2> QED
    BY <2>2, <2>3, <2>5 DEF Facts
<1>12. broken' \subseteq Repos
  <2>1. ASSUME NEW x \in Processes, At(x, "NewRepo", "grant") PROVE req[x].repo \in Repos
    BY <2>1, ActiveCall DEF At, Facts, ActiveSteps
  <2> QED
    BY <2>1 DEF Restart, KInv, TypeOK
<1>13. Sound'
  BY <1>5, <1>6, <1>7, <1>8 DEF Sound, PolicySound
<1>14. TypeOK'
  BY <1>1, <1>2, <1>10, <1>12 DEF TypeOK, Control, KInv
<1> QED
  BY <1>11, <1>13, <1>14 DEF KInv

LEMMA KInvInit == Init => KInv
<1> SUFFICES ASSUME Init PROVE KInv
  OBVIOUS
<1>1. EmptyPolicy \in Policy
  BY DEF EmptyPolicy, Policy
<1>2. /\ policy \in Policy /\ policy.p \subseteq DomainRules(ThisServer)
      /\ policy.g = {InRole(Owner, Member, ThisServer)}
  BY <1>1, ThisServerAssumption, AddDomainAdds DEF Init, EmptyPolicy
<1>3. \A r \in DomainRules(ThisServer) :
          /\ r.act # "repo:push"
          /\ r.act = "server:invite" => r.sub = Owner
  BY DEF DomainRules, Rules
<1>4. Owner \notin Dids
  BY DidsAssumption DEF Roles
<1>5. PolicySound
  BY <1>2, <1>3, <1>4 DEF PolicySound, PushRules, InviteRules, RoleLinks, RolesChain, InRole
<1> QED
  BY <1>2, <1>5 DEF Init, KInv, TypeOK, Steps, AllFacts, Sound, OnlyKnown

LEMMA KInvNext == KInv /\ [Next]_vars => KInv'
BY RequestInv, WorkInv, EventInv, OutsideInv, RestartInv DEF Next

LEMMA KInvAlways == Spec => []KInv
BY KInvInit, KInvNext, PTL DEF Spec

-----------------------------------------------------------------------------

\* Every table, set and call of a knot has its type, in every behaviour.
THEOREM KnotTypeCorrect == Spec => []TypeOK
<1>1. KInv => TypeOK
  BY DEF KInv
<1> QED
  BY <1>1, KInvAlways, PTL

\* repoguard lets nobody push to a repository but its owner and those the
\* knot was told of, and those only whom the knot knows.
THEOREM OnlyEntitledPush == Spec => []PushChain
<1>1. KInv => PushChain
  BY DEF KInv, TypeOK, AllFacts, Facts, PushChain
<1> QED
  BY <1>1, KInvAlways, PTL

\* Every role on a knot was asked for by init, by the appview, or by a record
\* of an owner.
THEOREM RolesFromOwners == Spec => []RolesChain
<1>1. KInv => RolesChain
  BY DEF KInv, Sound, PolicySound
<1> QED
  BY <1>1, KInvAlways, PTL

\* The firehose and the keys are about known DIDs only.
THEOREM FirehoseOfKnown == Spec => []OnlyKnown
<1>1. KInv => OnlyKnown
  BY DEF KInv, Sound
<1> QED
  BY <1>1, KInvAlways, PTL

-----------------------------------------------------------------------------
(* The knot uses the client as Subscription says.                           *)

Serving == IF req[Firehose] = None THEN None ELSE req[Firehose].by

LEMMA ServingType == KInv => Serving \in Dids \cup {None}
BY DEF KInv, TypeOK, Serving, Processes, Call

\* A step of a process that is not the firehose's, or that keeps the event.
LEMMA SameEvent ==
    ASSUME KInv, NEW t \in Processes,
           \/ t # Firehose /\ \E c : req' = [req EXCEPT ![t] = c]
           \/ UNCHANGED req
    PROVE  Serving' = Serving
BY DEF KInv, TypeOK, Serving, Processes

LEMMA FinishKeeps ==
    ASSUME KInv, NEW t \in Processes, Finish(t)
    PROVE  \/ t # Firehose /\ \E c : req' = [req EXCEPT ![t] = c]
           \/ UNCHANGED req
BY DEF Finish, Goto

LEMMA WantImplements ==
    ASSUME KInv, Serving' = Serving, wanted' \subseteq Dids, wanted \subseteq wanted',
           subscribed' = subscribed \/ (subscribed' = {} /\ Serving = None)
    PROVE  Client!Want
BY DEF Client!Want, Serving

LEMMA WorkImplements ==
    ASSUME KInv, NEW t \in Processes, Work(t)
    PROVE  Client!Want
<1>1. wanted \subseteq Dids /\ (req[t] # None => req[t] \in Call)
  BY DEF KInv, TypeOK
<1>2. ASSUME UNCHANGED jetstream, Finish(t) \/ \E s : Goto(t, s) PROVE Client!Want
  <2>1. Serving' = Serving
    BY <1>2, FinishKeeps, SameEvent DEF Goto
  <2> QED
    BY <1>1, <1>2, <2>1, WantImplements DEF jetstream
<1>3. CASE \/ AddDid(t) \/ AddDidFails(t) \/ FetchKeys(t) \/ InitKnotClose(t)
  BY <1>2, <1>3 DEF AddDid, AddDidFails, FetchKeys, InitKnotClose, Fails
<1>4. CASE \/ NewRepoCreate(t) \/ NewRepoCreateFails(t) \/ NewRepoGrant(t)
           \/ NewRepoGrantFails(t) \/ PushEnds(t)
  BY <1>2, <1>4 DEF NewRepoCreate, NewRepoCreateFails, NewRepoGrant, NewRepoGrantFails,
                    PushEnds, Fails
<1>5. ASSUME pc[t] = "grant", wanted' = wanted \cup {req[t].who},
             Finish(t) \/ Goto(t, "fetch"),
             subscribed' = subscribed \/ (subscribed' = {} /\ pc[Firehose] = "idle")
      PROVE  Client!Want
  <2>1. req[t].who \in Dids
    BY <1>5, ActiveCall DEF Call, ActiveSteps
  <2>2. Serving' = Serving
    BY <1>5, FinishKeeps, SameEvent DEF Goto
  <2>3. pc[Firehose] = "idle" => Serving = None
    BY DEF KInv, TypeOK, Serving, Processes
  <2> QED
    BY <1>1, <1>5, <2>1, <2>2, <2>3, WantImplements
<1>6. CASE InitKnotGrant(t)
  BY <1>5, <1>6 DEF InitKnotGrant, At
<1>7. CASE AddMemberGrant(t)
  BY <1>5, <1>7 DEF AddMemberGrant, At
<1>8. CASE AddRepoCollaboratorGrant(t)
  BY <1>5, <1>8 DEF AddRepoCollaboratorGrant, At
<1> QED
  BY <1>3, <1>4, <1>6, <1>7, <1>8 DEF Work

LEMMA RequestImplements ==
    ASSUME KInv, NEW t \in Http, Request(t)
    PROVE  UNCHANGED Client!svars
<1>1. t # Firehose /\ t \in Processes
  BY FirehoseAssumption DEF Processes
<1>2. UNCHANGED jetstream /\ \E c : req' = [req EXCEPT ![t] = c]
  BY DEF Request, InitKnot, AddMemberHandler, AddRepoCollaborator, NewRepo, Push, Arrive
<1>3. Serving' = Serving
  BY <1>1, <1>2, SameEvent
<1> QED
  BY <1>2, <1>3 DEF Client!svars, Serving, jetstream

LEMMA EventImplements ==
    ASSUME KInv, Event
    PROVE  Client!Next \/ UNCHANGED Client!svars
<1>1. Firehose \in Processes /\ wanted \subseteq Dids
  BY DEF Processes, KInv, TypeOK
<1>2. ASSUME NEW u \in Dids, NEW m \in Dids, NEW op \in FirehoseOps, NEW s,
             u \in subscribed, Arrive(Firehose, op, m, u, None, s), UNCHANGED jetstream
      PROVE  Client!Next
  <2>1. Serving = None
    BY <1>1, <1>2 DEF Arrive, KInv, TypeOK, Serving
  <2>2. req'[Firehose] = [op |-> op, who |-> m, by |-> u, repo |-> None]
    BY <1>1, <1>2 DEF Arrive, KInv, TypeOK
  <2>3. req'[Firehose] \in Call
    BY <2>2 DEF Call
  <2>4. Serving' = u
    BY <2>2, <2>3, NoneAssumption DEF Serving
  <2>5. Client!Receive(u)
    BY <1>2, <2>1, <2>4 DEF Client!Receive, Serving, jetstream
  <2> QED
    BY <2>5 DEF Client!Next
<1>3. CASE \E u, m \in Dids : KnotMember(u, m)
  BY <1>2, <1>3 DEF KnotMember, FirehoseOps
<1>4. CASE \E u \in Dids : PublicKey(u)
  BY <1>2, <1>4 DEF PublicKey, FirehoseOps
<1>5. ASSUME UNCHANGED jetstream, Finish(Firehose) \/ \E s : Goto(Firehose, s)
      PROVE  UNCHANGED Client!svars
  BY <1>1, <1>5, FinishKeeps, SameEvent DEF Goto, Client!svars, Serving, jetstream
<1>6. CASE KnotMemberGrant \/ PublicKeyAdd
  BY <1>5, <1>6 DEF KnotMemberGrant, PublicKeyAdd
<1>7. CASE Deferred
  <2>1. req[Firehose] # None /\ req[Firehose].by \in Dids
    BY <1>1, <1>7 DEF Deferred, KInv, TypeOK, Call
  <2>2. Serving # None /\ Serving' = None
    BY <1>1, <1>7, <2>1, NoneAssumption DEF Deferred, Serving, KInv, TypeOK
  <2>3. Client!Done
    BY <1>1, <1>7, <2>1, <2>2 DEF Client!Done, Deferred, Serving
  <2> QED
    BY <2>3 DEF Client!Next
<1> QED
  BY <1>3, <1>4, <1>6, <1>7 DEF Event

LEMMA OutsideImplements ==
    ASSUME KInv, (\E repo \in Repos : RemoveRepo(repo)) \/ Connect \/ Restart
    PROVE  Client!Next \/ UNCHANGED Client!svars
<1>1. Firehose \in Processes
  BY DEF Processes
<1>2. CASE \E repo \in Repos : RemoveRepo(repo)
  BY <1>2 DEF RemoveRepo, jetstream, Client!svars
<1>3. CASE Connect
  <2>1. Serving = None
    BY <1>1, <1>3 DEF Connect, KInv, TypeOK, Serving
  <2>2. Client!Subscribe
    BY <1>3, <2>1 DEF Client!Subscribe, Connect, Serving
  <2> QED
    BY <2>2 DEF Client!Next
<1>4. CASE Restart
  <2>1. req'[Firehose] = None
    BY <1>1, <1>4 DEF Restart, Remains
  <2>2. Client!Restart
    BY <1>4, <2>1 DEF Client!Restart, Restart, KInv, TypeOK
  <2> QED
    BY <2>2 DEF Client!Next
<1> QED
  BY <1>2, <1>3, <1>4

\* A knot implements Subscription: it handles one event after the other, from
\* DIDs its connection asked for, and it changes the client's list and its
\* connection only as the client lets it.
THEOREM KnotServes == Spec => ServesInOrder
<1>1. Init => Client!Init
  BY DEF Init, Client!Init, Processes
<1>2. KInv /\ [Next]_vars => [Client!Next]_(Client!svars)
  <2>1. SUFFICES ASSUME KInv, Next PROVE Client!Next \/ UNCHANGED Client!svars
    BY DEF vars, jetstream, Client!svars
  <2> QED
    BY <2>1, WorkImplements, RequestImplements, EventImplements, OutsideImplements
       DEF Next, Client!Next
<1> QED
  BY <1>1, <1>2, KInvAlways, PTL DEF Spec, ServesInOrder, Client!Spec

-----------------------------------------------------------------------------
(* Once Setup has found a knot initialised, its owners stay as they are    *)
(* (OwnersFixed).  The handler of Init reads knotInitialized once and       *)
(* grants much later; what makes the property hold is that the field        *)
(* changes by a restart only, which no handler of Init survives (Settled).  *)

Settled ==
    /\ knotInitialized => \A t \in Processes : req[t] # None => req[t].op # "Init"
    /\ \A t \in Processes : pc[t] = "push" => req[t].op = "Push"

\* A step that changes one process's control, keeps its call or ends it, and
\* starts no push.
LEMMA OneKeeps ==
    ASSUME KInv, Settled, UNCHANGED knotInitialized,
           NEW t \in Processes, NEW s, s # "push",
           pc' = [pc EXCEPT ![t] = s],
           req' = req \/ req' = [req EXCEPT ![t] = None]
    PROVE  Settled'
<1>1. /\ \A x \in Processes : pc'[x] = IF x = t THEN s ELSE pc[x]
      /\ \A x \in Processes : x # t => req'[x] = req[x]
      /\ \A x \in Processes : req'[x] # None => req'[x] = req[x]
  BY DEF KInv, TypeOK
<1> QED
  BY <1>1 DEF Settled

LEMMA ArriveSettles ==
    ASSUME KInv, Settled, UNCHANGED knotInitialized, NEW t \in Processes,
           NEW op, NEW u, NEW b, NEW r, NEW s, Arrive(t, op, u, b, r, s),
           op = "Init" => ~knotInitialized,
           s = "push" => op = "Push"
    PROVE  Settled'
<1> DEFINE c == [op |-> op, who |-> u, by |-> b, repo |-> r]
<1>1. \A x \in Processes : /\ pc'[x] = IF x = t THEN s ELSE pc[x]
                          /\ req'[x] = IF x = t THEN c ELSE req[x]
  BY DEF KInv, TypeOK, Arrive
<1> QED
  BY <1>1 DEF Settled

LEMMA RequestSettles ==
    ASSUME KInv, Settled, NEW t \in Http, Request(t)
    PROVE  Settled' /\ UNCHANGED policy
<1>1. t \in Processes
  BY DEF Processes
<1>2. CASE \E u \in Dids : InitKnot(t, u)
  BY <1>1, <1>2, ArriveSettles DEF InitKnot, tables, setup
<1>3. CASE \E u \in Dids : AddMemberHandler(t, u)
  BY <1>1, <1>3, ArriveSettles DEF AddMemberHandler, tables, setup
<1>4. CASE \E u \in Dids, repo \in Repos : AddRepoCollaborator(t, u, repo)
  BY <1>1, <1>4, ArriveSettles DEF AddRepoCollaborator, tables, setup
<1>5. CASE \E repo \in Repos : NewRepo(t, repo)
  BY <1>1, <1>5, ArriveSettles DEF NewRepo, tables, setup
<1>6. CASE \E u \in Dids, repo \in Repos : Push(t, u, repo)
  BY <1>1, <1>6, ArriveSettles DEF Push, tables, setup
<1> QED
  BY <1>2, <1>3, <1>4, <1>5, <1>6 DEF Request

\* No step of a handler but Init's names an owner.
LEMMA WorkGroupings ==
    ASSUME KInv, NEW t \in Processes, Work(t)
    PROVE  \/ policy'.g = policy.g
           \/ req[t].op = "Init" /\ req[t] # None
           \/ \E u \in Dids : policy'.g = policy.g \cup {InRole(u, Member, ThisServer)}
<1>1. policy \in Policy /\ ThisServer \in Domains
  BY ThisServerAssumption DEF KInv, TypeOK
<1>2. CASE \/ AddDid(t) \/ AddDidFails(t) \/ FetchKeys(t) \/ InitKnotClose(t)
           \/ NewRepoCreate(t) \/ NewRepoCreateFails(t) \/ NewRepoGrantFails(t) \/ PushEnds(t)
  BY <1>2 DEF AddDid, AddDidFails, FetchKeys, InitKnotClose, NewRepoCreate,
              NewRepoCreateFails, NewRepoGrantFails, PushEnds, Fails, tables
<1>3. ASSUME pc[t] \in ActiveSteps
      PROVE  /\ req[t] \in Call /\ req[t] # None
             /\ req[t].op \in {"AddRepoCollaborator", "NewRepo"} => req[t].repo \in Repos
  BY <1>3, ActiveCall DEF Facts
<1>4. "grant" \in ActiveSteps
  BY DEF ActiveSteps
<1>5. CASE InitKnotGrant(t)
  BY <1>3, <1>4, <1>5 DEF InitKnotGrant, At
<1>6. CASE AddMemberGrant(t)
  <2>1. req[t].who \in Dids
    BY <1>3, <1>4, <1>6 DEF AddMemberGrant, At, Call
  <2> QED
    BY <1>1, <1>6, <2>1, AddMemberAdds DEF AddMemberGrant
<1>7. CASE AddRepoCollaboratorGrant(t)
  <2>1. req[t].who \in Dids /\ req[t].repo \in Repos
    BY <1>3, <1>4, <1>7 DEF AddRepoCollaboratorGrant, At, Call
  <2> QED
    BY <1>1, <1>7, <2>1, AddCollaboratorAdds DEF AddRepoCollaboratorGrant
<1>8. CASE NewRepoGrant(t)
  <2>1. req[t].who \in Dids /\ req[t].repo \in Repos
    BY <1>3, <1>4, <1>8 DEF NewRepoGrant, At, Call
  <2> QED
    BY <1>1, <1>8, <2>1, AddRepoAdds DEF NewRepoGrant
<1> QED
  BY <1>2, <1>5, <1>6, <1>7, <1>8 DEF Work

LEMMA WorkSettles ==
    ASSUME KInv, Settled, NEW t \in Processes, Work(t)
    PROVE  Settled'
<1>1. UNCHANGED knotInitialized
  BY DEF Work, AddDid, AddDidFails, FetchKeys, InitKnotGrant, InitKnotClose, AddMemberGrant,
         AddRepoCollaboratorGrant, NewRepoCreate, NewRepoCreateFails, NewRepoGrant,
         NewRepoGrantFails, PushEnds, Fails, setup
<1>2. Finish(t) \/ \E s \in {"fetch", "grant", "close"} : Goto(t, s)
  BY DEF Work, AddDid, AddDidFails, FetchKeys, InitKnotGrant, InitKnotClose, AddMemberGrant,
         AddRepoCollaboratorGrant, NewRepoCreate, NewRepoCreateFails, NewRepoGrant,
         NewRepoGrantFails, PushEnds, Fails
<1>3. \E s : s # "push" /\ pc' = [pc EXCEPT ![t] = s]
             /\ (req' = req \/ req' = [req EXCEPT ![t] = None])
  BY <1>2 DEF Finish, Goto
<1> QED
  BY <1>1, <1>3, OneKeeps

LEMMA EventSettles ==
    ASSUME KInv, Settled, Event
    PROVE  /\ Settled'
           /\ \/ policy' = policy
              \/ \E u \in Dids : policy'.g = policy.g \cup {InRole(u, Member, ThisServer)}
<1>1. Firehose \in Processes
  BY DEF Processes
<1>2. CASE \E u, m \in Dids : KnotMember(u, m)
  BY <1>1, <1>2, ArriveSettles DEF KnotMember, tables, setup
<1>3. CASE \E u \in Dids : PublicKey(u)
  BY <1>1, <1>3, ArriveSettles DEF PublicKey, tables, setup
<1>4. ASSUME UNCHANGED knotInitialized, Finish(Firehose) \/ Goto(Firehose, "did") PROVE Settled'
  <2>1. \E s : s # "push" /\ pc' = [pc EXCEPT ![Firehose] = s] /\ req' = req
    BY <1>4 DEF Finish, Goto
  <2> QED
    BY <1>1, <1>4, <2>1, OneKeeps
<1>5. CASE KnotMemberGrant
  <2>1. req[Firehose].who \in Dids
    BY <1>1, <1>5, ActiveCall DEF KnotMemberGrant, At, ActiveSteps, Call
  <2>2. policy \in Policy /\ ThisServer \in Domains
    BY ThisServerAssumption DEF KInv, TypeOK
  <2> QED
    BY <1>4, <1>5, <2>1, <2>2, AddMemberAdds DEF KnotMemberGrant, setup
<1>6. CASE PublicKeyAdd
  BY <1>4, <1>6 DEF PublicKeyAdd, setup
<1>7. CASE Deferred
  BY <1>1, <1>7, OneKeeps DEF Deferred, tables, setup
<1> QED
  BY <1>2, <1>3, <1>5, <1>6, <1>7 DEF Event

LEMMA RestartSettles ==
    ASSUME KInv, Settled, Restart
    PROVE  Settled' /\ policy'.g = policy.g \cup {InRole(Owner, Member, ThisServer)}
<1>1. policy \in Policy /\ ThisServer \in Domains /\ policy' = AddDomain(policy, ThisServer)
  BY ThisServerAssumption DEF KInv, TypeOK, Restart
<1>2. ASSUME NEW x \in Processes
      PROVE  \/ pc[x] = "push" /\ req'[x] = req[x]
             \/ pc'[x] # "push" /\ req'[x] = None
  <2>1. pc' = [u \in Processes |-> AfterRestart(u)]
        /\ req' = [u \in Processes |-> IF Remains(u) THEN req[u] ELSE None]
    BY DEF Restart
  <2>2. CASE x # Firehose /\ pc[x] = "push"
    BY <2>1, <2>2 DEF Remains
  <2>3. CASE ~(x # Firehose /\ pc[x] = "push")
    BY <2>1, <2>3 DEF Remains, AfterRestart
  <2> QED
    BY <2>2, <2>3
<1>3. \A x \in Processes : pc'[x] = "push" => req'[x].op = "Push"
  BY <1>2 DEF Settled
<1>4. \A x \in Processes : req'[x] # None => req'[x].op # "Init"
  BY <1>2 DEF Settled
<1> QED
  BY <1>1, <1>3, <1>4, AddDomainAdds DEF Settled

LEMMA StepSettles == KInv /\ Settled /\ [Next]_vars => Settled'
<1> SUFFICES ASSUME KInv, Settled, [Next]_vars PROVE Settled'
  OBVIOUS
<1>1. CASE UNCHANGED vars \/ Connect \/ \E repo \in Repos : RemoveRepo(repo)
  BY <1>1 DEF vars, setup, Connect, RemoveRepo, Settled
<1> QED
  BY <1>1, RequestSettles, WorkSettles, EventSettles, RestartSettles DEF Next

LEMMA StepKeepsOwners ==
    KInv /\ Settled /\ [Next]_vars =>
        [knotInitialized => \A u \in Dids : IsOwner(u)' => IsOwner(u)]_vars
<1> SUFFICES ASSUME KInv, Settled, Next, knotInitialized, NEW u \in Dids, IsOwner(u)'
             PROVE  IsOwner(u)
  OBVIOUS
<1>1. ASSUME policy'.g = policy.g PROVE IsOwner(u)
  BY <1>1 DEF IsOwner, HasGroupingPolicy
<1>2. ASSUME \E w \in Dids : policy'.g = policy.g \cup {InRole(w, Member, ThisServer)}
      PROVE  IsOwner(u)
  BY <1>2 DEF IsOwner, HasGroupingPolicy, InRole, Owner, Member
<1>3. ASSUME policy'.g = policy.g \cup {InRole(Owner, Member, ThisServer)} PROVE IsOwner(u)
  BY <1>3 DEF IsOwner, HasGroupingPolicy, InRole, Owner, Member
<1>4. CASE \E t \in Http : Request(t)
  BY <1>1, <1>4, RequestSettles
<1>5. CASE \E t \in Processes : Work(t)
  BY <1>1, <1>2, <1>5, WorkGroupings DEF Settled
<1>6. CASE Event
  BY <1>1, <1>2, <1>6, EventSettles
<1>7. CASE Restart
  BY <1>3, <1>7, RestartSettles
<1>8. CASE Connect \/ \E repo \in Repos : RemoveRepo(repo)
  BY <1>1, <1>8 DEF Connect, RemoveRepo, tables
<1> QED
  BY <1>4, <1>5, <1>6, <1>7, <1>8 DEF Next

\* A knot that was initialised when it started gets no further owner, whatever
\* requests, records, failures and restarts follow.
THEOREM OwnersStayFixed == Spec => OwnersFixed
<1>1. Init => Settled
  BY DEF Init, Settled
<1> QED
  BY <1>1, StepSettles, StepKeepsOwners, KInvAlways, PTL DEF Spec, OwnersFixed

-----------------------------------------------------------------------------
(* What is known is wanted.  A handler adds a DID to known_dids first, and  *)
(* tells the Jetstream client in its next step, whether or not the rest of  *)
(* that step fails.                                                         *)

Wanting == {"Init", "AddMember", "AddRepoCollaborator"}

\* t is about to have the client want d
Telling(t, d) == pc[t] = "grant" /\ req[t].op \in Wanting /\ req[t].who = d

Told ==
    /\ \A d \in known : d \in wanted \/ \E t \in Processes : Telling(t, d)
    /\ \A t \in Processes \ {Firehose} : pc[t] = "did" => req[t].op \in Wanting

\* A step of one process that makes nobody known, forgets nobody wanted, and
\* tells the client what it was about to tell.
LEMMA OneTells ==
    ASSUME KInv, Told, NEW t \in Processes,
           \A x \in Processes \ {t} : pc'[x] = pc[x] /\ req'[x] = req[x],
           UNCHANGED known, wanted \subseteq wanted',
           pc[t] = "grant" /\ req[t].op \in Wanting => req[t].who \in wanted',
           t # Firehose /\ pc'[t] = "did" => req'[t].op \in Wanting
    PROVE  Told'
<1>1. ASSUME NEW d \in known' PROVE d \in wanted' \/ (\E x \in Processes : Telling(x, d))'
  <2>1. CASE d \in wanted
    BY <2>1
  <2>2. ASSUME NEW x \in Processes, Telling(x, d) PROVE d \in wanted' \/ Telling(x, d)'
    BY <2>2 DEF Telling
  <2> QED
    BY <1>1, <2>1, <2>2 DEF Told
<1>2. ASSUME NEW x \in Processes \ {Firehose}, pc'[x] = "did" PROVE req'[x].op \in Wanting
  BY <1>2 DEF Told
<1> QED
  BY <1>1, <1>2 DEF Told

\* How a step of t leaves the control of the others.
LEMMA OneMoves ==
    ASSUME KInv, NEW t \in Processes,
           \/ \E op, u, b, r, s : Arrive(t, op, u, b, r, s)
           \/ Finish(t)
           \/ \E s : Goto(t, s)
    PROVE  \A x \in Processes \ {t} : pc'[x] = pc[x] /\ req'[x] = req[x]
BY DEF KInv, TypeOK, Arrive, Finish, Goto

LEMMA RequestTells ==
    ASSUME KInv, Told, NEW t \in Http, Request(t)
    PROVE  Told'
<1>1. t \in Processes /\ t # Firehose
  BY FirehoseAssumption DEF Processes
<1>2. /\ UNCHANGED <<known, wanted>> /\ pc[t] = "idle"
      /\ \A x \in Processes \ {t} : pc'[x] = pc[x] /\ req'[x] = req[x]
  BY <1>1, OneMoves DEF Request, InitKnot, AddMemberHandler, AddRepoCollaborator, NewRepo,
     Push, Arrive, tables, jetstream
<1>3. pc'[t] = "did" => req'[t].op \in Wanting
  BY <1>1 DEF Request, InitKnot, AddMemberHandler, AddRepoCollaborator, NewRepo, Push, Arrive,
     Wanting, KInv, TypeOK
<1> QED
  BY <1>1, <1>2, <1>3, OneTells

LEMMA WorkTells ==
    ASSUME KInv, Told, NEW t \in Processes, Work(t)
    PROVE  Told'
<1>1. /\ \A x \in Processes \ {t} : pc'[x] = pc[x] /\ req'[x] = req[x]
      /\ pc'[t] # "did"
  <2>1. Finish(t) \/ \E s \in {"fetch", "grant", "close"} : Goto(t, s)
    BY DEF Work, AddDid, AddDidFails, FetchKeys, InitKnotGrant, InitKnotClose, AddMemberGrant,
           AddRepoCollaboratorGrant, NewRepoCreate, NewRepoCreateFails, NewRepoGrant,
           NewRepoGrantFails, PushEnds, Fails
  <2>2. pc'[t] # "did"
    BY <2>1 DEF Finish, Goto, KInv, TypeOK
  <2> QED
    BY <2>1, <2>2, OneMoves
<1>2. CASE \/ AddDidFails(t) \/ FetchKeys(t) \/ InitKnotClose(t) \/ NewRepoCreate(t)
           \/ NewRepoCreateFails(t) \/ NewRepoGrant(t) \/ NewRepoGrantFails(t) \/ PushEnds(t)
  <2>1. UNCHANGED <<known, wanted>> /\ ~(pc[t] = "grant" /\ req[t].op \in Wanting)
    BY <1>2 DEF AddDidFails, Fails, FetchKeys, InitKnotClose, NewRepoCreate, NewRepoCreateFails,
                NewRepoGrant, NewRepoGrantFails, PushEnds, At, tables, jetstream, Wanting
  <2> QED
    BY <1>1, <2>1, OneTells
<1>3. CASE InitKnotGrant(t) \/ AddMemberGrant(t) \/ AddRepoCollaboratorGrant(t)
  <2>1. UNCHANGED known /\ wanted' = wanted \cup {req[t].who}
    BY <1>3 DEF InitKnotGrant, AddMemberGrant, AddRepoCollaboratorGrant
  <2> QED
    BY <1>1, <2>1, OneTells
<1>4. CASE AddDid(t) /\ t = Firehose
  <2>1. req[t].by \in known /\ pc[t] = "did"
    BY <1>4, ActiveCall DEF AddDid, ActiveSteps, Facts
  <2>2. UNCHANGED <<known, wanted>>
    BY <1>4, <2>1 DEF AddDid, Subject, jetstream
  <2> QED
    BY <1>1, <2>1, <2>2, OneTells
<1>5. CASE AddDid(t) /\ t # Firehose
  <2>1. /\ known' = known \cup {req[t].who} /\ UNCHANGED wanted
        /\ pc[t] = "did" /\ pc'[t] = "grant" /\ req' = req
    BY <1>5 DEF AddDid, Subject, Goto, jetstream, KInv, TypeOK
  <2>2. Telling(t, req[t].who)'
    BY <1>5, <2>1 DEF Told, Telling
  <2>3. ASSUME NEW d \in known' PROVE d \in wanted' \/ (\E x \in Processes : Telling(x, d))'
    <3>1. CASE d = req[t].who
      BY <2>1, <2>2, <3>1
    <3>2. CASE d \in wanted
      BY <2>1, <3>2
    <3>3. ASSUME NEW x \in Processes, Telling(x, d) PROVE Telling(x, d)'
      BY <1>1, <2>1, <3>3 DEF Telling
    <3> QED
      BY <2>1, <2>3, <3>1, <3>2, <3>3 DEF Told
  <2>4. ASSUME NEW x \in Processes \ {Firehose}, pc'[x] = "did" PROVE req'[x].op \in Wanting
    BY <1>1, <2>1, <2>4 DEF Told
  <2> QED
    BY <2>3, <2>4 DEF Told
<1> QED
  BY <1>2, <1>3, <1>4, <1>5 DEF Work

LEMMA EventTells ==
    ASSUME KInv, Told, Event
    PROVE  Told'
<1>1. Firehose \in Processes
  BY DEF Processes
<1>2. UNCHANGED known /\ wanted \subseteq wanted'
  BY DEF Event, KnotMember, PublicKey, KnotMemberGrant, PublicKeyAdd, Deferred, tables, jetstream
<1>3. \A x \in Processes \ {Firehose} : pc'[x] = pc[x] /\ req'[x] = req[x]
  <2>1. CASE Deferred
    BY <2>1 DEF Deferred, KInv, TypeOK
  <2> QED
    BY <1>1, <2>1, OneMoves DEF Event, KnotMember, PublicKey, KnotMemberGrant, PublicKeyAdd
<1>4. ~(pc[Firehose] = "grant" /\ req[Firehose].op \in Wanting)
  BY <1>1, ActiveCall DEF Facts, FirehoseOps, Wanting, ActiveSteps
<1> QED
  BY <1>1, <1>2, <1>3, <1>4, OneTells

LEMMA RestartTells ==
    ASSUME KInv, Told, Restart
    PROVE  Told'
<1>1. \A t \in Processes : pc'[t] # "did"
  BY DEF Restart, AfterRestart
<1> QED
  BY <1>1 DEF Restart, Told

LEMMA StepTells == KInv /\ Told /\ [Next]_vars => Told'
<1> SUFFICES ASSUME KInv, Told, [Next]_vars PROVE Told'
  OBVIOUS
<1>1. CASE UNCHANGED vars \/ Connect \/ \E repo \in Repos : RemoveRepo(repo)
  <2>1. UNCHANGED <<known, wanted, pc, req>>
    BY <1>1 DEF vars, tables, jetstream, Connect, RemoveRepo
  <2> QED
    BY <2>1 DEF Told, Telling
<1> QED
  BY <1>1, RequestTells, WorkTells, EventTells, RestartTells DEF Next

\* Between handlers the DIDs the Jetstream client wants are the known ones:
\* no handler that failed or died, and no restart, leaves a known DID out.
THEOREM KnownAreWanted == Spec => []KnownIsWanted
<1>1. Init => Told
  BY DEF Init, Told
<1>2. KInv /\ Told => KnownIsWanted
  BY DEF KInv, Sound, OnlyKnown, Told, Telling, KnownIsWanted
<1> QED
  BY <1>1, <1>2, StepTells, KInvAlways, PTL DEF Spec

-----------------------------------------------------------------------------
(* Owners push.  AddPolicies gives all of its rules or none, and none when  *)
(* one of them is there: NewRepo's call may add nothing, so the owner's     *)
(* right to push rests on every way the other rules can have come about.    *)

PushRule(repo) == [sub |-> repo[1], dom |-> ThisServer, obj |-> repo, act |-> "repo:push"]

\* No rule of a repository's owner is there without the one to push.
AllOrNone ==
    \A repo \in Repos :
        OwnerRules(repo[1], ThisServer, repo) \cap policy.p # {} => PushRule(repo) \in policy.p

\* A directory has its rules, or its NewRepo is about to write them, or did not.
Founded ==
    \A repo \in dirs :
        \/ PushRule(repo) \in policy.p
        \/ \E t \in Processes : At(t, "NewRepo", "grant") /\ req[t].repo = repo
        \/ repo \in broken

\* Rules that are given together, and that have a repository's right to push
\* when they have any rule of its owner's.
LEMMA GiveTogether ==
    ASSUME KInv, AllOrNone, NEW rules \in SUBSET Rule,
           \A repo \in Repos :
               OwnerRules(repo[1], ThisServer, repo) \cap rules # {} => PushRule(repo) \in rules
    PROVE  /\ policy.p \subseteq AddPolicies(policy, rules).p
           /\ \A repo \in Repos :
                 OwnerRules(repo[1], ThisServer, repo) \cap AddPolicies(policy, rules).p # {}
                     => PushRule(repo) \in AddPolicies(policy, rules).p
<1>1. CASE rules \cap policy.p # {}
  BY <1>1 DEF AddPolicies, AllOrNone
<1>2. CASE rules \cap policy.p = {}
  <2>1. AddPolicies(policy, rules).p = policy.p \cup rules
    BY <1>2 DEF AddPolicies, KInv, TypeOK, Policy
  <2> QED
    BY <2>1 DEF AllOrNone
<1> QED
  BY <1>1, <1>2

LEMMA DomainRulesApart ==
    ASSUME NEW d \in Domains
    PROVE  /\ DomainRules(d) \in SUBSET Rule
           /\ \A repo \in Repos : OwnerRules(repo[1], ThisServer, repo) \cap DomainRules(d) = {}
<1>1. DomainRules(d) \in SUBSET Rule
  <2>1. /\ Owner \in Dids \cup Roles /\ Member \in Dids \cup Roles
        /\ {"server:invite"} \in SUBSET Acts /\ {"repo:create"} \in SUBSET Acts
    BY DEF Owner, Member, Roles, Acts, DomainActs
  <2> QED
    BY <2>1, RulesType DEF DomainRules
<1>2. \A r \in DomainRules(d) : r.obj = d
  BY DEF DomainRules, Rules
<1>3. \A repo \in Repos : \A r \in OwnerRules(repo[1], ThisServer, repo) : r.obj = repo
  BY DEF OwnerRules, Rules
<1> QED
  BY <1>1, <1>2, <1>3, DomainsAssumption

LEMMA OwnerRulesTogether ==
    ASSUME NEW repo \in Repos
    PROVE  /\ OwnerRules(repo[1], ThisServer, repo) \in SUBSET Rule
           /\ PushRule(repo) \in OwnerRules(repo[1], ThisServer, repo)
           /\ \A other \in Repos :
                 OwnerRules(other[1], ThisServer, other)
                     \cap OwnerRules(repo[1], ThisServer, repo) # {} => other = repo
<1>1. OwnerRules(repo[1], ThisServer, repo) \in SUBSET Rule
  <2>1. /\ Owner \in Dids \cup Roles /\ OwnerActs \in SUBSET Acts
        /\ {"repo:delete"} \in SUBSET Acts
        /\ repo[1] \in Dids /\ ThisServer \in Domains
    BY ThisServerAssumption DEF Owner, Roles, Acts, OwnerActs, Repos
  <2> QED
    BY <2>1, RulesType DEF OwnerRules
<1>2. PushRule(repo) \in OwnerRules(repo[1], ThisServer, repo)
  BY DEF PushRule, OwnerRules, Rules, OwnerActs
<1>3. \A other \in Repos : \A r \in OwnerRules(other[1], ThisServer, other) : r.obj = other
  BY DEF OwnerRules, Rules
<1> QED
  BY <1>1, <1>2, <1>3

\* A collaborator's rules are an owner's only when the owner is the one added,
\* and then they let him push.
LEMMA CollaboratorRulesTogether ==
    ASSUME NEW repo \in Repos, NEW u \in Dids
    PROVE  /\ CollaboratorRules(u, ThisServer, repo) \in SUBSET Rule
           /\ \A other \in Repos :
                 OwnerRules(other[1], ThisServer, other)
                     \cap CollaboratorRules(u, ThisServer, repo) # {}
                     => PushRule(other) \in CollaboratorRules(u, ThisServer, repo)
<1>1. CollaboratorRules(u, ThisServer, repo) \in SUBSET Rule
  <2>1. CollaboratorActs \in SUBSET Acts /\ ThisServer \in Domains
    BY ThisServerAssumption DEF Acts
  <2> QED
    BY <2>1, RulesType DEF CollaboratorRules
<1>2. \A r \in CollaboratorRules(u, ThisServer, repo) : r.obj = repo /\ r.sub = u
  BY DEF CollaboratorRules, Rules
<1>3. \A other \in Repos : \A r \in OwnerRules(other[1], ThisServer, other) :
          r.obj = other /\ r.sub \in {other[1], Owner}
  BY DEF OwnerRules, Rules
<1>4. [sub |-> u, dom |-> ThisServer, obj |-> repo, act |-> "repo:push"]
          \in CollaboratorRules(u, ThisServer, repo)
  BY DEF CollaboratorRules, Rules, CollaboratorActs
<1>5. u # Owner
  BY DidsAssumption DEF Roles
<1> QED
  BY <1>1, <1>2, <1>3, <1>4, <1>5 DEF PushRule

\* A grant of rules that stand together.
LEMMA GrantGives ==
    ASSUME KInv, AllOrNone, NEW rules \in SUBSET Rule, policy' = AddPolicies(policy, rules),
           \A repo \in Repos :
               OwnerRules(repo[1], ThisServer, repo) \cap rules # {} => PushRule(repo) \in rules
    PROVE  AllOrNone' /\ policy.p \subseteq policy'.p
BY GiveTogether DEF AllOrNone, PushRule

\* NewRepo leaves the owner able to push, also when its own call adds nothing.
LEMMA NewRepoGives ==
    ASSUME KInv, AllOrNone, NEW t \in Processes, NewRepoGrant(t)
    PROVE  /\ AllOrNone' /\ policy.p \subseteq policy'.p
           /\ PushRule(req[t].repo) \in policy'.p
<1>1. PICK repo : repo = req[t].repo
  OBVIOUS
<1>2. /\ repo \in Repos
      /\ policy' = AddPolicies(policy, OwnerRules(repo[1], ThisServer, repo))
  <2>1. Facts(t, req[t], pc[t]) /\ req[t].op = "NewRepo"
    BY ActiveCall DEF NewRepoGrant, At, ActiveSteps
  <2> QED
    BY <1>1, <2>1 DEF Facts, NewRepoGrant, AddRepo
<1>3. AllOrNone' /\ policy.p \subseteq policy'.p
  BY <1>2, GrantGives, OwnerRulesTogether
<1>4. OwnerRules(repo[1], ThisServer, repo) \cap policy'.p # {}
  BY <1>2, OwnerRulesTogether DEF AddPolicies, KInv, TypeOK, Policy
<1> QED
  BY <1>1, <1>2, <1>3, <1>4 DEF AllOrNone, PushRule

\* No handler takes a rule back, or gives an owner's rules without the one to
\* push.
LEMMA WorkGives ==
    ASSUME KInv, AllOrNone, NEW t \in Processes, Work(t)
    PROVE  AllOrNone' /\ policy.p \subseteq policy'.p
<1>1. ASSUME policy'.p = policy.p PROVE AllOrNone' /\ policy.p \subseteq policy'.p
  BY <1>1 DEF AllOrNone, PushRule
<1>2. /\ policy \in Policy /\ ThisServer \in Domains
      /\ pc[t] = "grant" => req[t] \in Call /\ Facts(t, req[t], pc[t])
  BY ActiveCall, ThisServerAssumption DEF KInv, TypeOK, ActiveSteps
<1>3. CASE \/ AddDid(t) \/ AddDidFails(t) \/ FetchKeys(t) \/ InitKnotClose(t)
           \/ NewRepoCreate(t) \/ NewRepoCreateFails(t) \/ NewRepoGrantFails(t) \/ PushEnds(t)
  BY <1>1, <1>3 DEF AddDid, AddDidFails, FetchKeys, InitKnotClose, NewRepoCreate,
                    NewRepoCreateFails, NewRepoGrantFails, PushEnds, Fails, tables
<1>4. CASE InitKnotGrant(t)
  <2>1. req[t].who \in Dids
    BY <1>2, <1>4 DEF InitKnotGrant, At, Call
  <2> QED
    BY <1>1, <1>2, <1>4, <2>1, AddOwnerAdds DEF InitKnotGrant
<1>5. CASE AddMemberGrant(t)
  <2>1. req[t].who \in Dids
    BY <1>2, <1>5 DEF AddMemberGrant, At, Call
  <2> QED
    BY <1>1, <1>2, <1>5, <2>1, AddMemberAdds DEF AddMemberGrant
<1>6. CASE AddRepoCollaboratorGrant(t)
  <2>1. req[t].who \in Dids /\ req[t].repo \in Repos
    BY <1>2, <1>6 DEF AddRepoCollaboratorGrant, At, Call, Facts
  <2>2. CASE UNCHANGED policy
    BY <1>1, <2>2
  <2>3. CASE policy' = AddCollaborator(policy, req[t].who, ThisServer, req[t].repo)
    BY <2>1, <2>3, CollaboratorRulesTogether, GrantGives DEF AddCollaborator
  <2> QED
    BY <1>6, <2>2, <2>3 DEF AddRepoCollaboratorGrant
<1>7. CASE NewRepoGrant(t)
  BY <1>7, NewRepoGives
<1> QED
  BY <1>3, <1>4, <1>5, <1>6, <1>7 DEF Work

LEMMA OtherGives ==
    ASSUME KInv, AllOrNone,
           \/ \E t \in Http : Request(t)
           \/ \E repo \in Repos : RemoveRepo(repo)
           \/ Event \/ Connect \/ UNCHANGED vars
    PROVE  AllOrNone' /\ policy.p \subseteq policy'.p
<1>1. policy'.p = policy.p
  <2>1. CASE KnotMemberGrant
    <3>1. req[Firehose].who \in Dids
      BY <2>1, ActiveCall DEF KnotMemberGrant, At, ActiveSteps, Call, Processes
    <3> QED
      BY <2>1, <3>1, AddMemberAdds, ThisServerAssumption DEF KnotMemberGrant, KInv, TypeOK
  <2>2. CASE ~KnotMemberGrant
    BY <2>2 DEF Request, InitKnot, AddMemberHandler, AddRepoCollaborator, NewRepo, Push, RemoveRepo,
       Event, KnotMember, PublicKey, PublicKeyAdd, Deferred, Connect, vars, tables
  <2> QED
    BY <2>1, <2>2
<1> QED
  BY <1>1 DEF AllOrNone, PushRule

LEMMA RestartGives ==
    ASSUME KInv, AllOrNone, Restart
    PROVE  AllOrNone' /\ policy.p \subseteq policy'.p
<1>1. policy' = AddGroupingPolicy(AddPolicies(policy, DomainRules(ThisServer)), Owner, Member, ThisServer)
  BY DEF Restart, AddDomain, DomainRules
<1>2. /\ DomainRules(ThisServer) \in SUBSET Rule
      /\ \A repo \in Repos :
            OwnerRules(repo[1], ThisServer, repo) \cap DomainRules(ThisServer) = {}
  BY ThisServerAssumption, DomainRulesApart
<1>3. AddPolicies(policy, DomainRules(ThisServer)) \in Policy
  BY <1>2, AddPoliciesAdds DEF KInv, TypeOK
<1>4. policy'.p = AddPolicies(policy, DomainRules(ThisServer)).p
  BY <1>1, <1>3, AddGroupingAdds, ThisServerAssumption DEF Roles
<1> QED
  BY <1>2, <1>4, GiveTogether DEF AllOrNone, PushRule

LEMMA StepGives == KInv /\ AllOrNone /\ [Next]_vars => AllOrNone' /\ policy.p \subseteq policy'.p
BY WorkGives, OtherGives, RestartGives DEF Next

\* A NewRepo that leaves its step is done, or its repository is broken.
LEMMA WorkFounds ==
    ASSUME KInv, AllOrNone, Founded, NEW t \in Processes, Work(t)
    PROVE  Founded'
<1>1. policy.p \subseteq policy'.p /\ broken \subseteq broken'
  BY WorkGives DEF Work, AddDid, AddDidFails, FetchKeys, InitKnotGrant, InitKnotClose, AddMemberGrant,
       AddRepoCollaboratorGrant, NewRepoCreate, NewRepoCreateFails, NewRepoGrant,
       NewRepoGrantFails, PushEnds, Fails, history
<1>2. \A x \in Processes \ {t} : pc'[x] = pc[x] /\ req'[x] = req[x]
  BY OneMoves DEF Work, AddDid, AddDidFails, FetchKeys, InitKnotGrant, InitKnotClose, AddMemberGrant,
       AddRepoCollaboratorGrant, NewRepoCreate, NewRepoCreateFails, NewRepoGrant,
       NewRepoGrantFails, PushEnds, Fails
<1>3. At(t, "NewRepo", "grant") =>
          PushRule(req[t].repo) \in policy'.p \/ req[t].repo \in broken'
  <2>1. CASE NewRepoGrant(t)
    BY <2>1, NewRepoGives
  <2>2. CASE NewRepoGrantFails(t)
    BY <2>2 DEF NewRepoGrantFails
  <2> QED
    BY <2>1, <2>2 DEF Work, AddDid, AddDidFails, FetchKeys, InitKnotGrant, InitKnotClose,
       AddMemberGrant, AddRepoCollaboratorGrant, NewRepoCreate, NewRepoCreateFails, PushEnds, At
<1>4. ASSUME NEW repo \in dirs
      PROVE  \/ PushRule(repo) \in policy'.p
             \/ \E x \in Processes : At(x, "NewRepo", "grant")' /\ req'[x].repo = repo
             \/ repo \in broken'
  <2>1. ASSUME NEW x \in Processes, At(x, "NewRepo", "grant"), req[x].repo = repo, x # t
        PROVE  At(x, "NewRepo", "grant")' /\ req'[x].repo = repo
    BY <1>2, <2>1 DEF At
  <2> QED
    BY <1>1, <1>3, <1>4, <2>1 DEF Founded
<1>5. ASSUME NEW repo \in dirs' \ dirs
      PROVE  \/ \E x \in Processes : At(x, "NewRepo", "grant")' /\ req'[x].repo = repo
             \/ repo \in broken'
  <2>1. CASE NewRepoCreate(t)
    <3>1. repo = req[t].repo
      BY <1>5, <2>1 DEF NewRepoCreate
    <3>2. At(t, "NewRepo", "grant")' /\ req'[t].repo = repo
      BY <2>1, <3>1 DEF NewRepoCreate, At, Goto, KInv, TypeOK
    <3> QED
      BY <3>2
  <2>2. CASE NewRepoCreateFails(t)
    BY <1>5, <2>2 DEF NewRepoCreateFails
  <2> QED
    BY <1>5, <2>1, <2>2 DEF Work, AddDid, AddDidFails, FetchKeys, InitKnotGrant, InitKnotClose,
       AddMemberGrant, AddRepoCollaboratorGrant, NewRepoGrant, NewRepoGrantFails, PushEnds, Fails, tables
<1> QED
  BY <1>4, <1>5 DEF Founded, PushRule

\* The other steps leave the NewRepo handlers where they are.
LEMMA OtherFounds ==
    ASSUME KInv, AllOrNone, Founded,
           \/ \E t \in Http : Request(t)
           \/ \E repo \in Repos : RemoveRepo(repo)
           \/ Event \/ Connect \/ UNCHANGED vars
    PROVE  Founded'
<1>1. policy.p \subseteq policy'.p /\ dirs' \subseteq dirs /\ broken' = broken
  BY OtherGives DEF Request, InitKnot, AddMemberHandler, AddRepoCollaborator, NewRepo, Push, RemoveRepo,
     Event, KnotMember, PublicKey, KnotMemberGrant, PublicKeyAdd, Deferred, Connect, vars,
     tables, history
<1>2. ASSUME NEW x \in Processes, At(x, "NewRepo", "grant")
      PROVE  pc'[x] = pc[x] /\ req'[x] = req[x]
  <2>1. x # Firehose
    BY <1>2, ActiveCall DEF At, ActiveSteps, Facts, FirehoseOps
  <2>2. CASE \E t \in Http : Request(t)
    <3>1. PICK t \in Http : Request(t)
      BY <2>2
    <3>2. pc[t] = "idle" /\ \E op, u, b, r, s : Arrive(t, op, u, b, r, s)
      BY <3>1 DEF Request, InitKnot, AddMemberHandler, AddRepoCollaborator, NewRepo, Push, Arrive
    <3> QED
      BY <1>2, <3>2, OneMoves DEF At, Processes
  <2>3. CASE Event
    <3>1. CASE Deferred
      BY <2>1, <3>1 DEF Deferred, KInv, TypeOK
    <3> QED
      BY <2>1, <2>3, <3>1, OneMoves DEF Event, KnotMember, PublicKey, KnotMemberGrant, PublicKeyAdd,
         Processes
  <2>4. CASE Connect \/ UNCHANGED vars \/ \E repo \in Repos : RemoveRepo(repo)
    BY <2>4 DEF Connect, vars, RemoveRepo
  <2> QED
    BY <2>2, <2>3, <2>4
<1>3. ASSUME NEW repo \in dirs'
      PROVE  \/ PushRule(repo) \in policy'.p
             \/ \E x \in Processes : At(x, "NewRepo", "grant")' /\ req'[x].repo = repo
             \/ repo \in broken'
  <2>1. ASSUME NEW x \in Processes, At(x, "NewRepo", "grant"), req[x].repo = repo
        PROVE  At(x, "NewRepo", "grant")' /\ req'[x].repo = repo
    BY <1>2, <2>1 DEF At
  <2> QED
    BY <1>1, <2>1 DEF Founded
<1> QED
  BY <1>3 DEF Founded, PushRule

\* A NewRepo that dies at its grant leaves a broken repository.
LEMMA RestartFounds ==
    ASSUME KInv, AllOrNone, Founded, Restart
    PROVE  Founded'
<1>1. policy.p \subseteq policy'.p /\ dirs' = dirs
  BY RestartGives DEF Restart
<1>2. /\ broken \subseteq broken'
      /\ \A t \in Processes : At(t, "NewRepo", "grant") => req[t].repo \in broken'
  BY DEF Restart
<1> QED
  BY <1>1, <1>2 DEF Founded, PushRule

LEMMA StepFounds == KInv /\ AllOrNone /\ Founded /\ [Next]_vars => Founded'
BY WorkFounds, OtherFounds, RestartFounds DEF Next

LEMMA InitFounds == Init => AllOrNone /\ Founded
<1> SUFFICES ASSUME Init PROVE AllOrNone /\ Founded
  OBVIOUS
<1>1. policy.p \subseteq DomainRules(ThisServer)
  BY ThisServerAssumption, AddDomainAdds DEF Init, EmptyPolicy, Policy
<1> QED
  BY <1>1, ThisServerAssumption, DomainRulesApart DEF Init, AllOrNone, Founded

\* A repository's owner may push to it, whoever was made collaborator before
\* and however often it was removed and made again, unless its NewRepo failed
\* or died between the directory and the rules, or its name, as a pattern, does
\* not match itself.
THEOREM OwnersPush == Spec => []OwnerPushes
<1>1. ASSUME Founded, NEW repo \in dirs, keyMatch2(repo, repo)
      PROVE  \/ Enforce(policy, repo[1], ThisServer, repo, "repo:push")
             \/ Handling("NewRepo", repo)
             \/ repo \in broken
  <2>1. ASSUME PushRule(repo) \in policy.p
        PROVE  Enforce(policy, repo[1], ThisServer, repo, "repo:push")
    BY <1>1, <2>1 DEF PushRule, Enforce, Linked
  <2>2. ASSUME NEW t \in Processes, At(t, "NewRepo", "grant"), req[t].repo = repo
        PROVE  Handling("NewRepo", repo)
    BY <2>2 DEF At, Handling, ActiveSteps
  <2> QED
    BY <1>1, <2>1, <2>2 DEF Founded
<1>2. Founded => OwnerPushes
  BY <1>1 DEF OwnerPushes
<1> QED
  BY <1>2, InitFounds, StepGives, StepFounds, KInvAlways, PTL DEF Spec
=============================================================================
