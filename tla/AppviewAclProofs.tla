-------------------------- MODULE AppviewAclProofs --------------------------
(***************************************************************************)
(* Type correctness and authority of AppviewAcl, for every set of users,   *)
(* knots, repository names and requests, any number of requests in flight, *)
(* every answer a knot can give, with and without crashes; and, for one    *)
(* request at a time, the agreement of rows, saved rules and model.        *)
(***************************************************************************)
EXTENDS AppviewAcl, RbacLemmas, FiniteSetTheorems

\* What the type invariant needs to be inductive: the handlers that have a
\* repository to work on, and InitKnotServer has a registration.
CallShape(c) ==
    /\ c.op \in {"NewRepo", "AddCollaborator"} => c.repo \in Repos
    /\ c.op = "InitKnotServer" => claimant[c.dom] # None

Control ==
    /\ pc \in [Requests -> Steps]
    /\ req \in [Requests -> Call \cup {None}]
    /\ \A t \in Requests : req[t] # None <=> pc[t] \in InFlightSteps

Shape == TypeOK /\ \A t \in Requests : req[t] # None => CallShape(req[t])

\* A call is a record, None is not.
LEMMA InFlightCall ==
    ASSUME Shape, NEW t \in Requests, pc[t] \in InFlightSteps
    PROVE  /\ req[t] \in Call
           /\ req[t] # None
           /\ CallShape(req[t])
BY DEF Shape, TypeOK

LEMMA ArriveShape ==
    ASSUME Shape, NEW t \in Requests, NEW op, NEW u \in Dids, NEW d \in Domains,
           NEW r \in Repos \cup {None}, NEW w \in Dids, NEW s \in InFlightSteps,
           Arrive(t, op, u, d, r, w, s),
           op \in {"NewRepo", "AddCollaborator"} => r \in Repos,
           op = "InitKnotServer" => claimant[d] # None,
           UNCHANGED claimant
    PROVE  /\ Control'
           /\ \A x \in Requests : req'[x] # None => CallShape(req[x])'
<1> DEFINE c == [op |-> op, user |-> u, dom |-> d, repo |-> r, who |-> w]
<1>1. c \in Call /\ c # None
  BY NoneAssumption DEF Arrive, Call
<1>2. pc' = [pc EXCEPT ![t] = s] /\ req' = [req EXCEPT ![t] = c]
  BY DEF Arrive
<1>3. s \in Steps
  BY DEF Steps
<1> HIDE DEF c
<1>4. Control'
  BY <1>1, <1>2, <1>3 DEF Control, Shape, TypeOK
<1>5. ASSUME NEW x \in Requests, req'[x] # None PROVE CallShape(req[x])'
  <2>1. CASE x = t
    BY <1>2, <2>1 DEF CallShape, c, Shape, TypeOK
  <2>2. CASE x # t
    BY <1>2, <1>5, <2>2 DEF CallShape, Shape, TypeOK
  <2> QED
    BY <2>1, <2>2
<1> QED
  BY <1>4, <1>5

LEMMA GotoShape ==
    ASSUME Shape, NEW t \in Requests, pc[t] \in InFlightSteps,
           NEW s \in InFlightSteps, Goto(t, s), UNCHANGED claimant
    PROVE  /\ Control'
           /\ \A x \in Requests : req'[x] # None => CallShape(req[x])'
BY DEF Goto, Control, Shape, TypeOK, CallShape, Steps

LEMMA FinishShape ==
    ASSUME Shape, NEW t \in Requests, pc[t] \in InFlightSteps, Finish(t),
           \A d \in Domains : claimant[d] # None => claimant'[d] # None
    PROVE  /\ Control'
           /\ \A x \in Requests : req'[x] # None => CallShape(req[x])'
<1>1. "done" \in Steps /\ "done" \notin InFlightSteps
  BY DEF Steps, InFlightSteps
<1>2. Control'
  BY <1>1 DEF Finish, Control, Shape, TypeOK
<1>3. ASSUME NEW x \in Requests, req'[x] # None PROVE CallShape(req[x])'
  <2>1. x # t /\ req'[x] = req[x]
    BY <1>3 DEF Finish, Shape, TypeOK
  <2>2. req[x] \in Call /\ CallShape(req[x])
    BY <1>3, <2>1 DEF Shape, TypeOK
  <2> QED
    BY <2>1, <2>2 DEF CallShape, Call
<1> QED
  BY <1>2, <1>3

-----------------------------------------------------------------------------

LEMMA ArrivalShape ==
    ASSUME Shape, NEW t \in Requests, Arrival(t)
    PROVE  Shape'
<1> DEFINE Same == UNCHANGED <<mem, acl, tables, writer, knots, buf, history, unsaved, leftover>>
<1> DEFINE Ctl == Control' /\ \A x \in Requests : req'[x] # None => CallShape(req[x])'
<1>1. ASSUME Same, Ctl PROVE Shape'
  BY <1>1 DEF Shape, TypeOK, Control, tables, knots, history
<1>2. {"upsert", "callKnot", "grant"} \subseteq InFlightSteps
  BY DEF InFlightSteps
<1>3. ASSUME NEW u \in Dids, NEW d \in Domains, RegistrationKey(t, u, d) PROVE Shape'
  <2>1. Same /\ Arrive(t, "RegistrationKey", u, d, None, u, "upsert")
    BY <1>3 DEF RegistrationKey
  <2> QED
    BY <2>1, <1>1, <1>2, ArriveShape DEF tables
<1>4. ASSUME NEW u \in Dids, NEW d \in Domains, InitKnotServer(t, u, d) PROVE Shape'
  <2>1. Same /\ Arrive(t, "InitKnotServer", u, d, None, u, "callKnot") /\ claimant[d] # None
    BY <1>4 DEF InitKnotServer, HasKey
  <2> QED
    BY <2>1, <1>1, <1>2, ArriveShape DEF tables
<1>5. ASSUME NEW u \in Dids, NEW d \in Domains, NEW w \in Dids, AddMemberToKnot(t, u, d, w)
      PROVE  Shape'
  <2>1. Same /\ Arrive(t, "AddMember", u, d, None, w, "callKnot")
    BY <1>5 DEF AddMemberToKnot
  <2> QED
    BY <2>1, <1>1, <1>2, ArriveShape DEF tables
<1>6. ASSUME NEW u \in Dids, Login(t, u) PROVE Shape'
  <2>1. Same /\ Arrive(t, "Login", u, DefaultKnot, None, u, "grant")
    BY <1>6 DEF Login
  <2> QED
    BY <2>1, <1>1, <1>2, ArriveShape, DefaultKnotAssumption DEF tables
<1>7. ASSUME NEW u \in Dids, NEW d \in Domains, NEW n \in RepoNames, NewRepo(t, u, d, n)
      PROVE  Shape'
  <2>1. /\ Same
        /\ Arrive(t, "NewRepo", u, d, <<u, n>>, u, "callKnot")
        /\ <<u, n>> \in Repos
    BY <1>7 DEF NewRepo, Repos
  <2> QED
    BY <2>1, <1>1, <1>2, ArriveShape DEF tables
<1>8. ASSUME NEW u \in Dids, NEW row \in rows, NEW w \in Dids, AddCollaboratorToRepo(t, u, row, w)
      PROVE  Shape'
  <2>1. /\ Same
        /\ Arrive(t, "AddCollaborator", u, row.dom, row.repo, w, "callKnot")
        /\ row.dom \in Domains
        /\ row.repo \in Repos
    BY <1>8 DEF AddCollaboratorToRepo, Shape, TypeOK, Row
  <2> QED
    BY <2>1, <1>1, <1>2, ArriveShape DEF tables
<1> QED
  BY <1>3, <1>4, <1>5, <1>6, <1>7, <1>8 DEF Arrival

LEMMA AnswerShape ==
    ASSUME Shape, NEW t \in Requests, Answer(t)
    PROVE  Shape'
<1> DEFINE Same == UNCHANGED <<mem, acl, tables, writer, buf, history, unsaved, leftover>>
<1> DEFINE Ctl == Control' /\ \A x \in Requests : req'[x] # None => CallShape(req[x])'
<1>1. ASSUME Same, Ctl, disk' \subseteq Repos \X Domains, initialised' \subseteq Domains
      PROVE Shape'
  BY <1>1 DEF Shape, TypeOK, Control, tables, history
<1>2. {"callKnot", "insert", "register", "grant", "read"} \subseteq InFlightSteps
  BY DEF InFlightSteps
<1>3. ASSUME Same, pc[t] = "callKnot",
             \/ Finish(t)
             \/ Goto(t, "insert") \/ Goto(t, "register") \/ Goto(t, "grant") \/ Goto(t, "read")
      PROVE  Ctl
  BY <1>2, <1>3, GotoShape, FinishShape DEF tables
<1>4. /\ disk \subseteq Repos \X Domains
      /\ initialised \subseteq Domains
  BY DEF Shape, TypeOK
<1>5. ASSUME NEW code \in KnotCodes, InitKnotServerAnswer(t, code) PROVE Shape'
  <2>1. pc[t] = "callKnot" /\ req[t].dom \in Domains
    BY <1>5, <1>2, InFlightCall DEF InitKnotServerAnswer, At, Call
  <2>2. Same /\ disk' = disk /\ (Finish(t) \/ Goto(t, "register"))
    BY <1>5 DEF InitKnotServerAnswer
  <2>3. initialised' \subseteq Domains
    BY <1>4, <1>5, <2>1 DEF InitKnotServerAnswer
  <2> QED
    BY <1>1, <1>3, <1>4, <2>1, <2>2, <2>3
<1>6. ASSUME NEW code \in KnotCodes, AddMemberAnswer(t, code) PROVE Shape'
  <2>1. pc[t] = "callKnot" /\ Same /\ UNCHANGED knots /\ (Finish(t) \/ Goto(t, "grant"))
    BY <1>6 DEF AddMemberAnswer, At
  <2> QED
    BY <1>1, <1>3, <1>4, <2>1 DEF knots
<1>7. ASSUME NEW code \in KnotCodes, NewRepoAnswer(t, code) PROVE Shape'
  <2>1. pc[t] = "callKnot" /\ req[t].op = "NewRepo"
    BY <1>7 DEF NewRepoAnswer, At
  <2>2. req[t].dom \in Domains /\ req[t].repo \in Repos
    BY <2>1, <1>2, InFlightCall DEF Call, CallShape
  <2>3. Same /\ initialised' = initialised /\ (Goto(t, "insert") \/ Goto(t, "read"))
    BY <1>7 DEF NewRepoAnswer
  <2>4. disk' \in {disk, disk \cup {<<req[t].repo, req[t].dom>>}}
    BY <1>7 DEF NewRepoAnswer
  <2> QED
    BY <1>1, <1>3, <1>4, <2>1, <2>2, <2>3, <2>4
<1>8. ASSUME NEW code \in KnotCodes, AddCollaboratorAnswer(t, code) PROVE Shape'
  <2>1. pc[t] = "callKnot" /\ Same /\ UNCHANGED knots /\ (Finish(t) \/ Goto(t, "grant"))
    BY <1>8 DEF AddCollaboratorAnswer, At
  <2> QED
    BY <1>1, <1>3, <1>4, <2>1 DEF knots
<1> QED
  BY <1>5, <1>6, <1>7, <1>8 DEF Answer

LEMMA WorkShape ==
    ASSUME Shape, NEW t \in Requests, Work(t)
    PROVE  Shape'
<1> DEFINE Ctl == Control' /\ \A x \in Requests : req'[x] # None => CallShape(req[x])'
<1> DEFINE Same == UNCHANGED <<acl, registered, rows, knots, buf, unsaved, leftover>>
<1>1. ASSUME Same, Ctl, mem' \in Policy, claimant' \in [Domains -> Dids \cup {None}],
             collaborators' \subseteq Collaboration, writer' \in Requests \cup {None},
             admissions' \subseteq Admission, invitations' \subseteq Invitation
      PROVE  Shape'
  BY <1>1 DEF Shape, TypeOK, Control, knots
<1>2. /\ {"upsert", "register", "grant", "grantOwner", "insert", "link", "commit", "snapshot"}
           \subseteq InFlightSteps
      /\ Owner \in Roles /\ Member \in Roles
  BY DEF InFlightSteps, Roles
<1>3. /\ mem \in Policy
      /\ claimant \in [Domains -> Dids \cup {None}]
      /\ collaborators \subseteq Collaboration
      /\ writer \in Requests \cup {None}
      /\ admissions \subseteq Admission
      /\ invitations \subseteq Invitation
  BY DEF Shape, TypeOK
<1>4. ASSUME pc[t] \in InFlightSteps
      PROVE  /\ req[t].user \in Dids /\ req[t].who \in Dids /\ req[t].dom \in Domains
             /\ req[t].op \in {"NewRepo", "AddCollaborator"} => req[t].repo \in Repos
             /\ req[t].op = "InitKnotServer" => claimant[req[t].dom] \in Dids
  BY <1>3, <1>4, InFlightCall DEF Call, CallShape
<1>5. CASE RegistrationKeyUpsert(t)
  <2>1. pc[t] = "upsert" /\ Finish(t)
    BY <1>5 DEF RegistrationKeyUpsert, At
  <2>2. claimant' = [claimant EXCEPT ![req[t].dom] = req[t].user]
    BY <1>5 DEF RegistrationKeyUpsert
  <2>3. claimant' \in [Domains -> Dids \cup {None}]
    BY <1>2, <1>3, <1>4, <2>1, <2>2
  <2>4. \A d \in Domains : claimant[d] # None => claimant'[d] # None
    BY <1>2, <1>3, <1>4, <2>1, <2>2, NoneAssumption
  <2>5. Ctl
    BY <1>2, <2>1, <2>4, FinishShape
  <2> QED
    BY <1>1, <1>3, <1>5, <2>3, <2>5 DEF RegistrationKeyUpsert, history
<1>6. CASE RegistrationKeyFails(t)
  <2>1. pc[t] = "upsert" /\ Finish(t) /\ UNCHANGED claimant
    BY <1>6 DEF RegistrationKeyFails, At, tables
  <2>2. Ctl
    BY <1>2, <2>1, FinishShape
  <2> QED
    BY <1>1, <1>3, <1>6, <2>2 DEF RegistrationKeyFails, history, tables
<1>7. CASE InitKnotServerRegister(t)
  <2>1. pc[t] = "register" /\ req[t].op = "InitKnotServer"
    BY <1>7 DEF InitKnotServerRegister, At
  <2>2. /\ pc' = [pc EXCEPT ![t] = "grant"]
        /\ req' = [req EXCEPT ![t] = [req[t] EXCEPT !.who = claimant[req[t].dom]]]
        /\ UNCHANGED claimant
    BY <1>7 DEF InitKnotServerRegister, tables
  <2>3. /\ req[t] \in Call /\ CallShape(req[t])
        /\ claimant[req[t].dom] \in Dids
    BY <1>2, <1>4, <2>1, InFlightCall
  <2> DEFINE c == [req[t] EXCEPT !.who = claimant[req[t].dom]]
  <2>4. c \in Call /\ c # None /\ c.op = req[t].op /\ c.dom = req[t].dom /\ c.repo = req[t].repo
    BY <2>3, NoneAssumption DEF Call
  <2>5. req' = [req EXCEPT ![t] = c]
    BY <2>2
  <2> HIDE DEF c
  <2>6. "grant" \in Steps
    BY DEF Steps, InFlightSteps
  <2>7. Control'
    BY <1>2, <2>1, <2>2, <2>4, <2>5, <2>6 DEF Control, Shape, TypeOK
  <2>8. ASSUME NEW x \in Requests, req'[x] # None PROVE CallShape(req[x])'
    <3>1. CASE x = t
      BY <2>2, <2>3, <2>4, <2>5, <3>1 DEF CallShape, Shape, TypeOK
    <3>2. CASE x # t
      BY <2>2, <2>5, <2>8, <3>2 DEF CallShape, Shape, TypeOK
    <3> QED
      BY <3>1, <3>2
  <2> QED
    BY <1>1, <1>3, <1>7, <2>7, <2>8 DEF InitKnotServerRegister, history, tables
<1>8. CASE InitKnotServerAddDomain(t)
  <2>1. pc[t] = "grant" /\ Goto(t, "grantOwner") /\ UNCHANGED claimant
    BY <1>8 DEF InitKnotServerAddDomain, At, tables
  <2>2. Ctl
    BY <1>2, <2>1, GotoShape
  <2>3. mem' \in Policy
    BY <1>2, <1>3, <1>4, <1>8, <2>1, AddDomainAdds DEF InitKnotServerAddDomain
  <2> QED
    BY <1>1, <1>3, <1>8, <2>2, <2>3 DEF InitKnotServerAddDomain, history, tables
<1>9. CASE InitKnotServerAddOwner(t)
  <2>1. pc[t] = "grantOwner" /\ Goto(t, "commit") /\ UNCHANGED claimant
    BY <1>9 DEF InitKnotServerAddOwner, At, tables
  <2>2. Ctl
    BY <1>2, <2>1, GotoShape
  <2>3. mem' \in Policy
    BY <1>2, <1>3, <1>4, <1>9, <2>1, AddOwnerAdds DEF InitKnotServerAddOwner
  <2>4. admissions' \subseteq Admission
    BY <1>2, <1>3, <1>4, <1>9, <2>1 DEF InitKnotServerAddOwner, Admission
  <2> QED
    BY <1>1, <1>3, <1>9, <2>2, <2>3, <2>4 DEF InitKnotServerAddOwner, tables
<1>10. CASE AddMemberGrant(t)
  <2>1. pc[t] = "grant" /\ Finish(t) /\ UNCHANGED claimant
    BY <1>10 DEF AddMemberGrant, At, tables
  <2>2. Ctl
    BY <1>2, <2>1, FinishShape
  <2>3. mem' \in Policy
    BY <1>2, <1>3, <1>4, <1>10, <2>1, AddMemberAdds DEF AddMemberGrant
  <2>4. admissions' \subseteq Admission
    BY <1>2, <1>3, <1>4, <1>10, <2>1 DEF AddMemberGrant, Admission
  <2> QED
    BY <1>1, <1>3, <1>10, <2>2, <2>3, <2>4 DEF AddMemberGrant, tables
<1>11. CASE LoginGrant(t)
  <2>1. pc[t] = "grant" /\ Goto(t, "snapshot") /\ UNCHANGED claimant
    BY <1>11 DEF LoginGrant, At, tables
  <2>2. Ctl
    BY <1>2, <2>1, GotoShape
  <2>3. mem' \in Policy
    BY <1>2, <1>3, <1>4, <1>11, <2>1, AddMemberAdds DEF LoginGrant
  <2>4. admissions' \subseteq Admission
    BY <1>2, <1>3, <1>4, <1>11, <2>1 DEF LoginGrant, Admission
  <2> QED
    BY <1>1, <1>3, <1>11, <2>2, <2>3, <2>4 DEF LoginGrant, tables
<1>12. CASE NewRepoInsert(t)
  <2>1. pc[t] = "insert" /\ Goto(t, "grant") /\ UNCHANGED claimant
    BY <1>12 DEF NewRepoInsert, At, tables
  <2>2. Ctl
    BY <1>2, <2>1, GotoShape
  <2> QED
    BY <1>1, <1>3, <1>12, <2>2 DEF NewRepoInsert, history, tables
<1>13. CASE NewRepoGrant(t)
  <2>1. pc[t] = "grant" /\ req[t].op = "NewRepo" /\ Goto(t, "commit") /\ UNCHANGED claimant
    BY <1>13 DEF NewRepoGrant, At, tables
  <2>2. Ctl
    BY <1>2, <2>1, GotoShape
  <2>3. mem' \in Policy
    BY <1>2, <1>3, <1>4, <1>13, <2>1, AddRepoAdds DEF NewRepoGrant
  <2> QED
    BY <1>1, <1>3, <1>13, <2>2, <2>3 DEF NewRepoGrant, history, tables
<1>14. CASE AddCollaboratorGrant(t)
  <2>1. pc[t] = "grant" /\ req[t].op = "AddCollaborator" /\ Goto(t, "link") /\ UNCHANGED claimant
    BY <1>14 DEF AddCollaboratorGrant, At, tables
  <2>2. Ctl
    BY <1>2, <2>1, GotoShape
  <2>3. mem' \in Policy
    BY <1>2, <1>3, <1>4, <1>14, <2>1, AddCollaboratorAdds DEF AddCollaboratorGrant
  <2>4. invitations' \subseteq Invitation
    BY <1>2, <1>3, <1>4, <1>14, <2>1 DEF AddCollaboratorGrant, Invitation
  <2> QED
    BY <1>1, <1>3, <1>14, <2>2, <2>3, <2>4 DEF AddCollaboratorGrant, tables
<1>15. CASE AddCollaboratorLink(t)
  <2>1. pc[t] = "link" /\ req[t].op = "AddCollaborator" /\ Goto(t, "commit") /\ UNCHANGED claimant
    BY <1>15 DEF AddCollaboratorLink, At
  <2>2. Ctl
    BY <1>2, <2>1, GotoShape
  <2>3. collaborators' \subseteq Collaboration
    BY <1>2, <1>3, <1>4, <1>15, <2>1 DEF AddCollaboratorLink, Collaboration
  <2> QED
    BY <1>1, <1>3, <1>15, <2>2, <2>3 DEF AddCollaboratorLink, history
<1> QED
  BY <1>5, <1>6, <1>7, <1>8, <1>9, <1>10, <1>11, <1>12, <1>13, <1>14, <1>15 DEF Work

LEMMA EndingShape ==
    ASSUME Shape, NEW t \in Requests, Ending(t)
    PROVE  Shape'
<1> DEFINE Ctl == Control' /\ \A x \in Requests : req'[x] # None => CallShape(req[x])'
<1> DEFINE Same == UNCHANGED <<claimant, collaborators, knots, history>>
<1>1. ASSUME Same, Ctl, mem' \in Policy, acl' \in Policy, buf' \in [Requests -> Policy],
             rows' \subseteq Row, registered' \subseteq Domains, writer' \in Requests \cup {None},
             unsaved' \subseteq [op : Ops, dom : Domains], leftover' \in Policy
      PROVE  Shape'
  BY <1>1 DEF Shape, TypeOK, Control, knots, history
<1>2. /\ {"insert", "register", "link", "commit", "snapshot", "write", "read", "swap"}
           \subseteq InFlightSteps
      /\ EmptyPolicy \in Policy
  BY DEF InFlightSteps, EmptyPolicy, Policy
<1>3. /\ mem \in Policy
      /\ acl \in Policy
      /\ buf \in [Requests -> Policy]
      /\ rows \subseteq Row
      /\ registered \subseteq Domains
      /\ writer \in Requests \cup {None}
      /\ unsaved \subseteq [op : Ops, dom : Domains]
      /\ leftover \in Policy
  BY DEF Shape, TypeOK
<1>4. ASSUME pc[t] \in InFlightSteps
      PROVE  /\ req[t].op \in Ops /\ req[t].dom \in Domains
             /\ req[t].op = "NewRepo" => req[t].repo \in Repos
  BY <1>4, InFlightCall DEF Call, CallShape
<1>5. ASSUME Release(t) PROVE writer' \in Requests \cup {None}
  BY <1>3, <1>5 DEF Release
<1>6. ASSUME pc[t] \in InFlightSteps, UNCHANGED claimant,
             Finish(t) \/ Goto(t, "snapshot") \/ Goto(t, "write") \/ Goto(t, "read") \/ Goto(t, "swap")
      PROVE  Ctl
  BY <1>2, <1>6, GotoShape, FinishShape
<1>7. CASE WriteFails(t)
  <2>1. pc[t] \in InFlightSteps /\ Goto(t, "read") /\ UNCHANGED claimant
    BY <1>2, <1>7 DEF WriteFails, tables
  <2> QED
    BY <1>1, <1>3, <1>6, <1>7, <2>1 DEF WriteFails, tables
<1>8. CASE Commit(t)
  <2>1. pc[t] = "commit" /\ Goto(t, "snapshot") /\ UNCHANGED claimant /\ Release(t)
    BY <1>8 DEF Commit
  <2>2. rows' \subseteq Row
    BY <1>2, <1>3, <1>4, <1>8, <2>1 DEF Commit, Row
  <2>3. registered' \subseteq Domains
    BY <1>2, <1>3, <1>4, <1>8, <2>1 DEF Commit
  <2> QED
    BY <1>1, <1>2, <1>3, <1>5, <1>6, <1>8, <2>1, <2>2, <2>3 DEF Commit
<1>9. CASE CommitFails(t)
  <2>1. pc[t] = "commit" /\ Goto(t, "read") /\ UNCHANGED claimant /\ Release(t)
    BY <1>9 DEF CommitFails, tables
  <2> QED
    BY <1>1, <1>2, <1>3, <1>5, <1>6, <1>9, <2>1 DEF CommitFails, tables
<1>10. CASE SaveSnapshot(t)
  <2>1. pc[t] = "snapshot" /\ Goto(t, "write") /\ UNCHANGED claimant
    BY <1>10 DEF SaveSnapshot, tables
  <2>2. buf' \in [Requests -> Policy]
    BY <1>3, <1>10 DEF SaveSnapshot
  <2> QED
    BY <1>1, <1>2, <1>3, <1>6, <1>10, <2>1, <2>2 DEF SaveSnapshot, tables
<1>11. CASE SaveWrite(t)
  <2>1. pc[t] = "write" /\ (Finish(t) \/ Goto(t, "read")) /\ UNCHANGED claimant
    BY <1>11 DEF SaveWrite, AfterSave, tables
  <2>2. buf' \in [Requests -> Policy] /\ acl' \in Policy
    BY <1>2, <1>3, <1>11 DEF SaveWrite
  <2> QED
    BY <1>1, <1>2, <1>3, <1>6, <1>11, <2>1, <2>2 DEF SaveWrite, tables
<1>12. CASE SaveFails(t)
  <2>1. pc[t] = "write" /\ (Finish(t) \/ Goto(t, "read")) /\ UNCHANGED claimant
    BY <1>12 DEF SaveFails, AfterSave, tables
  <2>2. buf' \in [Requests -> Policy]
    BY <1>2, <1>3, <1>12 DEF SaveFails
  <2>3. unsaved' \subseteq [op : Ops, dom : Domains]
    BY <1>2, <1>3, <1>4, <1>12, <2>1 DEF SaveFails, Handler
  <2> QED
    BY <1>1, <1>2, <1>3, <1>6, <1>12, <2>1, <2>2, <2>3 DEF SaveFails, tables
<1>13. CASE ReloadRead(t)
  <2>1. pc[t] = "read" /\ Goto(t, "swap") /\ UNCHANGED claimant
    BY <1>13 DEF ReloadRead, tables
  <2>2. buf' \in [Requests -> Policy]
    BY <1>3, <1>13 DEF ReloadRead
  <2> QED
    BY <1>1, <1>2, <1>3, <1>6, <1>13, <2>1, <2>2 DEF ReloadRead, tables
<1>14. CASE ReloadSwap(t)
  <2>1. pc[t] = "swap" /\ Finish(t) /\ UNCHANGED claimant
    BY <1>14 DEF ReloadSwap, tables
  <2>2. buf' \in [Requests -> Policy] /\ mem' \in Policy
    BY <1>2, <1>3, <1>14 DEF ReloadSwap, Replace
  <2>3. leftover' \in Policy
    BY <1>3, <1>14 DEF ReloadSwap, Replace, Policy
  <2> QED
    BY <1>1, <1>2, <1>3, <1>6, <1>14, <2>1, <2>2, <2>3 DEF ReloadSwap, tables
<1>15. CASE ReloadFails(t)
  <2>1. pc[t] = "read" /\ Finish(t) /\ UNCHANGED claimant
    BY <1>15 DEF ReloadFails, tables
  <2>2. leftover' \in Policy
    BY <1>3, <1>15 DEF ReloadFails, Policy
  <2> QED
    BY <1>1, <1>2, <1>3, <1>6, <1>15, <2>1, <2>2 DEF ReloadFails, tables
<1> QED
  BY <1>7, <1>8, <1>9, <1>10, <1>11, <1>12, <1>13, <1>14, <1>15 DEF Ending

LEMMA CrashShape ==
    ASSUME Shape, Crash
    PROVE  Shape'
<1>1. /\ mem' \in Policy
      /\ buf' \in [Requests -> Policy]
      /\ writer' = None
      /\ leftover' \in Policy
  BY DEF Crash, Replace, Shape, TypeOK, EmptyPolicy, Policy
<1>2. Control' /\ \A x \in Requests : req'[x] = None
  BY DEF Crash, Shape, TypeOK, Control, InFlight, Steps, InFlightSteps
<1>3. unsaved' \subseteq [op : Ops, dom : Domains]
  <2>1. \A t \in Requests :
           pc[t] \in {"snapshot", "write"} => Handler(t) \in [op : Ops, dom : Domains]
    <3>1. SUFFICES ASSUME NEW t \in Requests, pc[t] \in {"snapshot", "write"}
                   PROVE  Handler(t) \in [op : Ops, dom : Domains]
      OBVIOUS
    <3>2. req[t] \in Call
      BY <3>1, InFlightCall DEF InFlightSteps
    <3> QED
      BY <3>2 DEF Handler, Call
  <2> QED
    BY <2>1 DEF Crash, Shape, TypeOK
<1> QED
  BY <1>1, <1>2, <1>3 DEF Crash, Shape, TypeOK, Control, tables, knots, history

LEMMA ShapeInit == Init => Shape
BY NoneAssumption DEF Init, Shape, TypeOK, EmptyPolicy, Policy, Steps, InFlightSteps

LEMMA ShapeNext == Shape /\ [Next]_vars => Shape'
<1> SUFFICES ASSUME Shape, [Next]_vars PROVE Shape'
  OBVIOUS
<1>1. CASE UNCHANGED vars
  BY <1>1 DEF vars, Shape, TypeOK, CallShape, tables, knots, history
<1>2. CASE Served
  BY <1>2 DEF Served, vars, Shape, TypeOK, CallShape, tables, knots, history
<1>3. ASSUME NEW t \in Requests, Arrival(t) \/ Answer(t) \/ Work(t) \/ Ending(t) PROVE Shape'
  BY <1>3, ArrivalShape, AnswerShape, WorkShape, EndingShape
<1> QED
  BY <1>1, <1>2, <1>3, CrashShape DEF Next

\* Every reachable state of the appview's permission store is well typed: in
\* particular the owner InitKnotServer takes from the registration row is a
\* user, and every repository a handler grants on has a path.
THEOREM TypeCorrect == Spec => []TypeOK
<1>1. Shape => TypeOK
  BY DEF Shape
<1> QED
  BY <1>1, ShapeInit, ShapeNext, PTL DEF Spec

-----------------------------------------------------------------------------
(* Authority: InviteChain, AdmissionChain, CreatorsAdmitted.                *)
(*                                                                          *)
(* The three are not inductive alone.  A handler checks its caller against  *)
(* the model, calls the knot, and grants much later, when that model may    *)
(* have been replaced: what it was entitled to must be remembered for each  *)
(* request in flight (Entitled).  A whole-model save or whole-table reload  *)
(* moves any copy of the policy into any other: all copies, those a request *)
(* holds included, must be sound.                                           *)

Backed(r) ==
    /\ r.obj \in Repos => OwnerGaveIt(r)
    /\ r.obj \in Domains /\ r.act = "repo:create" => r.sub = Member

Sound(pol) ==
    /\ \A r \in pol.p : Backed(r)
    /\ \A x \in pol.g : x.sub \in Dids => Admitted(x.sub, x.role, x.dom)

AllSound == Sound(mem) /\ Sound(acl) /\ \A t \in Requests : Sound(buf[t])

\* What the check of a handler established, still true when it grants.
Entitled(c) ==
    /\ c.op = "NewRepo" => /\ c.repo[1] = c.user
                           /\ \E r \in Roles : Admitted(c.user, r, c.dom)
    /\ c.op = "AddMember" => IsFounder(c.user, c.dom)
    /\ c.op = "Login" => c.dom = DefaultKnot
    /\ c.op = "AddCollaborator" => c.repo[1] = c.user

AllEntitled == \A t \in Requests : req[t] # None => Entitled(req[t])

Authority == AllSound /\ AllEntitled /\ CreatorsAdmitted

\* The conjuncts of the invariant are about the histories, which only grow.
LEMMA Grow ==
    ASSUME admissions \subseteq admissions', invitations \subseteq invitations'
    PROVE  /\ \A pol : Sound(pol) => Sound(pol)'
           /\ \A r : Backed(r) => Backed(r)'
           /\ \A c : Entitled(c) => Entitled(c)'
           /\ \A u, r, d : Admitted(u, r, d) => Admitted(u, r, d)'
<1>1. \A u, d : IsFounder(u, d) => IsFounder(u, d)'
  BY DEF IsFounder
<1>2. \A u, r, d : Admitted(u, r, d) => Admitted(u, r, d)'
  BY <1>1 DEF Admitted
<1>3. \A r : Backed(r) => Backed(r)'
  BY DEF Backed, OwnerGaveIt
<1>4. \A pol : Sound(pol) => Sound(pol)'
  BY <1>2, <1>3 DEF Sound
<1>5. \A c : Entitled(c) => Entitled(c)'
  BY <1>1, <1>2 DEF Entitled
<1> QED
  BY <1>2, <1>3, <1>4, <1>5

-----------------------------------------------------------------------------
(* What a check on the model establishes.                                   *)

LEMMA CreatorIsAdmitted ==
    ASSUME Shape, Authority, NEW u \in Dids, NEW d \in Domains,
           Enforce(mem, u, d, d, "repo:create")
    PROVE  \E r \in Roles : Admitted(u, r, d)
<1>1. mem \in Policy
  BY DEF Shape, TypeOK
<1>2. PICK r \in mem.p :
         /\ r.dom = d /\ keyMatch2(d, r.obj) /\ r.act = "repo:create"
         /\ \/ u = r.sub
            \/ /\ r.sub \in Roles
               /\ \E role \in Roles : InRole(u, role, d) \in mem.g
  BY <1>1, EnforceMeans
<1>3. r.sub = Member /\ Member \notin Dids
  <2>1. r.obj = d
    BY <1>2, DomainsAssumption DEF keyMatch2
  <2> QED
    BY <1>2, <2>1, DidsAssumption DEF Authority, AllSound, Sound, Backed, Roles
<1>4. PICK role \in Roles : InRole(u, role, d) \in mem.g
  BY <1>2, <1>3
<1> QED
  BY <1>4 DEF Authority, AllSound, Sound, InRole

LEMMA InviterIsOwner ==
    ASSUME Shape, Authority, NEW u \in Dids, NEW d \in Domains, NEW repo \in Repos,
           Enforce(mem, u, d, repo, "repo:invite")
    PROVE  repo[1] = u
<1>1. mem \in Policy
  BY DEF Shape, TypeOK
<1>2. PICK r \in mem.p :
         /\ r.dom = d /\ keyMatch2(repo, r.obj) /\ r.act = "repo:invite"
         /\ \/ u = r.sub
            \/ /\ r.sub \in Roles
               /\ \E role \in Roles : InRole(u, role, d) \in mem.g
  BY <1>1, EnforceMeans
<1>3. OwnerGaveIt(r) /\ r.obj[1] = repo[1]
  <2>1. r.obj \in Repos /\ r.obj[1] = repo[1]
    BY <1>2, DomainsAssumption DEF keyMatch2
  <2> QED
    BY <1>2, <2>1 DEF Authority, AllSound, Sound, Backed
<1>4. r.sub = repo[1]
  BY <1>2, <1>3 DEF OwnerGaveIt, CollaboratorActs
<1>5. repo[1] \notin Roles
  BY DidsAssumption DEF Repos
<1> QED
  BY <1>2, <1>4, <1>5

LEMMA KnotOwnerIsFounder ==
    ASSUME Authority, NEW u \in Dids, NEW d \in Domains,
           HasGroupingPolicy(mem, u, Owner, d)
    PROVE  IsFounder(u, d)
<1>1. Admitted(u, Owner, d)
  BY DEF Authority, AllSound, Sound, HasGroupingPolicy, InRole
<1> QED
  BY <1>1 DEF Admitted, Owner, Member

-----------------------------------------------------------------------------
(* What a grant adds is sound.                                              *)

RulesBacked == \A r \in mem.p : Backed(r)
RolesAdmitted == \A x \in mem.g : x.sub \in Dids => Admitted(x.sub, x.role, x.dom)

\* The rules of the model stay backed when those a grant adds are.
LEMMA NewRules ==
    ASSUME Authority, admissions \subseteq admissions', invitations \subseteq invitations',
           NEW rules, mem'.p \subseteq mem.p \cup rules, \A r \in rules : Backed(r)'
    PROVE  RulesBacked'
<1>1. \A r \in mem.p : Backed(r)'
  BY Grow DEF Authority, AllSound, Sound
<1> QED
  BY <1>1 DEF RulesBacked

LEMMA SameRules ==
    ASSUME Authority, admissions \subseteq admissions', invitations \subseteq invitations',
           mem'.p = mem.p
    PROVE  RulesBacked'
BY Grow DEF Authority, AllSound, Sound, RulesBacked

\* The roles of the model stay admitted when the one a grant adds is.
LEMMA NewRole ==
    ASSUME Authority, admissions \subseteq admissions', invitations \subseteq invitations',
           NEW u, NEW role, NEW d,
           mem'.g = mem.g \cup {InRole(u, role, d)},
           u \in Dids => Admitted(u, role, d)'
    PROVE  RolesAdmitted'
<1>1. \A x \in mem.g : x.sub \in Dids => Admitted(x.sub, x.role, x.dom)'
  BY Grow DEF Authority, AllSound, Sound
<1>2. ASSUME NEW x \in mem'.g, x.sub \in Dids PROVE Admitted(x.sub, x.role, x.dom)'
  <2>1. CASE x \in mem.g
    BY <1>1, <1>2, <2>1
  <2>2. CASE x = InRole(u, role, d)
    <3>1. x.sub = u /\ x.role = role /\ x.dom = d
      BY <2>2 DEF InRole
    <3> QED
      BY <1>2, <3>1
  <2> QED
    BY <1>2, <2>1, <2>2
<1> QED
  BY <1>2 DEF RolesAdmitted

LEMMA SameRoles ==
    ASSUME Authority, admissions \subseteq admissions', invitations \subseteq invitations',
           mem'.g = mem.g
    PROVE  RolesAdmitted'
BY Grow DEF Authority, AllSound, Sound, RolesAdmitted

LEMMA DomainRulesBacked ==
    ASSUME NEW d \in Domains, NEW r \in DomainRules(d)
    PROVE  Backed(r)
BY DomainsAssumption DEF DomainRules, Rules, Backed, Owner, Member

LEMMA OwnerRulesBacked ==
    ASSUME NEW d \in Domains, NEW repo \in Repos, NEW r \in OwnerRules(repo[1], d, repo)
    PROVE  Backed(r)
<1>1. r.obj = repo /\ r.dom = d
  BY DEF OwnerRules, Rules
<1>2. r.sub = repo[1] \/ (r.sub = Owner /\ r.act = "repo:delete")
  BY DEF OwnerRules, Rules
<1> QED
  BY <1>1, <1>2, DomainsAssumption DEF Backed, OwnerGaveIt

LEMMA CollaboratorRulesBacked ==
    ASSUME NEW d \in Domains, NEW repo \in Repos, NEW u,
           NEW r \in CollaboratorRules(u, d, repo),
           [by |-> repo[1], who |-> u, repo |-> repo, dom |-> d] \in invitations'
    PROVE  Backed(r)'
<1>1. r.obj = repo /\ r.dom = d /\ r.sub = u /\ r.act \in CollaboratorActs
  BY DEF CollaboratorRules, Rules
<1> QED
  BY <1>1, DomainsAssumption DEF Backed, OwnerGaveIt

-----------------------------------------------------------------------------
(* The steps.                                                               *)

\* What no step but those of Sound(mem)' has to argue again.
LEMMA Others ==
    ASSUME Authority, admissions \subseteq admissions', invitations \subseteq invitations'
    PROVE  /\ UNCHANGED mem => Sound(mem)'
           /\ UNCHANGED acl => Sound(acl)'
           /\ UNCHANGED buf => \A x \in Requests : Sound(buf[x])'
           /\ UNCHANGED rows => CreatorsAdmitted'
<1>1. UNCHANGED mem => Sound(mem)'
  BY Grow DEF Authority, AllSound
<1>2. UNCHANGED acl => Sound(acl)'
  BY Grow DEF Authority, AllSound
<1>3. UNCHANGED buf => \A x \in Requests : Sound(buf[x])'
  BY Grow DEF Authority, AllSound
<1>4. UNCHANGED rows => CreatorsAdmitted'
  BY Grow DEF Authority, CreatorsAdmitted
<1> QED
  BY <1>1, <1>2, <1>3, <1>4

\* A request keeps its entitlement as it goes on and as it ends.
LEMMA StillEntitled ==
    ASSUME Shape, Authority, NEW t \in Requests, NEW s, Goto(t, s) \/ Finish(t),
           admissions \subseteq admissions', invitations \subseteq invitations'
    PROVE  AllEntitled'
<1> SUFFICES ASSUME NEW x \in Requests, req'[x] # None PROVE Entitled(req[x])'
  BY DEF AllEntitled
<1>1. req'[x] = req[x]
  BY DEF Goto, Finish, Shape, TypeOK
<1> QED
  BY <1>1, Grow DEF Authority, AllEntitled

LEMMA ArriveEntitled ==
    ASSUME Shape, Authority, NEW t \in Requests, NEW op, NEW u, NEW d, NEW r, NEW w, NEW s,
           Arrive(t, op, u, d, r, w, s), UNCHANGED history,
           Entitled([op |-> op, user |-> u, dom |-> d, repo |-> r, who |-> w])
    PROVE  AllEntitled'
<1> DEFINE c == [op |-> op, user |-> u, dom |-> d, repo |-> r, who |-> w]
<1> SUFFICES ASSUME NEW x \in Requests, req'[x] # None PROVE Entitled(req[x])'
  BY DEF AllEntitled
<1>1. req' = [req EXCEPT ![t] = c] /\ Entitled(c)
  BY DEF Arrive
<1> HIDE DEF c
<1>2. req'[x] = IF x = t THEN c ELSE req[x]
  BY <1>1 DEF Shape, TypeOK
<1>3. Entitled(req'[x])
  BY <1>1, <1>2 DEF Authority, AllEntitled
<1> QED
  BY <1>3, Grow DEF history

LEMMA ArrivalAuthority ==
    ASSUME Shape, Authority, NEW t \in Requests, Arrival(t)
    PROVE  Authority'
<1> DEFINE Same == UNCHANGED <<mem, acl, tables, writer, knots, buf, history, unsaved, leftover>>
<1>1. ASSUME Same, AllEntitled' PROVE Authority'
  BY <1>1, Others DEF Authority, AllSound, tables, history
<1>2. ASSUME NEW u \in Dids, NEW d \in Domains, RegistrationKey(t, u, d) PROVE Authority'
  <2>1. Same /\ Arrive(t, "RegistrationKey", u, d, None, u, "upsert")
    BY <1>2 DEF RegistrationKey
  <2>2. Entitled([op |-> "RegistrationKey", user |-> u, dom |-> d, repo |-> None, who |-> u])
    BY DEF Entitled
  <2> QED
    BY <1>1, <2>1, <2>2, ArriveEntitled
<1>3. ASSUME NEW u \in Dids, NEW d \in Domains, InitKnotServer(t, u, d) PROVE Authority'
  <2>1. Same /\ Arrive(t, "InitKnotServer", u, d, None, u, "callKnot")
    BY <1>3 DEF InitKnotServer
  <2>2. Entitled([op |-> "InitKnotServer", user |-> u, dom |-> d, repo |-> None, who |-> u])
    BY DEF Entitled
  <2> QED
    BY <1>1, <2>1, <2>2, ArriveEntitled
<1>4. ASSUME NEW u \in Dids, NEW d \in Domains, NEW w \in Dids, AddMemberToKnot(t, u, d, w)
      PROVE  Authority'
  <2>1. Same /\ Arrive(t, "AddMember", u, d, None, w, "callKnot")
    BY <1>4 DEF AddMemberToKnot
  <2>2. IsFounder(u, d)
    BY <1>4, KnotOwnerIsFounder DEF AddMemberToKnot
  <2>3. Entitled([op |-> "AddMember", user |-> u, dom |-> d, repo |-> None, who |-> w])
    BY <2>2 DEF Entitled
  <2> QED
    BY <1>1, <2>1, <2>3, ArriveEntitled
<1>5. ASSUME NEW u \in Dids, Login(t, u) PROVE Authority'
  <2>1. Same /\ Arrive(t, "Login", u, DefaultKnot, None, u, "grant")
    BY <1>5 DEF Login
  <2>2. Entitled([op |-> "Login", user |-> u, dom |-> DefaultKnot, repo |-> None, who |-> u])
    BY DEF Entitled
  <2> QED
    BY <1>1, <2>1, <2>2, ArriveEntitled
<1>6. ASSUME NEW u \in Dids, NEW d \in Domains, NEW n \in RepoNames, NewRepo(t, u, d, n)
      PROVE  Authority'
  <2>1. Same /\ Arrive(t, "NewRepo", u, d, <<u, n>>, u, "callKnot")
    BY <1>6 DEF NewRepo
  <2>2. \E r \in Roles : Admitted(u, r, d)
    BY <1>6, CreatorIsAdmitted DEF NewRepo
  <2>3. Entitled([op |-> "NewRepo", user |-> u, dom |-> d, repo |-> <<u, n>>, who |-> u])
    BY <2>2 DEF Entitled
  <2> QED
    BY <1>1, <2>1, <2>3, ArriveEntitled
<1>7. ASSUME NEW u \in Dids, NEW row \in rows, NEW w \in Dids, AddCollaboratorToRepo(t, u, row, w)
      PROVE  Authority'
  <2>1. Same /\ Arrive(t, "AddCollaborator", u, row.dom, row.repo, w, "callKnot")
    BY <1>7 DEF AddCollaboratorToRepo
  <2>2. row.dom \in Domains /\ row.repo \in Repos
    BY DEF Shape, TypeOK, Row
  <2>3. row.repo[1] = u
    BY <1>7, <2>2, InviterIsOwner DEF AddCollaboratorToRepo
  <2>4. Entitled([op |-> "AddCollaborator", user |-> u, dom |-> row.dom, repo |-> row.repo, who |-> w])
    BY <2>3 DEF Entitled
  <2> QED
    BY <1>1, <2>1, <2>4, ArriveEntitled
<1> QED
  BY <1>2, <1>3, <1>4, <1>5, <1>6, <1>7 DEF Arrival

LEMMA AnswerAuthority ==
    ASSUME Shape, Authority, NEW t \in Requests, Answer(t)
    PROVE  Authority'
<1>1. /\ UNCHANGED <<mem, acl, tables, buf, history>>
      /\ (\E s \in Steps : Goto(t, s)) \/ Finish(t)
  <2>1. {"insert", "register", "grant", "read"} \subseteq Steps
    BY DEF Steps, InFlightSteps
  <2> QED
    BY <2>1 DEF Answer, InitKnotServerAnswer, AddMemberAnswer, NewRepoAnswer, AddCollaboratorAnswer
<1>2. AllEntitled'
  BY <1>1, StillEntitled DEF history
<1> QED
  BY <1>1, <1>2, Others DEF Authority, AllSound, tables, history

LEMMA WorkAuthority ==
    ASSUME Shape, Authority, NEW t \in Requests, Work(t)
    PROVE  Authority'
<1>1. /\ admissions \subseteq admissions'
      /\ invitations \subseteq invitations'
      /\ UNCHANGED <<acl, buf, rows>>
  BY DEF Work, RegistrationKeyUpsert, RegistrationKeyFails, InitKnotServerRegister,
         InitKnotServerAddDomain, InitKnotServerAddOwner, AddMemberGrant, LoginGrant,
         NewRepoInsert, NewRepoGrant, AddCollaboratorGrant, AddCollaboratorLink,
         tables, history
<1>2. Sound(acl)' /\ (\A x \in Requests : Sound(buf[x])') /\ CreatorsAdmitted'
  BY <1>1, Others
<1>3. ASSUME Sound(mem)', AllEntitled' PROVE Authority'
  BY <1>2, <1>3 DEF Authority, AllSound
<1>0. ASSUME RulesBacked', RolesAdmitted' PROVE Sound(mem)'
  BY <1>0 DEF Sound, RulesBacked, RolesAdmitted
<1>4. UNCHANGED mem => Sound(mem)'
  BY <1>1, Others
<1>5. ASSUME NEW s, Goto(t, s) \/ Finish(t) PROVE AllEntitled'
  BY <1>1, <1>5, StillEntitled
<1>6. mem \in Policy
  BY DEF Shape, TypeOK
<1>7. ASSUME pc[t] \in InFlightSteps
      PROVE  /\ req[t].user \in Dids /\ req[t].who \in Dids /\ req[t].dom \in Domains
             /\ req[t].op \in {"NewRepo", "AddCollaborator"} => req[t].repo \in Repos
             /\ Entitled(req[t])
  BY <1>7, InFlightCall DEF Call, CallShape, Authority, AllEntitled
<1>8. {"grant", "grantOwner", "register"} \subseteq InFlightSteps
  BY DEF InFlightSteps
<1>9. CASE RegistrationKeyUpsert(t) \/ RegistrationKeyFails(t)
  BY <1>3, <1>4, <1>5, <1>9 DEF RegistrationKeyUpsert, RegistrationKeyFails
<1>10. CASE InitKnotServerRegister(t)
  <2>1. UNCHANGED mem
    BY <1>10 DEF InitKnotServerRegister
  <2>2. ASSUME NEW x \in Requests, req'[x] # None PROVE Entitled(req[x])'
    <3>1. CASE x = t
      <4>1. req[t].op = "InitKnotServer" /\ req[t] \in Call
        BY <1>8, <1>10, InFlightCall DEF InitKnotServerRegister, At
      <4>2. req'[t] = [req[t] EXCEPT !.who = claimant[req[t].dom]]
        BY <1>10 DEF InitKnotServerRegister, Shape, TypeOK
      <4>3. req'[t].op = "InitKnotServer"
        BY <4>1, <4>2 DEF Call
      <4> QED
        BY <3>1, <4>3 DEF Entitled
    <3>2. CASE x # t
      <4>1. req'[x] = req[x]
        BY <1>10, <3>2 DEF InitKnotServerRegister, Shape, TypeOK
      <4> QED
        BY <1>1, <2>2, <4>1, Grow DEF Authority, AllEntitled
    <3> QED
      BY <3>1, <3>2
  <2>3. AllEntitled'
    BY <2>2 DEF AllEntitled
  <2> QED
    BY <1>3, <1>4, <2>1, <2>3
<1>11. CASE InitKnotServerAddDomain(t)
  <2>1. pc[t] = "grant" /\ mem' = AddDomain(mem, req[t].dom) /\ Goto(t, "grantOwner")
    BY <1>11 DEF InitKnotServerAddDomain, At
  <2>2. /\ mem'.p \subseteq mem.p \cup DomainRules(req[t].dom)
        /\ mem'.g = mem.g \cup {InRole(Owner, Member, req[t].dom)}
    BY <1>6, <1>7, <1>8, <2>1, AddDomainAdds
  <2>3. \A r \in DomainRules(req[t].dom) : Backed(r)'
    BY <1>1, <1>7, <1>8, <2>1, DomainRulesBacked, Grow
  <2>4. Owner \notin Dids
    BY DidsAssumption DEF Roles
  <2>5. RulesBacked'
    BY <1>1, <2>2, <2>3, NewRules
  <2>6. RolesAdmitted'
    BY <1>1, <2>2, <2>4, NewRole
  <2> QED
    BY <1>0, <1>3, <1>5, <2>1, <2>5, <2>6
<1>12. CASE InitKnotServerAddOwner(t)
  <2>1. pc[t] = "grantOwner" /\ req[t].op = "InitKnotServer" /\ Goto(t, "commit")
    BY <1>12 DEF InitKnotServerAddOwner, At
  <2>2. PICK u \in Dids, d \in Domains : u = req[t].who /\ d = req[t].dom
    BY <1>7, <1>8, <2>1
  <2>3. mem'.p = mem.p /\ mem'.g = mem.g \cup {InRole(u, Owner, d)}
    BY <1>6, <1>12, <2>2, AddOwnerAdds DEF InitKnotServerAddOwner
  <2>4. [by |-> u, who |-> u, role |-> Owner, dom |-> d] \in admissions'
    BY <1>12, <2>2 DEF InitKnotServerAddOwner
  <2>5. Admitted(u, Owner, d)'
    BY <2>4 DEF Admitted, IsFounder
  <2>6. RulesBacked' /\ RolesAdmitted'
    BY <1>1, <2>3, <2>5, SameRules, NewRole
  <2> QED
    BY <1>0, <1>3, <1>5, <2>1, <2>6
<1>13. CASE AddMemberGrant(t)
  <2>1. pc[t] = "grant" /\ req[t].op = "AddMember" /\ Finish(t)
    BY <1>13 DEF AddMemberGrant, At
  <2>2. PICK u \in Dids, d \in Domains : u = req[t].who /\ d = req[t].dom
    BY <1>7, <1>8, <2>1
  <2>3. mem'.p = mem.p /\ mem'.g = mem.g \cup {InRole(u, Member, d)}
    BY <1>6, <1>13, <2>2, AddMemberAdds DEF AddMemberGrant
  <2>4. PICK by \in Dids : by = req[t].user /\ IsFounder(by, d)
    BY <1>7, <1>8, <2>1, <2>2 DEF Entitled
  <2>5. [by |-> by, who |-> u, role |-> Member, dom |-> d] \in admissions' /\ IsFounder(by, d)'
    BY <1>1, <1>13, <2>2, <2>4 DEF AddMemberGrant, IsFounder
  <2>6. Admitted(u, Member, d)'
    BY <2>5 DEF Admitted
  <2>7. RulesBacked' /\ RolesAdmitted'
    BY <1>1, <2>3, <2>6, SameRules, NewRole
  <2> QED
    BY <1>0, <1>3, <1>5, <2>1, <2>7
<1>14. CASE LoginGrant(t)
  <2>1. pc[t] = "grant" /\ req[t].op = "Login" /\ Goto(t, "snapshot")
    BY <1>14 DEF LoginGrant, At
  <2>2. PICK u \in Dids, d \in Domains : u = req[t].who /\ d = req[t].dom
    BY <1>7, <1>8, <2>1
  <2>3. mem'.p = mem.p /\ mem'.g = mem.g \cup {InRole(u, Member, d)}
    BY <1>6, <1>14, <2>2, AddMemberAdds DEF LoginGrant
  <2>4. d = DefaultKnot
    BY <1>7, <1>8, <2>1, <2>2 DEF Entitled
  <2>5. [by |-> u, who |-> u, role |-> Member, dom |-> d] \in admissions'
    BY <1>14, <2>2 DEF LoginGrant
  <2>6. Admitted(u, Member, d)'
    BY <2>4, <2>5 DEF Admitted
  <2>7. RulesBacked' /\ RolesAdmitted'
    BY <1>1, <2>3, <2>6, SameRules, NewRole
  <2> QED
    BY <1>0, <1>3, <1>5, <2>1, <2>7
<1>15. CASE NewRepoInsert(t)
  BY <1>3, <1>4, <1>5, <1>15 DEF NewRepoInsert
<1>16. CASE NewRepoGrant(t)
  <2>1. pc[t] = "grant" /\ req[t].op = "NewRepo" /\ Goto(t, "commit")
        /\ mem' = AddRepo(mem, req[t].user, req[t].dom, req[t].repo)
    BY <1>16 DEF NewRepoGrant, At
  <2>2. req[t].repo \in Repos /\ req[t].repo[1] = req[t].user
    BY <1>7, <1>8, <2>1 DEF Entitled
  <2>3. /\ mem'.p \subseteq mem.p \cup OwnerRules(req[t].repo[1], req[t].dom, req[t].repo)
        /\ mem'.g = mem.g
    BY <1>6, <1>7, <1>8, <2>1, <2>2, AddRepoAdds
  <2>4. \A r \in OwnerRules(req[t].repo[1], req[t].dom, req[t].repo) : Backed(r)'
    BY <1>1, <1>7, <1>8, <2>1, <2>2, OwnerRulesBacked, Grow
  <2>5. RulesBacked' /\ RolesAdmitted'
    BY <1>1, <2>3, <2>4, NewRules, SameRoles
  <2> QED
    BY <1>0, <1>3, <1>5, <2>1, <2>5
<1>17. CASE AddCollaboratorGrant(t)
  <2>1. pc[t] = "grant" /\ req[t].op = "AddCollaborator" /\ Goto(t, "link")
        /\ mem' = AddCollaborator(mem, req[t].who, req[t].dom, req[t].repo)
    BY <1>17 DEF AddCollaboratorGrant, At
  <2>2. req[t].repo \in Repos /\ req[t].repo[1] = req[t].user
    BY <1>7, <1>8, <2>1 DEF Entitled
  <2>3. /\ mem'.p \subseteq mem.p \cup CollaboratorRules(req[t].who, req[t].dom, req[t].repo)
        /\ mem'.g = mem.g
    BY <1>6, <1>7, <1>8, <2>1, <2>2, AddCollaboratorAdds
  <2>4. [by |-> req[t].repo[1], who |-> req[t].who, repo |-> req[t].repo, dom |-> req[t].dom]
          \in invitations'
    BY <1>17, <2>2 DEF AddCollaboratorGrant
  <2>5. \A r \in CollaboratorRules(req[t].who, req[t].dom, req[t].repo) : Backed(r)'
    BY <1>7, <1>8, <2>1, <2>2, <2>4, CollaboratorRulesBacked
  <2>6. RulesBacked' /\ RolesAdmitted'
    BY <1>1, <2>3, <2>5, NewRules, SameRoles
  <2> QED
    BY <1>0, <1>3, <1>5, <2>1, <2>6
<1>18. CASE AddCollaboratorLink(t)
  BY <1>3, <1>4, <1>5, <1>18 DEF AddCollaboratorLink
<1> QED
  BY <1>9, <1>10, <1>11, <1>12, <1>13, <1>14, <1>15, <1>16, <1>17, <1>18 DEF Work

\* The end of a request moves copies of the policy about, all of them sound,
\* and Commit lists a repository of somebody who was admitted.
LEMMA EndingAuthority ==
    ASSUME Shape, Authority, NEW t \in Requests, Ending(t)
    PROVE  Authority'
<1>1. UNCHANGED <<admissions, invitations>>
  BY DEF Ending, WriteFails, Commit, CommitFails, SaveSnapshot, SaveWrite, SaveFails,
         ReloadRead, ReloadSwap, ReloadFails, history
<1>2. AllEntitled'
  <2>1. (\E s : Goto(t, s)) \/ Finish(t)
    BY DEF Ending, WriteFails, Commit, CommitFails, SaveSnapshot, SaveWrite, SaveFails,
           AfterSave, ReloadRead, ReloadSwap, ReloadFails
  <2> QED
    BY <1>1, <2>1, StillEntitled
<1>3. Sound(EmptyPolicy)
  BY DEF Sound, EmptyPolicy
<1>4. /\ mem' \in {mem, buf[t]}
      /\ acl' \in {acl, buf[t]}
      /\ buf' = buf \/ \E new \in {mem, acl, EmptyPolicy} : buf' = [buf EXCEPT ![t] = new]
  BY DEF Ending, WriteFails, Commit, CommitFails, SaveSnapshot, SaveWrite, SaveFails,
         ReloadRead, ReloadSwap, Replace, ReloadFails
<1>5. Sound(mem') /\ Sound(acl')
  BY <1>4 DEF Authority, AllSound
<1>6. ASSUME NEW x \in Requests PROVE Sound(buf'[x])
  <2>1. buf \in [Requests -> Policy]
    BY DEF Shape, TypeOK
  <2>2. buf'[x] \in {buf[x], mem, acl, EmptyPolicy}
    BY <1>4, <2>1
  <2> QED
    BY <1>3, <2>2 DEF Authority, AllSound
<1>7. AllSound'
  BY <1>1, <1>5, <1>6, Grow DEF AllSound
<1>8. CreatorsAdmitted'
  <2>1. CASE Commit(t)
    <3>1. SUFFICES ASSUME NEW row \in rows' PROVE \E r \in Roles : Admitted(row.repo[1], r, row.dom)'
      BY DEF CreatorsAdmitted
    <3>2. CASE row \in rows
      BY <1>1, <3>2, Grow DEF Authority, CreatorsAdmitted
    <3>3. CASE row \notin rows
      <4>1. pc[t] = "commit" /\ req[t].op = "NewRepo"
            /\ row = [repo |-> req[t].repo, dom |-> req[t].dom, rkey |-> t]
        BY <2>1, <3>1, <3>3 DEF Commit
      <4>2. req[t] # None
        BY <4>1, InFlightCall DEF InFlightSteps
      <4>3. Entitled(req[t])
        BY <4>2 DEF Authority, AllEntitled
      <4>4. \E r \in Roles : Admitted(row.repo[1], r, row.dom)
        BY <4>1, <4>3 DEF Entitled
      <4> QED
        BY <1>1, <4>4, Grow
    <3> QED
      BY <3>2, <3>3
  <2>2. CASE ~Commit(t)
    <3>1. UNCHANGED rows
      BY <2>2 DEF Ending, WriteFails, CommitFails, SaveSnapshot, SaveWrite, SaveFails,
                  ReloadRead, ReloadSwap, ReloadFails, tables
    <3> QED
      BY <1>1, <3>1, Others
  <2> QED
    BY <2>1, <2>2
<1> QED
  BY <1>2, <1>7, <1>8 DEF Authority

LEMMA CrashAuthority ==
    ASSUME Shape, Authority, Crash
    PROVE  Authority'
<1>1. UNCHANGED <<acl, rows, admissions, invitations>> /\ mem' = acl
  BY DEF Crash, Replace, tables, history
<1>2. \A x \in Requests : buf'[x] = EmptyPolicy /\ req'[x] = None
  BY DEF Crash
<1>3. Sound(EmptyPolicy)
  BY DEF Sound, EmptyPolicy
<1>4. Sound(mem') /\ Sound(acl') /\ \A x \in Requests : Sound(buf'[x])
  BY <1>1, <1>2, <1>3 DEF Authority, AllSound
<1>5. AllSound'
  BY <1>1, <1>4, Grow DEF AllSound
<1> QED
  BY <1>1, <1>2, <1>5, Others DEF Authority, AllEntitled

LEMMA AuthorityInit == Init => Authority
BY DEF Init, Authority, AllSound, Sound, EmptyPolicy, AllEntitled, CreatorsAdmitted

LEMMA AuthorityNext == Shape /\ Authority /\ [Next]_vars => Authority'
<1> SUFFICES ASSUME Shape, Authority, [Next]_vars PROVE Authority'
  OBVIOUS
<1>1. CASE UNCHANGED vars
  <2>1. UNCHANGED <<mem, acl, buf, rows, req, admissions, invitations>>
    BY <1>1 DEF vars, tables, history
  <2> QED
    BY <2>1, Others, Grow DEF Authority, AllSound, AllEntitled
<1>2. CASE Served
  <2>1. UNCHANGED <<mem, acl, buf, rows, req, admissions, invitations>>
    BY <1>2 DEF Served, vars, tables, history
  <2> QED
    BY <2>1, Others, Grow DEF Authority, AllSound, AllEntitled
<1>3. ASSUME NEW t \in Requests, Arrival(t) \/ Answer(t) \/ Work(t) \/ Ending(t)
      PROVE  Authority'
  BY <1>3, ArrivalAuthority, AnswerAuthority, WorkAuthority, EndingAuthority
<1> QED
  BY <1>1, <1>2, <1>3, CrashAuthority DEF Next

LEMMA AuthorityAlways == Spec => [](Shape /\ Authority)
BY ShapeInit, ShapeNext, AuthorityInit, AuthorityNext, PTL DEF Spec

\* Only a repository's owner ever makes somebody its collaborator, and nobody
\* else than those, and the knot's owner for deletion, has a rule on it, in
\* any copy of the policy.
THEOREM OwnersInvite == Spec => []InviteChain
<1>1. Authority => InviteChain
  BY DEF Authority, AllSound, Sound, Backed, InviteChain, Copies
<1> QED
  BY <1>1, AuthorityAlways, PTL

\* Roles on a knot come from its registration, from the owner it named, or,
\* on the default knot, from a login.
THEOREM FoundersAdmit == Spec => []AdmissionChain
<1>1. Authority => AdmissionChain
  BY DEF Authority, AllSound, Sound, AdmissionChain, Copies
<1> QED
  BY <1>1, AuthorityAlways, PTL

\* Nobody's repository is listed on a knot that had not let them in.
THEOREM OnlyAdmittedCreate == Spec => []CreatorsAdmitted
<1>1. Authority => CreatorsAdmitted
  BY DEF Authority
<1> QED
  BY <1>1, AuthorityAlways, PTL

-----------------------------------------------------------------------------
(* One request at a time (MaxInFlight = 1): rows, saved rules and model     *)
(* agree.  Of the only request in flight it is known what it did to the     *)
(* model since it was like the table, and what the tables still lack.       *)

\* The two rules of a knot come together.
Paired(pol) == \A d \in Domains : DomainRules(d) \subseteq pol.p \/ DomainRules(d) \cap pol.p = {}

\* The model is the table, but for members and what a reload left over.
Near(m, a) ==
    /\ a.p \subseteq m.p /\ a.g \subseteq m.g
    /\ m.p \ a.p \subseteq leftover.p
    /\ \A x \in m.g \ a.g : x.role = Member \/ x \in leftover.g

Listed(repo, d) == \E row \in rows : row.repo = repo /\ row.dom = d

Rowed(r) == r.obj \in Repos => Listed(r.obj, r.dom) \/ r \in leftover.p

Joined(r) ==
    r.obj \in Repos /\ r.act = "repo:collaborator" =>
        \/ [who |-> r.sub, repo |-> r.obj, dom |-> r.dom] \in collaborators
        \/ r \in leftover.p

\* A repository without a row has all of its owner's rules, which a reload
\* that failed left, or none: AddPolicies, which then adds none, loses none.
Whole(pol) ==
    \A repo \in Repos, d \in Domains :
        \/ HasRow(repo)
        \/ OwnerRules(repo[1], d, repo) \subseteq pol.p
        \/ OwnerRules(repo[1], d, repo) \cap pol.p = {}

Begun(pol, d) == DomainRules(d) \subseteq pol.p /\ InRole(Owner, Member, d) \in pol.g

Owned(pol, d) == Begun(pol, d) /\ InRole(claimant[d], Owner, d) \in pol.g

Saving == {"snapshot", "write"}

\* What is known of the only call c that is in flight, when its next step is s.
Stage(t, c, s) ==
    /\ s \in {"upsert", "callKnot", "insert", "register", "grant"} \/ c.op = "Login" =>
          Near(mem, acl)
    /\ s = "upsert" => c.op = "RegistrationKey" /\ c.dom \notin registered
    /\ s = "grantOwner" => c.op = "InitKnotServer"
    /\ s = "link" => c.op = "AddCollaborator"
    /\ s = "commit" => c.op \in {"InitKnotServer", "NewRepo", "AddCollaborator"}
    /\ c.op = "NewRepo" => c.repo[1] = c.user
    /\ c.op = "NewRepo" /\ s \in {"callKnot", "insert", "grant", "commit"} => ~HasRow(c.repo)
    /\ c.op = "NewRepo" /\ s \in {"commit"} \cup Saving =>
          OwnerRules(c.user, c.dom, c.repo) \subseteq mem.p
    /\ c.op = "AddCollaborator" => Listed(c.repo, c.dom)
    /\ c.op = "InitKnotServer" =>
          /\ s \in {"grant", "grantOwner", "commit"} \cup Saving => c.who = claimant[c.dom]
          /\ s \in {"grantOwner", "commit"} \cup Saving => Begun(mem, c.dom)
          /\ s \in {"commit"} \cup Saving => InRole(c.who, Owner, c.dom) \in mem.g
    /\ s \notin {"read", "swap"} => \A r \in mem.p :
          /\ \/ Rowed(r)
             \/ s = "commit" /\ c.op = "NewRepo" /\ r \in OwnerRules(c.user, c.dom, c.repo)
          /\ \/ Joined(r)
             \/ s = "link" /\ r \in CollaboratorRules(c.who, c.dom, c.repo)
    /\ s = "write" => buf[t] = mem
    /\ s = "swap" => buf[t] = acl

\* A listed repository has its owner's rules in the table, unless its handler
\* died, or is about to save them; so have a registered knot and its owner.
RowSaved(row) ==
    \/ OwnerRules(row.repo[1], row.dom, row.repo) \subseteq acl.p
    \/ Unsaved("NewRepo", row.dom)
    \/ \E t \in Requests : /\ pc[t] \in Saving /\ req[t].op = "NewRepo"
                           /\ req[t].repo = row.repo /\ req[t].dom = row.dom

KnotSaved(d) ==
    \/ Owned(acl, d)
    \/ Unsaved("InitKnotServer", d)
    \/ \E t \in Requests : /\ pc[t] \in Saving /\ req[t].op = "InitKnotServer"
                           /\ req[t].dom = d

Settled ==
    /\ acl.p \subseteq mem.p /\ acl.g \subseteq mem.g
    /\ Paired(mem) /\ Paired(acl)
    /\ Whole(mem) /\ Whole(acl)
    /\ \A r \in acl.p : Rowed(r) /\ Joined(r)

OneByOne ==
    /\ \A t, u \in InFlight : t = u
    /\ Settled
    /\ Quiet => Near(mem, acl)
    /\ \A t \in InFlight : Stage(t, req[t], pc[t])
    /\ \A row \in rows : RowSaved(row)
    /\ \A d \in registered : KnotSaved(d)

-----------------------------------------------------------------------------
(* What the operations of Rbac keep, and when they add all.                 *)

LEMMA AddPoliciesKeeps ==
    ASSUME NEW pol \in Policy, NEW rules \in SUBSET Rule
    PROVE  /\ pol.p \subseteq AddPolicies(pol, rules).p
           /\ rules \cap pol.p = {} => rules \subseteq AddPolicies(pol, rules).p
           /\ \/ AddPolicies(pol, rules).p = pol.p
              \/ AddPolicies(pol, rules).p = pol.p \cup rules
BY DEF AddPolicies, Policy

LEMMA DomainRuleFacts ==
    ASSUME NEW d \in Domains
    PROVE  /\ DomainRules(d) \in SUBSET Rule
           /\ \A r \in DomainRules(d) : r.obj \in Domains /\ r.obj \notin Repos
                                        /\ r.dom = d /\ r.act # "repo:collaborator"
<1>1. /\ Owner \in Dids \cup Roles /\ Member \in Dids \cup Roles
      /\ {"server:invite"} \in SUBSET Acts /\ {"repo:create"} \in SUBSET Acts
  BY DEF Owner, Member, Roles, Acts, DomainActs
<1>2. DomainRules(d) \in SUBSET Rule
  BY <1>1, RulesType DEF DomainRules
<1> QED
  BY <1>2, DomainsAssumption DEF DomainRules, Rules

LEMMA RepoRuleFacts ==
    ASSUME NEW u \in Dids, NEW d \in Domains, NEW repo \in Repos
    PROVE  /\ OwnerRules(u, d, repo) \in SUBSET Rule
           /\ CollaboratorRules(u, d, repo) \in SUBSET Rule
           /\ \A r \in OwnerRules(u, d, repo) :
                 r.obj = repo /\ r.dom = d /\ r.act # "repo:collaborator"
           /\ \A r \in CollaboratorRules(u, d, repo) : r.obj = repo /\ r.dom = d /\ r.sub = u
<1>1. /\ Owner \in Dids \cup Roles /\ OwnerActs \in SUBSET Acts
      /\ {"repo:delete"} \in SUBSET Acts /\ CollaboratorActs \in SUBSET Acts
  BY DEF Owner, Roles, Acts, OwnerActs
<1>2. /\ OwnerRules(u, d, repo) \in SUBSET Rule
      /\ CollaboratorRules(u, d, repo) \in SUBSET Rule
  BY <1>1, RulesType DEF OwnerRules, CollaboratorRules
<1>3. \A r \in OwnerRules(u, d, repo) : r.obj = repo /\ r.dom = d /\ r.act # "repo:collaborator"
  BY DEF OwnerRules, Rules, OwnerActs
<1>4. \A r \in CollaboratorRules(u, d, repo) : r.obj = repo /\ r.dom = d /\ r.sub = u
  BY DEF CollaboratorRules, Rules
<1> QED
  BY <1>2, <1>3, <1>4

LEMMA AddDomainSets ==
    ASSUME NEW pol \in Policy, NEW d \in Domains, Paired(pol)
    PROVE  LET new == AddDomain(pol, d)
           IN  /\ new.p = pol.p \cup DomainRules(d)
               /\ new.g = pol.g \cup {InRole(Owner, Member, d)}
               /\ Paired(new)
<1> DEFINE new == AddDomain(pol, d)
           mid == AddPolicies(pol, DomainRules(d))
<1>1. mid \in Policy
  BY DomainRuleFacts, AddPoliciesAdds
<1>2. Owner \in Dids \cup Roles /\ Member \in Roles
  BY DEF Owner, Member, Roles
<1>3. new = AddGroupingPolicy(mid, Owner, Member, d)
  BY DEF AddDomain, DomainRules
<1> HIDE DEF new, mid
<1>4. new.p = mid.p
  BY <1>1, <1>2, <1>3, AddGroupingAdds
<1>5. mid.p = pol.p \cup DomainRules(d)
  <2>1. CASE DomainRules(d) \cap pol.p = {}
    BY <2>1, DomainRuleFacts, AddPoliciesAdds, AddPoliciesKeeps DEF mid
  <2>2. CASE DomainRules(d) \subseteq pol.p
    BY <2>2, DomainRuleFacts, AddPoliciesAdds, AddPoliciesKeeps DEF mid
  <2> QED
    BY <2>1, <2>2 DEF Paired
<1>6. new.g = pol.g \cup {InRole(Owner, Member, d)}
  BY AddDomainAdds DEF new
<1>7. ASSUME NEW e \in Domains PROVE DomainRules(e) \subseteq new.p \/ DomainRules(e) \cap new.p = {}
  <2>1. CASE e = d
    BY <1>4, <1>5, <2>1
  <2>2. CASE e # d
    BY <1>4, <1>5, <2>2, DomainRuleFacts DEF Paired
  <2> QED
    BY <2>1, <2>2
<1> QED
  BY <1>4, <1>5, <1>6, <1>7 DEF Paired, new

\* Rules of repositories leave the knots' pairs alone.
LEMMA PairedKept ==
    ASSUME NEW pol, NEW new, Paired(pol), pol.p \subseteq new.p,
           \A r \in new.p \ pol.p : r.obj \in Repos
    PROVE  Paired(new)
<1> SUFFICES ASSUME NEW d \in Domains
             PROVE  DomainRules(d) \subseteq new.p \/ DomainRules(d) \cap new.p = {}
  BY DEF Paired
<1>1. \A r \in DomainRules(d) : r \in new.p => r \in pol.p
  BY DomainRuleFacts
<1> QED
  BY <1>1 DEF Paired

\* Rules of knots and of listed repositories leave the others whole.
LEMMA WholeKept ==
    ASSUME NEW pol, NEW new, Whole(pol), pol.p \subseteq new.p,
           \A r \in new.p \ pol.p : r.obj \in Repos => HasRow(r.obj)
    PROVE  Whole(new)
<1> SUFFICES ASSUME NEW repo \in Repos, NEW d \in Domains, ~HasRow(repo)
             PROVE  \/ OwnerRules(repo[1], d, repo) \subseteq new.p
                    \/ OwnerRules(repo[1], d, repo) \cap new.p = {}
  BY DEF Whole
<1>1. repo[1] \in Dids
  BY DEF Repos
<1>2. \A r \in OwnerRules(repo[1], d, repo) : r \in new.p => r \in pol.p
  BY <1>1, RepoRuleFacts
<1> QED
  BY <1>2 DEF Whole

LEMMA AddRepoSets ==
    ASSUME NEW pol \in Policy, NEW d \in Domains, NEW repo \in Repos, Whole(pol), ~HasRow(repo)
    PROVE  LET new == AddRepo(pol, repo[1], d, repo)
           IN  /\ new.p = pol.p \cup OwnerRules(repo[1], d, repo)
               /\ new.g = pol.g
               /\ Whole(new)
<1> DEFINE rules == OwnerRules(repo[1], d, repo)
           new == AddRepo(pol, repo[1], d, repo)
<1>1. repo[1] \in Dids
  BY DEF Repos
<1>2. new = AddPolicies(pol, rules) /\ rules \in SUBSET Rule
  BY <1>1, RepoRuleFacts DEF AddRepo
<1>3. rules \subseteq pol.p \/ rules \cap pol.p = {}
  BY DEF Whole
<1>4. \A r \in rules : r.obj = repo /\ r.dom = d
  BY <1>1, RepoRuleFacts
<1> HIDE DEF rules, new
<1>5. new.p = pol.p \cup rules /\ new.g = pol.g
  BY <1>2, <1>3, AddPoliciesAdds, AddPoliciesKeeps
<1>6. ASSUME NEW other \in Repos, NEW e \in Domains, ~HasRow(other)
      PROVE  \/ OwnerRules(other[1], e, other) \subseteq new.p
             \/ OwnerRules(other[1], e, other) \cap new.p = {}
  <2>1. CASE other = repo /\ e = d
    BY <1>5, <2>1 DEF rules
  <2>2. CASE other # repo \/ e # d
    <3>1. other[1] \in Dids
      BY DEF Repos
    <3>2. \A r \in OwnerRules(other[1], e, other) : r \notin rules
      BY <1>4, <2>2, <3>1, RepoRuleFacts
    <3> QED
      BY <1>5, <1>6, <3>2 DEF Whole
  <2> QED
    BY <2>1, <2>2
<1> QED
  BY <1>5, <1>6 DEF Whole, new, rules

LEMMA AddCollaboratorSets ==
    ASSUME NEW pol \in Policy, NEW u \in Dids, NEW d \in Domains, NEW repo \in Repos
    PROVE  LET new == AddCollaborator(pol, u, d, repo)
           IN  /\ pol.p \subseteq new.p
               /\ new.p \subseteq pol.p \cup CollaboratorRules(u, d, repo)
               /\ new.g = pol.g
BY RepoRuleFacts, AddPoliciesAdds, AddPoliciesKeeps DEF AddCollaborator

-----------------------------------------------------------------------------
(* Steps of the only request.                                               *)

\* Nobody else is in flight when a request does something.
LEMMA ArrivesAlone ==
    ASSUME MaxInFlight = 1, OneByOne, NEW t \in Requests, NEW op, NEW u, NEW d, NEW r, NEW w, NEW s,
           Arrive(t, op, u, d, r, w, s)
    PROVE  InFlight = {}
<1> SUFFICES ASSUME NEW x \in InFlight PROVE FALSE
  OBVIOUS
<1>1. InFlight = {x}
  BY DEF OneByOne
<1>2. Cardinality(InFlight) = 1
  BY <1>1, FS_Singleton
<1> QED
  BY <1>2 DEF Arrive

LEMMA WorksAlone ==
    ASSUME OneByOne, NEW t \in Requests, pc[t] \in InFlightSteps
    PROVE  InFlight = {t}
BY DEF OneByOne, InFlight

LEMMA Moves ==
    ASSUME NEW t \in Requests, InFlight \subseteq {t}, pc \in [Requests -> Steps],
           NEW s, pc' = [pc EXCEPT ![t] = s]
    PROVE  /\ pc'[t] = s
           /\ InFlight' = IF s \in InFlightSteps THEN {t} ELSE {}
BY DEF InFlight

\* A step of t is right when its stage, or the quiet it leaves, is.
LEMMA StepAlone ==
    ASSUME Shape, NEW t \in Requests, InFlight \subseteq {t},
           NEW s, pc' = [pc EXCEPT ![t] = s],
           Settled', s \in InFlightSteps => Stage(t, req[t], s)',
           s \notin InFlightSteps => Near(mem, acl)',
           \A row \in rows' : RowSaved(row)', \A d \in registered' : KnotSaved(d)'
    PROVE  OneByOne'
<1>1. pc'[t] = s /\ InFlight' = IF s \in InFlightSteps THEN {t} ELSE {}
  BY Moves DEF Shape, TypeOK
<1> QED
  BY <1>1 DEF OneByOne, Quiet

\* What is saved stays so when the table and the claimant do, and whatever
\* becomes of a request that does not save.
LEMMA SavedKept ==
    ASSUME NEW t \in Requests, InFlight \subseteq {t}, pc[t] \notin Saving,
           OneByOne, acl' = acl, unsaved \subseteq unsaved'
    PROVE  /\ \A row \in rows : RowSaved(row)'
           /\ \A d \in registered : claimant'[d] = claimant[d] => KnotSaved(d)'
<1>1. \A u \in Requests : pc[u] \notin Saving
  BY DEF InFlight, InFlightSteps, Saving
<1>2. \A op, d : Unsaved(op, d) => Unsaved(op, d)'
  BY DEF Unsaved
<1> QED
  BY <1>1, <1>2 DEF OneByOne, RowSaved, KnotSaved, Owned, Begun

LEMMA StageKept ==
    ASSUME NEW t, NEW c, NEW s, UNCHANGED <<mem, acl, tables, buf, leftover>>, Stage(t, c, s)
    PROVE  Stage(t, c, s)'
BY DEF tables, Stage, Near, Rowed, Joined, Listed, HasRow, Begun

LEMMA SettledKept ==
    ASSUME Settled, UNCHANGED <<mem, acl, leftover>>, rows \subseteq rows',
           collaborators \subseteq collaborators'
    PROVE  Settled'
<1>1. \A repo : HasRow(repo) => HasRow(repo)'
  BY DEF HasRow
<1>2. Whole(mem)' /\ Whole(acl)'
  BY <1>1 DEF Settled, Whole
<1> QED
  BY <1>2 DEF Settled, Paired, Rowed, Joined, Listed

\* The steps that leave every table and the model alone.
LEMMA GotoAlone ==
    ASSUME Shape, OneByOne, NEW t \in Requests, InFlight \subseteq {t}, pc[t] \notin Saving,
           UNCHANGED <<mem, acl, tables, buf, unsaved, leftover>>,
           NEW s, pc' = [pc EXCEPT ![t] = s],
           s \in InFlightSteps => Stage(t, req'[t], s),
           s \notin InFlightSteps => Near(mem, acl)
    PROVE  OneByOne'
<1>1. Settled'
  BY SettledKept DEF OneByOne, tables
<1>2. s \in InFlightSteps => Stage(t, req[t], s)'
  BY StageKept DEF tables
<1>3. s \notin InFlightSteps => Near(mem, acl)'
  BY DEF Near
<1>4. (\A row \in rows' : RowSaved(row)') /\ \A d \in registered' : KnotSaved(d)'
  BY SavedKept DEF tables
<1> QED
  BY <1>1, <1>2, <1>3, <1>4, StepAlone

\* What is known of a request that takes a step.
LEMMA Now ==
    ASSUME Shape, OneByOne, NEW t \in Requests, pc[t] \in InFlightSteps
    PROVE  /\ InFlight = {t} /\ InFlight \subseteq {t}
           /\ Stage(t, req[t], pc[t])
           /\ req[t].user \in Dids /\ req[t].who \in Dids /\ req[t].dom \in Domains
           /\ req[t].op \in {"NewRepo", "AddCollaborator"} => req[t].repo \in Repos
           /\ pc \in [Requests -> Steps] /\ mem \in Policy /\ acl \in Policy
<1>1. t \in InFlight
  BY DEF InFlight
<1>2. req[t] \in Call /\ CallShape(req[t])
  BY InFlightCall
<1> QED
  BY <1>1, <1>2, WorksAlone DEF OneByOne, Call, CallShape, Shape, TypeOK

-----------------------------------------------------------------------------

LEMMA ArriveAlone ==
    ASSUME MaxInFlight = 1, Shape, OneByOne, NEW t \in Requests,
           NEW op, NEW u, NEW d, NEW r, NEW w, NEW s \in {"upsert", "callKnot", "grant"},
           Arrive(t, op, u, d, r, w, s),
           UNCHANGED <<mem, acl, tables, writer, knots, buf, history, unsaved, leftover>>,
           s = "upsert" => op = "RegistrationKey" /\ d \notin registered,
           s = "grant" => op = "Login",
           op = "NewRepo" => r[1] = u /\ ~HasRow(r),
           op = "AddCollaborator" => Listed(r, d)
    PROVE  OneByOne'
<1> DEFINE c == [op |-> op, user |-> u, dom |-> d, repo |-> r, who |-> w]
<1>1. InFlight = {} /\ Near(mem, acl)
  BY ArrivesAlone DEF OneByOne, Quiet
<1>2. pc[t] = "new" /\ pc' = [pc EXCEPT ![t] = s] /\ req'[t] = c
  BY DEF Arrive, Shape, TypeOK
<1>3. c.op = op /\ c.user = u /\ c.dom = d /\ c.repo = r /\ c.who = w
  OBVIOUS
<1>4. \A x \in mem.p : Rowed(x) /\ Joined(x)
  BY <1>1 DEF Near, OneByOne, Settled, Rowed, Joined
<1> HIDE DEF c
<1>5. Stage(t, c, s)
  BY <1>1, <1>3, <1>4 DEF Stage, Saving
<1>6. UNCHANGED <<mem, acl, tables, buf, unsaved, leftover>> /\ pc[t] \notin Saving
  BY <1>2 DEF Saving
<1>7. s \in InFlightSteps
  BY DEF InFlightSteps
<1> QED
  BY <1>1, <1>2, <1>5, <1>6, <1>7, GotoAlone

LEMMA ArrivalAlone ==
    ASSUME MaxInFlight = 1, Shape, OneByOne, NEW t \in Requests, Arrival(t)
    PROVE  OneByOne'
<1> DEFINE Same == UNCHANGED <<mem, acl, tables, writer, knots, buf, history, unsaved, leftover>>
<1>1. ASSUME NEW u \in Dids, NEW d \in Domains, RegistrationKey(t, u, d) PROVE OneByOne'
  <2>1. Same /\ Arrive(t, "RegistrationKey", u, d, None, u, "upsert") /\ d \notin registered
    BY <1>1 DEF RegistrationKey
  <2> QED
    BY <2>1, ArriveAlone
<1>2. ASSUME NEW u \in Dids, NEW d \in Domains, InitKnotServer(t, u, d) PROVE OneByOne'
  <2>1. Same /\ Arrive(t, "InitKnotServer", u, d, None, u, "callKnot")
    BY <1>2 DEF InitKnotServer
  <2> QED
    BY <2>1, ArriveAlone
<1>3. ASSUME NEW u \in Dids, NEW d \in Domains, NEW w \in Dids, AddMemberToKnot(t, u, d, w)
      PROVE  OneByOne'
  <2>1. Same /\ Arrive(t, "AddMember", u, d, None, w, "callKnot")
    BY <1>3 DEF AddMemberToKnot
  <2> QED
    BY <2>1, ArriveAlone
<1>4. ASSUME NEW u \in Dids, Login(t, u) PROVE OneByOne'
  <2>1. Same /\ Arrive(t, "Login", u, DefaultKnot, None, u, "grant")
    BY <1>4 DEF Login
  <2> QED
    BY <2>1, ArriveAlone
<1>5. ASSUME NEW u \in Dids, NEW d \in Domains, NEW n \in RepoNames, NewRepo(t, u, d, n)
      PROVE  OneByOne'
  <2>1. /\ Same
        /\ Arrive(t, "NewRepo", u, d, <<u, n>>, u, "callKnot")
        /\ ~HasRow(<<u, n>>) /\ <<u, n>>[1] = u
    BY <1>5 DEF NewRepo
  <2> QED
    BY <2>1, ArriveAlone
<1>6. ASSUME NEW u \in Dids, NEW row \in rows, NEW w \in Dids, AddCollaboratorToRepo(t, u, row, w)
      PROVE  OneByOne'
  <2>1. /\ Same
        /\ Arrive(t, "AddCollaborator", u, row.dom, row.repo, w, "callKnot")
        /\ Listed(row.repo, row.dom)
    BY <1>6 DEF AddCollaboratorToRepo, Listed
  <2> QED
    BY <2>1, ArriveAlone
<1> QED
  BY <1>1, <1>2, <1>3, <1>4, <1>5, <1>6 DEF Arrival

LEMMA AnswerAlone ==
    ASSUME Shape, OneByOne, NEW t \in Requests, Answer(t)
    PROVE  OneByOne'
<1>1. /\ pc[t] = "callKnot"
      /\ UNCHANGED <<mem, acl, tables, buf, unsaved, leftover>>
      /\ \/ Finish(t)
         \/ Goto(t, "insert") /\ req[t].op = "NewRepo"
         \/ Goto(t, "register") /\ req[t].op = "InitKnotServer"
         \/ Goto(t, "grant") /\ req[t].op \in {"AddMember", "AddCollaborator"}
         \/ Goto(t, "read")
  BY DEF Answer, InitKnotServerAnswer, AddMemberAnswer, NewRepoAnswer, AddCollaboratorAnswer, At
<1>2. pc[t] \in InFlightSteps /\ pc[t] \notin Saving /\ "done" \notin InFlightSteps
  BY <1>1 DEF InFlightSteps, Saving
<1>3. InFlight \subseteq {t} /\ Stage(t, req[t], "callKnot")
  BY <1>1, <1>2, Now
<1>4. CASE Finish(t)
  BY <1>1, <1>2, <1>3, <1>4, GotoAlone DEF Finish, Stage
<1>5. ASSUME NEW s \in {"insert", "register", "grant", "read"}, Goto(t, s),
             s = "insert" => req[t].op = "NewRepo",
             s = "register" => req[t].op = "InitKnotServer",
             s = "grant" => req[t].op \in {"AddMember", "AddCollaborator"}
      PROVE  OneByOne'
  <2>1. Stage(t, req[t], s)
    BY <1>3, <1>5 DEF Stage, Saving
  <2>2. s \in InFlightSteps
    BY DEF InFlightSteps
  <2> QED
    BY <1>1, <1>2, <1>3, <1>5, <2>1, <2>2, GotoAlone DEF Goto
<1> QED
  BY <1>1, <1>4, <1>5

\* RegistrationKeyUpsert and RegistrationKeyFails: a registered knot keeps its
\* claimant.
LEMMA KeyAlone ==
    ASSUME Shape, OneByOne, NEW t \in Requests, RegistrationKeyUpsert(t) \/ RegistrationKeyFails(t)
    PROVE  OneByOne'
<1>1. /\ pc[t] = "upsert" /\ pc' = [pc EXCEPT ![t] = "done"]
      /\ UNCHANGED <<mem, acl, registered, rows, collaborators, buf, unsaved, leftover>>
  BY DEF RegistrationKeyUpsert, RegistrationKeyFails, At, Finish, tables
<1>2. pc[t] \in InFlightSteps /\ pc[t] \notin Saving /\ "done" \notin InFlightSteps
  BY <1>1 DEF InFlightSteps, Saving
<1>3. /\ InFlight \subseteq {t} /\ Near(mem, acl) /\ req[t].dom \notin registered
  BY <1>1, <1>2, Now DEF Stage
<1>4. \A d \in registered : claimant'[d] = claimant[d]
  <2>1. claimant' = claimant \/ claimant' = [claimant EXCEPT ![req[t].dom] = req[t].user]
    BY DEF RegistrationKeyUpsert, RegistrationKeyFails, tables
  <2>2. registered \subseteq Domains /\ DOMAIN claimant = Domains
    BY DEF Shape, TypeOK
  <2> QED
    BY <1>3, <2>1, <2>2
<1>5. (\A row \in rows' : RowSaved(row)') /\ \A d \in registered' : KnotSaved(d)'
  BY <1>1, <1>2, <1>3, <1>4, SavedKept
<1>6. Settled' /\ Near(mem, acl)'
  BY <1>1, <1>3, SettledKept DEF OneByOne, Near
<1> QED
  BY <1>1, <1>2, <1>3, <1>5, <1>6, StepAlone

\* A step of a handler that changes the model only: what is to be shown of it.
LEMMA GrantAlone ==
    ASSUME Shape, OneByOne, NEW t \in Requests, InFlight \subseteq {t}, pc[t] \notin Saving,
           UNCHANGED <<acl, tables, unsaved, leftover>>,
           NEW s, pc' = [pc EXCEPT ![t] = s],
           mem.p \subseteq mem'.p, mem.g \subseteq mem'.g, Paired(mem'), Whole(mem'),
           s \in InFlightSteps => Stage(t, req[t], s)',
           s \notin InFlightSteps => Near(mem, acl)'
    PROVE  OneByOne'
<1>1. Settled'
  <2>1. Whole(mem)' /\ Whole(acl)'
    BY DEF OneByOne, Settled, Whole, HasRow, tables
  <2> QED
    BY <2>1 DEF OneByOne, Settled, Paired, Rowed, Joined, Listed, tables
<1>2. (\A row \in rows' : RowSaved(row)') /\ \A d \in registered' : KnotSaved(d)'
  BY SavedKept DEF tables
<1> QED
  BY <1>1, <1>2, StepAlone

\* The pairs are rules: groupings do not touch them.
LEMMA SamePairs ==
    ASSUME NEW pol, NEW new, Paired(pol), Whole(pol), new.p = pol.p
    PROVE  Paired(new) /\ Whole(new)
BY DEF Paired, Whole

LEMMA RegisterAlone ==
    ASSUME Shape, OneByOne, NEW t \in Requests, InitKnotServerRegister(t)
    PROVE  OneByOne'
<1>1. /\ pc[t] = "register" /\ req[t].op = "InitKnotServer"
      /\ pc' = [pc EXCEPT ![t] = "grant"]
      /\ req' = [req EXCEPT ![t] = [req[t] EXCEPT !.who = claimant[req[t].dom]]]
      /\ UNCHANGED <<mem, acl, tables, buf, unsaved, leftover>>
  BY DEF InitKnotServerRegister, At
<1>2. /\ pc[t] \in InFlightSteps /\ pc[t] \notin Saving /\ "grant" \in InFlightSteps
  BY <1>1 DEF InFlightSteps, Saving
<1>3. InFlight \subseteq {t} /\ Stage(t, req[t], "register")
  BY <1>1, <1>2, Now
<1> DEFINE c == [req[t] EXCEPT !.who = claimant[req[t].dom]]
<1>4. req[t] \in Call
  BY <1>2, InFlightCall
<1>5. /\ c.op = "InitKnotServer" /\ c.dom = req[t].dom /\ c.who = claimant[c.dom]
      /\ req'[t] = c
  BY <1>1, <1>4 DEF Call, Shape, TypeOK
<1> HIDE DEF c
<1>6. Stage(t, c, "grant")
  BY <1>1, <1>3, <1>5 DEF Stage, Saving
<1> QED
  BY <1>1, <1>2, <1>3, <1>5, <1>6, GotoAlone

LEMMA DomainAlone ==
    ASSUME Shape, OneByOne, NEW t \in Requests, InitKnotServerAddDomain(t)
    PROVE  OneByOne'
<1>1. /\ pc[t] = "grant" /\ req[t].op = "InitKnotServer" /\ req' = req
      /\ pc' = [pc EXCEPT ![t] = "grantOwner"] /\ mem' = AddDomain(mem, req[t].dom)
      /\ UNCHANGED <<acl, tables, buf, unsaved, leftover>>
  BY DEF InitKnotServerAddDomain, At, Goto
<1>2. pc[t] \in InFlightSteps /\ pc[t] \notin Saving
  BY <1>1 DEF InFlightSteps, Saving
<1>3. /\ InFlight \subseteq {t} /\ Stage(t, req[t], "grant") /\ mem \in Policy
      /\ req[t].dom \in Domains
  BY <1>1, <1>2, Now
<1>4. Paired(mem) /\ Whole(mem)
  BY DEF OneByOne, Settled
<1>5. /\ mem'.p = mem.p \cup DomainRules(req[t].dom)
      /\ mem'.g = mem.g \cup {InRole(Owner, Member, req[t].dom)}
      /\ Paired(mem')
  BY <1>1, <1>3, <1>4, AddDomainSets
<1>6. \A r \in mem'.p : (Rowed(r) /\ Joined(r))'
  <2>1. \A r \in mem.p : Rowed(r) /\ Joined(r)
    BY <1>1, <1>3 DEF Stage
  <2>2. \A r \in DomainRules(req[t].dom) : r.obj \notin Repos
    BY <1>3, DomainRuleFacts
  <2> QED
    BY <1>1, <1>5, <2>1, <2>2 DEF Rowed, Joined, Listed, tables
<1>7. Begun(mem', req[t].dom)
  BY <1>5 DEF Begun
<1>8. req[t].who = claimant[req[t].dom]
  BY <1>1, <1>3 DEF Stage
<1>9. Stage(t, req[t], "grantOwner")'
  BY <1>1, <1>6, <1>7, <1>8 DEF Stage, Saving, tables
<1>10. /\ mem.p \subseteq mem'.p /\ mem.g \subseteq mem'.g /\ "grantOwner" \in InFlightSteps
       /\ Whole(mem')
  <2>1. \A r \in DomainRules(req[t].dom) : r.obj \notin Repos
    BY <1>3, DomainRuleFacts
  <2>2. Whole(mem')
    BY <1>4, <1>5, <2>1, WholeKept
  <2> QED
    BY <1>5, <2>2 DEF InFlightSteps
<1> QED
  BY <1>1, <1>2, <1>3, <1>5, <1>9, <1>10, GrantAlone

LEMMA OwnerAlone ==
    ASSUME Shape, OneByOne, NEW t \in Requests, InitKnotServerAddOwner(t)
    PROVE  OneByOne'
<1>1. /\ pc[t] = "grantOwner" /\ req[t].op = "InitKnotServer" /\ req' = req
      /\ pc' = [pc EXCEPT ![t] = "commit"] /\ mem' = AddOwner(mem, req[t].dom, req[t].who)
      /\ UNCHANGED <<acl, tables, buf, unsaved, leftover>>
  BY DEF InitKnotServerAddOwner, At, Goto
<1>2. pc[t] \in InFlightSteps /\ pc[t] \notin Saving
  BY <1>1 DEF InFlightSteps, Saving
<1>3. /\ InFlight \subseteq {t} /\ Stage(t, req[t], "grantOwner") /\ mem \in Policy
      /\ req[t].dom \in Domains /\ req[t].who \in Dids
  BY <1>1, <1>2, Now
<1>4. mem'.p = mem.p /\ mem'.g = mem.g \cup {InRole(req[t].who, Owner, req[t].dom)}
  BY <1>1, <1>3, AddOwnerAdds
<1>5. Paired(mem') /\ Whole(mem')
  BY <1>4, SamePairs DEF OneByOne, Settled
<1>6. \A r \in mem'.p : (Rowed(r) /\ Joined(r))'
  BY <1>1, <1>3, <1>4 DEF Stage, Rowed, Joined, Listed, tables
<1>7. /\ Begun(mem', req[t].dom) /\ InRole(req[t].who, Owner, req[t].dom) \in mem'.g
      /\ req[t].who = claimant[req[t].dom]
  BY <1>1, <1>3, <1>4 DEF Stage, Begun
<1>8. Stage(t, req[t], "commit")'
  BY <1>1, <1>6, <1>7 DEF Stage, Saving, tables
<1>9. mem.p \subseteq mem'.p /\ mem.g \subseteq mem'.g /\ "commit" \in InFlightSteps
  BY <1>4 DEF InFlightSteps
<1> QED
  BY <1>1, <1>2, <1>3, <1>5, <1>8, <1>9, GrantAlone

\* AddMemberGrant and LoginGrant.
LEMMA MemberAlone ==
    ASSUME Shape, OneByOne, NEW t \in Requests, AddMemberGrant(t) \/ LoginGrant(t)
    PROVE  OneByOne'
<1>1. /\ pc[t] = "grant" /\ mem' = AddMember(mem, req[t].dom, req[t].who)
      /\ UNCHANGED <<acl, tables, buf, unsaved, leftover>>
      /\ \/ pc' = [pc EXCEPT ![t] = "done"]
         \/ pc' = [pc EXCEPT ![t] = "snapshot"] /\ req' = req /\ req[t].op = "Login"
  BY DEF AddMemberGrant, LoginGrant, At, Goto, Finish
<1>2. pc[t] \in InFlightSteps /\ pc[t] \notin Saving /\ "done" \notin InFlightSteps
  BY <1>1 DEF InFlightSteps, Saving
<1>3. /\ InFlight \subseteq {t} /\ Stage(t, req[t], "grant") /\ mem \in Policy
      /\ req[t].dom \in Domains /\ req[t].who \in Dids
  BY <1>1, <1>2, Now
<1>4. mem'.p = mem.p /\ mem'.g = mem.g \cup {InRole(req[t].who, Member, req[t].dom)}
  BY <1>1, <1>3, AddMemberAdds
<1>5. Paired(mem') /\ Whole(mem')
  BY <1>4, SamePairs DEF OneByOne, Settled
<1>6. \A r \in mem'.p : (Rowed(r) /\ Joined(r))'
  BY <1>1, <1>3, <1>4 DEF Stage, Rowed, Joined, Listed, tables
<1>7. Near(mem, acl)'
  BY <1>1, <1>3, <1>4 DEF Stage, Near, InRole
<1>8. req' = req /\ req[t].op = "Login" => Stage(t, req[t], "snapshot")'
  BY <1>1, <1>6, <1>7 DEF Stage
<1> QED
  BY <1>1, <1>2, <1>3, <1>4, <1>5, <1>7, <1>8, GrantAlone

LEMMA InsertAlone ==
    ASSUME Shape, OneByOne, NEW t \in Requests, NewRepoInsert(t)
    PROVE  OneByOne'
<1>1. /\ pc[t] = "insert" /\ req[t].op = "NewRepo" /\ req' = req
      /\ pc' = [pc EXCEPT ![t] = "grant"] /\ UNCHANGED <<mem, acl, tables, buf, unsaved, leftover>>
  BY DEF NewRepoInsert, At, Goto
<1>2. pc[t] \in InFlightSteps /\ pc[t] \notin Saving /\ "grant" \in InFlightSteps
  BY <1>1 DEF InFlightSteps, Saving
<1>3. InFlight \subseteq {t} /\ Stage(t, req[t], "insert")
  BY <1>1, <1>2, Now
<1>4. Stage(t, req[t], "grant")
  BY <1>1, <1>3 DEF Stage, Saving
<1> QED
  BY <1>1, <1>2, <1>3, <1>4, GotoAlone

\* All rules of the repository were there, or none, so all of them are now.
LEMMA RepoAlone ==
    ASSUME Shape, OneByOne, NEW t \in Requests, NewRepoGrant(t)
    PROVE  OneByOne'
<1> DEFINE u == req[t].user
           d == req[t].dom
           repo == req[t].repo
<1>1. /\ pc[t] = "grant" /\ req[t].op = "NewRepo" /\ req' = req
      /\ pc' = [pc EXCEPT ![t] = "commit"] /\ mem' = AddRepo(mem, u, d, repo)
      /\ UNCHANGED <<acl, tables, buf, unsaved, leftover>>
  BY DEF NewRepoGrant, At, Goto
<1>2. pc[t] \in InFlightSteps /\ pc[t] \notin Saving /\ "commit" \in InFlightSteps
  BY <1>1 DEF InFlightSteps, Saving
<1>3. /\ InFlight \subseteq {t} /\ Stage(t, req[t], "grant") /\ mem \in Policy
      /\ d \in Domains /\ u \in Dids /\ repo \in Repos
  BY <1>1, <1>2, Now
<1>4. Near(mem, acl) /\ ~HasRow(repo) /\ \A r \in mem.p : Rowed(r) /\ Joined(r)
  BY <1>1, <1>3 DEF Stage
<1>5. repo[1] = u /\ Whole(mem)
  BY <1>1, <1>3 DEF Stage, OneByOne, Settled
<1> HIDE DEF u, d, repo
<1>6. mem'.p = mem.p \cup OwnerRules(u, d, repo) /\ mem'.g = mem.g /\ Whole(mem')
  BY <1>1, <1>3, <1>4, <1>5, AddRepoSets
<1>7. \A r \in OwnerRules(u, d, repo) : r.obj \in Repos /\ Joined(r)
  BY <1>3, RepoRuleFacts DEF Joined
<1>8. mem.p \subseteq mem'.p /\ mem.g \subseteq mem'.g /\ Paired(mem')
  <2>1. Paired(mem)
    BY DEF OneByOne, Settled
  <2> QED
    BY <1>6, <1>7, <2>1, PairedKept
<1>9. \A r \in mem'.p : Joined(r)' /\ (Rowed(r)' \/ r \in OwnerRules(u, d, repo))
  BY <1>1, <1>4, <1>6, <1>7 DEF Rowed, Joined, Listed, tables
<1>10. ~HasRow(repo)' /\ repo[1] = u /\ OwnerRules(u, d, repo) \subseteq mem'.p
  BY <1>1, <1>4, <1>5, <1>6 DEF HasRow, tables, repo
<1>11. Stage(t, req[t], "commit")'
  BY <1>1, <1>9, <1>10 DEF Stage, Saving, u, d, repo
<1> QED
  BY <1>1, <1>2, <1>3, <1>6, <1>8, <1>11, GrantAlone

LEMMA InviteAlone ==
    ASSUME Shape, OneByOne, NEW t \in Requests, AddCollaboratorGrant(t)
    PROVE  OneByOne'
<1> DEFINE w == req[t].who
           d == req[t].dom
           repo == req[t].repo
<1>1. /\ pc[t] = "grant" /\ req[t].op = "AddCollaborator" /\ req' = req
      /\ pc' = [pc EXCEPT ![t] = "link"] /\ mem' = AddCollaborator(mem, w, d, repo)
      /\ UNCHANGED <<acl, tables, buf, unsaved, leftover>>
  BY DEF AddCollaboratorGrant, At, Goto
<1>2. pc[t] \in InFlightSteps /\ pc[t] \notin Saving /\ "link" \in InFlightSteps
  BY <1>1 DEF InFlightSteps, Saving
<1>3. /\ InFlight \subseteq {t} /\ Stage(t, req[t], "grant") /\ mem \in Policy
      /\ d \in Domains /\ w \in Dids /\ repo \in Repos
  BY <1>1, <1>2, Now
<1>4. Listed(repo, d) /\ \A r \in mem.p : Rowed(r) /\ Joined(r)
  BY <1>1, <1>3 DEF Stage
<1> HIDE DEF w, d, repo
<1>5. /\ mem.p \subseteq mem'.p
      /\ mem'.p \subseteq mem.p \cup CollaboratorRules(w, d, repo)
      /\ mem'.g = mem.g
  BY <1>1, <1>3, AddCollaboratorSets
<1>6. \A r \in CollaboratorRules(w, d, repo) : r.obj \in Repos /\ Rowed(r)
  BY <1>3, <1>4, RepoRuleFacts DEF Rowed
<1>7. mem.g \subseteq mem'.g /\ Paired(mem') /\ Whole(mem')
  <2>1. Paired(mem) /\ Whole(mem)
    BY DEF OneByOne, Settled
  <2>2. \A r \in CollaboratorRules(w, d, repo) : HasRow(r.obj)
    BY <1>3, <1>4, RepoRuleFacts DEF Listed, HasRow
  <2>3. Paired(mem')
    BY <1>5, <1>6, <2>1, PairedKept
  <2>4. Whole(mem')
    BY <1>5, <2>1, <2>2, WholeKept
  <2> QED
    BY <1>5, <2>3, <2>4
<1>8. \A r \in mem'.p : Rowed(r)' /\ (Joined(r)' \/ r \in CollaboratorRules(w, d, repo))
  BY <1>1, <1>4, <1>5, <1>6 DEF Rowed, Joined, Listed, tables
<1>9. Listed(repo, d)'
  BY <1>1, <1>4 DEF Listed, tables, d, repo
<1>10. Stage(t, req[t], "link")'
  BY <1>1, <1>8, <1>9 DEF Stage, Saving, w, d, repo
<1> QED
  BY <1>1, <1>2, <1>3, <1>5, <1>7, <1>10, GrantAlone

\* The row follows the rules at once: from here on the request's rules are
\* like all others.
LEMMA LinkAlone ==
    ASSUME Shape, OneByOne, NEW t \in Requests, AddCollaboratorLink(t)
    PROVE  OneByOne'
<1> DEFINE w == req[t].who
           d == req[t].dom
           repo == req[t].repo
<1>1. /\ pc[t] = "link" /\ req[t].op = "AddCollaborator" /\ req' = req
      /\ pc' = [pc EXCEPT ![t] = "commit"]
      /\ collaborators' = collaborators \cup {[who |-> w, repo |-> repo, dom |-> d]}
      /\ UNCHANGED <<mem, acl, claimant, registered, rows, buf, unsaved, leftover>>
  BY DEF AddCollaboratorLink, At, Goto
<1>2. pc[t] \in InFlightSteps /\ pc[t] \notin Saving /\ "commit" \in InFlightSteps
  BY <1>1 DEF InFlightSteps, Saving
<1>3. /\ InFlight \subseteq {t} /\ Stage(t, req[t], "link")
      /\ d \in Domains /\ w \in Dids /\ repo \in Repos
  BY <1>1, <1>2, Now
<1>4. /\ Listed(repo, d)
      /\ \A r \in mem.p : Rowed(r) /\ (Joined(r) \/ r \in CollaboratorRules(w, d, repo))
  BY <1>1, <1>3 DEF Stage
<1> HIDE DEF w, d, repo
<1>5. \A r \in CollaboratorRules(w, d, repo) : Joined(r)'
  BY <1>1, <1>3, RepoRuleFacts DEF Joined
<1>6. \A r \in mem'.p : (Rowed(r) /\ Joined(r))'
  BY <1>1, <1>4, <1>5 DEF Rowed, Joined, Listed
<1>7. Listed(repo, d)'
  BY <1>1, <1>4 DEF Listed, d, repo
<1>8. Stage(t, req[t], "commit")'
  BY <1>1, <1>6, <1>7 DEF Stage, Saving, d, repo
<1>9. Settled'
  BY <1>1, SettledKept DEF OneByOne
<1>10. (\A row \in rows' : RowSaved(row)') /\ \A e \in registered' : KnotSaved(e)'
  BY <1>1, <1>2, <1>3, SavedKept
<1> QED
  BY <1>1, <1>2, <1>3, <1>8, <1>9, <1>10, StepAlone

LEMMA WorkAlone ==
    ASSUME Shape, OneByOne, NEW t \in Requests, Work(t)
    PROVE  OneByOne'
BY KeyAlone, RegisterAlone, DomainAlone, OwnerAlone, MemberAlone, InsertAlone, RepoAlone,
   InviteAlone, LinkAlone DEF Work

-----------------------------------------------------------------------------

\* WriteFails and CommitFails go to the reload, with nothing saved.
LEMMA GiveUpAlone ==
    ASSUME Shape, OneByOne, NEW t \in Requests, WriteFails(t) \/ CommitFails(t)
    PROVE  OneByOne'
<1>1. /\ pc[t] \in {"insert", "register", "link", "commit"} /\ req' = req
      /\ pc' = [pc EXCEPT ![t] = "read"] /\ UNCHANGED <<mem, acl, tables, buf, unsaved, leftover>>
  BY DEF WriteFails, CommitFails, Goto
<1>2. pc[t] \in InFlightSteps /\ pc[t] \notin Saving /\ "read" \in InFlightSteps
  BY <1>1 DEF InFlightSteps, Saving
<1>3. InFlight \subseteq {t} /\ Stage(t, req[t], pc[t])
  BY <1>2, Now
<1>4. Stage(t, req[t], "read")
  BY <1>1, <1>3 DEF Stage, Saving
<1> QED
  BY <1>1, <1>2, <1>3, <1>4, GotoAlone

\* What is saved stays so while the only request saves.
LEMMA SavingKept ==
    ASSUME OneByOne, NEW t \in Requests, pc \in [Requests -> Steps],
           NEW s \in Saving, pc' = [pc EXCEPT ![t] = s],
           UNCHANGED <<acl, claimant, req, unsaved, leftover>>
    PROVE  /\ \A row \in rows : RowSaved(row)'
           /\ \A d \in registered : KnotSaved(d)'
<1>1. \A u \in Requests : pc[u] \in Saving => pc'[u] \in Saving
  OBVIOUS
<1> QED
  BY <1>1 DEF OneByOne, RowSaved, KnotSaved, Owned, Begun, Unsaved

\* The transaction's row, or registration, is there, and its save is next.
LEMMA CommitAlone ==
    ASSUME Shape, OneByOne, NEW t \in Requests, Commit(t)
    PROVE  OneByOne'
<1>1. /\ pc[t] = "commit" /\ req' = req /\ pc' = [pc EXCEPT ![t] = "snapshot"]
      /\ UNCHANGED <<mem, acl, claimant, collaborators, buf, unsaved, leftover>>
      /\ rows \subseteq rows' /\ registered \subseteq registered'
      /\ \A row \in rows' \ rows :
            req[t].op = "NewRepo" /\ row.repo = req[t].repo /\ row.dom = req[t].dom
      /\ \A d \in registered' \ registered : req[t].op = "InitKnotServer" /\ d = req[t].dom
      /\ req[t].op = "NewRepo" => Listed(req[t].repo, req[t].dom)'
  <2>1. /\ pc[t] = "commit" /\ req' = req /\ pc' = [pc EXCEPT ![t] = "snapshot"]
        /\ UNCHANGED <<mem, acl, claimant, collaborators, buf, unsaved, leftover>>
    BY DEF Commit, Goto
  <2>2. IF req[t].op = "NewRepo"
        THEN rows' = rows \cup {[repo |-> req[t].repo, dom |-> req[t].dom, rkey |-> t]}
        ELSE rows' = rows
    BY DEF Commit
  <2>3. IF req[t].op = "InitKnotServer"
        THEN registered' = registered \cup {req[t].dom} ELSE registered' = registered
    BY DEF Commit
  <2>4. req[t].op = "NewRepo" => Listed(req[t].repo, req[t].dom)'
    <3> SUFFICES ASSUME req[t].op = "NewRepo" PROVE Listed(req[t].repo, req[t].dom)'
      OBVIOUS
    <3> DEFINE new == [repo |-> req[t].repo, dom |-> req[t].dom, rkey |-> t]
    <3>1. new \in rows' /\ new.repo = req'[t].repo /\ new.dom = req'[t].dom
      BY <2>1, <2>2
    <3> QED
      BY <3>1 DEF Listed
  <2> QED
    BY <2>1, <2>2, <2>3, <2>4
<1>2. pc[t] \in InFlightSteps /\ "snapshot" \in Saving /\ "snapshot" \in InFlightSteps
  BY <1>1 DEF InFlightSteps, Saving
<1>3. /\ InFlight \subseteq {t} /\ Stage(t, req[t], "commit") /\ pc \in [Requests -> Steps]
      /\ req[t].user \in Dids /\ req[t].dom \in Domains
      /\ req[t].op = "NewRepo" => req[t].repo \in Repos
  BY <1>1, <1>2, Now
<1>4. pc'[t] \in Saving
  BY <1>1, <1>2, <1>3
<1>5. \A row \in rows' : RowSaved(row)'
  <2>1. \A row \in rows : RowSaved(row)'
    BY <1>1, <1>2, <1>3, SavingKept
  <2>2. \A row \in rows' \ rows : RowSaved(row)'
    BY <1>1, <1>4 DEF RowSaved
  <2> QED
    BY <2>1, <2>2
<1>6. \A d \in registered' : KnotSaved(d)'
  <2>1. \A d \in registered : KnotSaved(d)'
    BY <1>1, <1>2, <1>3, SavingKept
  <2>2. \A d \in registered' \ registered : KnotSaved(d)'
    BY <1>1, <1>4 DEF KnotSaved
  <2> QED
    BY <2>1, <2>2
<1>7. Settled'
  BY <1>1, SettledKept DEF OneByOne
<1>8. \A r \in mem'.p : (Rowed(r) /\ Joined(r))'
  <2> SUFFICES ASSUME NEW r \in mem.p PROVE (Rowed(r) /\ Joined(r))'
    BY <1>1
  <2>1. Joined(r)'
    BY <1>1, <1>3 DEF Stage, Joined
  <2>2. CASE Rowed(r)
    BY <1>1, <2>1, <2>2 DEF Rowed, Listed
  <2>3. CASE req[t].op = "NewRepo" /\ r \in OwnerRules(req[t].user, req[t].dom, req[t].repo)
    <3>1. r.obj = req[t].repo /\ r.dom = req[t].dom
      BY <1>3, <2>3, RepoRuleFacts
    <3> QED
      BY <1>1, <2>1, <2>3, <3>1 DEF Rowed
  <2> QED
    BY <1>3, <2>2, <2>3 DEF Stage
<1>9. Stage(t, req[t], "snapshot")'
  <2>1. req[t].op = "AddCollaborator" => Listed(req[t].repo, req[t].dom)'
    BY <1>1, <1>3 DEF Stage, Listed
  <2> QED
    BY <1>1, <1>3, <1>8, <2>1 DEF Stage, Saving, Begun
<1> QED
  BY <1>1, <1>2, <1>3, <1>5, <1>6, <1>7, <1>9, StepAlone

LEMMA SnapshotAlone ==
    ASSUME Shape, OneByOne, NEW t \in Requests, SaveSnapshot(t)
    PROVE  OneByOne'
<1>1. /\ pc[t] = "snapshot" /\ req' = req /\ pc' = [pc EXCEPT ![t] = "write"]
      /\ buf' = [buf EXCEPT ![t] = mem] /\ UNCHANGED <<mem, acl, tables, unsaved, leftover>>
  BY DEF SaveSnapshot, Goto
<1>2. pc[t] \in InFlightSteps /\ "write" \in Saving /\ "write" \in InFlightSteps
  BY <1>1 DEF InFlightSteps, Saving
<1>3. InFlight \subseteq {t} /\ Stage(t, req[t], "snapshot") /\ pc \in [Requests -> Steps]
  BY <1>1, <1>2, Now
<1>4. (\A row \in rows' : RowSaved(row)') /\ \A d \in registered' : KnotSaved(d)'
  BY <1>1, <1>2, <1>3, SavingKept DEF tables
<1>5. Settled'
  BY <1>1, SettledKept DEF OneByOne, tables
<1>6. buf'[t] = mem
  BY <1>1 DEF Shape, TypeOK
<1>7. \A r \in mem'.p : (Rowed(r) /\ Joined(r))'
  BY <1>1, <1>3 DEF Stage, Rowed, Joined, Listed, tables
<1>8. Stage(t, req[t], "write")'
  BY <1>1, <1>3, <1>6, <1>7 DEF Stage, Saving, Begun, Listed, Near, tables
<1> QED
  BY <1>1, <1>2, <1>3, <1>4, <1>5, <1>8, StepAlone

\* The table becomes the model, which holds what the call was for.
LEMMA WriteAlone ==
    ASSUME Shape, OneByOne, NEW t \in Requests, SaveWrite(t)
    PROVE  OneByOne'
<1>1. /\ pc[t] = "write" /\ acl' = buf[t] /\ UNCHANGED <<mem, tables, unsaved, leftover>>
      /\ \/ req[t].op = "Login" /\ pc' = [pc EXCEPT ![t] = "done"]
         \/ req[t].op # "Login" /\ pc' = [pc EXCEPT ![t] = "read"] /\ req' = req
  BY DEF SaveWrite, AfterSave, Goto, Finish
<1>2. /\ pc[t] \in InFlightSteps /\ "write" \in Saving
      /\ "done" \notin InFlightSteps /\ "read" \in InFlightSteps
  BY <1>1 DEF InFlightSteps, Saving
<1>3. /\ InFlight \subseteq {t} /\ Stage(t, req[t], "write")
  BY <1>1, <1>2, Now
<1>4. acl' = mem /\ mem' = mem /\ \A r \in mem.p : Rowed(r) /\ Joined(r)
  BY <1>1, <1>3 DEF Stage
<1>5. Settled'
  <2>1. Whole(mem)' /\ Whole(acl)'
    BY <1>1, <1>4 DEF OneByOne, Settled, Whole, HasRow, tables
  <2> QED
    BY <1>1, <1>4, <2>1 DEF OneByOne, Settled, Paired, Rowed, Joined, Listed, tables
<1>6. Near(mem, acl)'
  BY <1>4 DEF Near
<1>7. \A x \in Requests : pc[x] \in Saving => x = t
  BY <1>3 DEF InFlight, InFlightSteps, Saving
<1>8. ASSUME NEW row \in rows' PROVE RowSaved(row)'
  <2>1. RowSaved(row) /\ acl.p \subseteq mem.p
    BY <1>1, <1>8 DEF OneByOne, Settled, tables
  <2>2. CASE OwnerRules(row.repo[1], row.dom, row.repo) \subseteq acl.p
    BY <1>4, <2>1, <2>2 DEF RowSaved
  <2>3. CASE Unsaved("NewRepo", row.dom)
    BY <1>1, <2>3 DEF RowSaved, Unsaved
  <2>4. CASE req[t].op = "NewRepo" /\ req[t].repo = row.repo /\ req[t].dom = row.dom
    <3>1. OwnerRules(row.repo[1], row.dom, row.repo) \subseteq mem.p
      BY <1>2, <1>3, <2>4 DEF Stage
    <3> QED
      BY <1>4, <3>1 DEF RowSaved
  <2> QED
    BY <1>7, <2>1, <2>2, <2>3, <2>4 DEF RowSaved
<1>9. ASSUME NEW d \in registered' PROVE KnotSaved(d)'
  <2>1. KnotSaved(d) /\ acl.p \subseteq mem.p /\ acl.g \subseteq mem.g
    BY <1>1, <1>9 DEF OneByOne, Settled, tables
  <2>2. CASE Owned(acl, d)
    BY <1>1, <1>4, <2>1, <2>2 DEF KnotSaved, Owned, Begun, tables
  <2>3. CASE Unsaved("InitKnotServer", d)
    BY <1>1, <2>3 DEF KnotSaved, Unsaved
  <2>4. CASE req[t].op = "InitKnotServer" /\ req[t].dom = d
    <3>1. Owned(mem, d)
      BY <1>2, <1>3, <2>4 DEF Stage, Owned
    <3> QED
      BY <1>1, <1>4, <3>1 DEF KnotSaved, Owned, tables
  <2> QED
    BY <1>7, <2>1, <2>2, <2>3, <2>4 DEF KnotSaved
<1>10. req[t].op # "Login" /\ req' = req => Stage(t, req[t], "read")'
  BY <1>1, <1>3 DEF Stage, Saving, Listed, tables
<1> QED
  BY <1>1, <1>2, <1>3, <1>5, <1>6, <1>8, <1>9, <1>10, StepAlone

\* The handler that cannot save is remembered.
LEMMA SaveFailsAlone ==
    ASSUME Shape, OneByOne, NEW t \in Requests, SaveFails(t)
    PROVE  OneByOne'
<1>1. /\ pc[t] = "write" /\ UNCHANGED <<mem, acl, tables, leftover>>
      /\ unsaved' = unsaved \cup {[op |-> req[t].op, dom |-> req[t].dom]}
      /\ \/ req[t].op = "Login" /\ pc' = [pc EXCEPT ![t] = "done"]
         \/ req[t].op # "Login" /\ pc' = [pc EXCEPT ![t] = "read"] /\ req' = req
  BY DEF SaveFails, AfterSave, Goto, Finish, Handler
<1>2. /\ pc[t] \in InFlightSteps /\ "done" \notin InFlightSteps /\ "read" \in InFlightSteps
  BY <1>1 DEF InFlightSteps
<1>3. /\ InFlight \subseteq {t} /\ Stage(t, req[t], "write")
  BY <1>1, <1>2, Now
<1>4. Settled'
  BY <1>1, SettledKept DEF OneByOne, tables
<1>5. req[t].op = "Login" => Near(mem, acl)'
  BY <1>1, <1>3 DEF Stage, Near
<1>6. \A x \in Requests : pc[x] \in Saving => x = t
  BY <1>3 DEF InFlight, InFlightSteps, Saving
<1>7. \A row \in rows' : RowSaved(row)'
  BY <1>1, <1>6 DEF OneByOne, RowSaved, Unsaved, tables
<1>8. \A d \in registered' : KnotSaved(d)'
  BY <1>1, <1>6 DEF OneByOne, KnotSaved, Owned, Begun, Unsaved, tables
<1>9. req[t].op # "Login" /\ req' = req => Stage(t, req[t], "read")'
  BY <1>1, <1>3 DEF Stage, Saving, Listed, tables
<1> QED
  BY <1>1, <1>2, <1>3, <1>4, <1>5, <1>7, <1>8, <1>9, StepAlone

\* The model becomes the table: what was left over and is not there is gone.
LEMMA ReplaceSettles ==
    ASSUME OneByOne, Replace(acl), UNCHANGED <<acl, tables>>
    PROVE  Settled' /\ Near(mem, acl)'
<1>1. mem' = acl /\ leftover'.p = leftover.p \cap acl.p
  BY DEF Replace
<1>2. Whole(mem)' /\ Whole(acl)'
  BY <1>1 DEF OneByOne, Settled, Whole, HasRow, tables
<1>3. ASSUME NEW r \in acl'.p PROVE Rowed(r)' /\ Joined(r)'
  <2>1. r \in acl.p /\ Rowed(r) /\ Joined(r)
    BY <1>3 DEF OneByOne, Settled
  <2> QED
    BY <1>1, <2>1 DEF Rowed, Joined, Listed, tables
<1>4. Near(mem, acl)'
  BY <1>1 DEF Near
<1> QED
  BY <1>1, <1>2, <1>3, <1>4 DEF OneByOne, Settled, Paired

LEMMA ReloadReadAlone ==
    ASSUME Shape, OneByOne, NEW t \in Requests, ReloadRead(t)
    PROVE  OneByOne'
<1>1. /\ pc[t] = "read" /\ pc' = [pc EXCEPT ![t] = "swap"] /\ req' = req
      /\ buf' = [buf EXCEPT ![t] = acl] /\ UNCHANGED <<mem, acl, tables, unsaved, leftover>>
  BY DEF ReloadRead, Goto
<1>2. pc[t] \in InFlightSteps /\ pc[t] \notin Saving /\ "swap" \in InFlightSteps
  BY <1>1 DEF InFlightSteps, Saving
<1>3. InFlight \subseteq {t} /\ Stage(t, req[t], "read")
  BY <1>1, <1>2, Now
<1>4. Settled'
  BY <1>1, SettledKept DEF OneByOne, tables
<1>5. (\A row \in rows' : RowSaved(row)') /\ \A d \in registered' : KnotSaved(d)'
  BY <1>1, <1>2, <1>3, SavedKept DEF tables
<1>6. buf'[t] = acl'
  BY <1>1 DEF Shape, TypeOK
<1>7. Stage(t, req[t], "swap")'
  BY <1>1, <1>3, <1>6 DEF Stage, Saving, Listed, Near, tables
<1> QED
  BY <1>1, <1>2, <1>3, <1>4, <1>5, <1>7, StepAlone

LEMMA ReloadSwapAlone ==
    ASSUME Shape, OneByOne, NEW t \in Requests, ReloadSwap(t)
    PROVE  OneByOne'
<1>1. /\ pc[t] = "swap" /\ pc' = [pc EXCEPT ![t] = "done"]
      /\ Replace(buf[t]) /\ UNCHANGED <<acl, tables, unsaved>>
  BY DEF ReloadSwap, Finish
<1>2. pc[t] \in InFlightSteps /\ pc[t] \notin Saving /\ "done" \notin InFlightSteps
  BY <1>1 DEF InFlightSteps, Saving
<1>3. InFlight \subseteq {t} /\ Stage(t, req[t], "swap")
  BY <1>1, <1>2, Now
<1>4. Replace(acl)
  BY <1>1, <1>3 DEF Stage
<1>5. Settled' /\ Near(mem, acl)'
  BY <1>1, <1>4, ReplaceSettles
<1>6. (\A row \in rows' : RowSaved(row)') /\ \A d \in registered' : KnotSaved(d)'
  BY <1>1, <1>2, <1>3, SavedKept DEF tables
<1> QED
  BY <1>1, <1>2, <1>3, <1>5, <1>6, StepAlone

\* What the table does not have is left over from here on.
LEMMA ReloadFailsAlone ==
    ASSUME Shape, OneByOne, NEW t \in Requests, ReloadFails(t)
    PROVE  OneByOne'
<1>1. /\ pc[t] = "read" /\ pc' = [pc EXCEPT ![t] = "done"]
      /\ UNCHANGED <<mem, acl, tables, unsaved>>
      /\ leftover'.p = leftover.p \cup (mem.p \ acl.p)
      /\ leftover'.g = leftover.g \cup (mem.g \ acl.g)
  BY DEF ReloadFails, Finish
<1>2. pc[t] \in InFlightSteps /\ pc[t] \notin Saving /\ "done" \notin InFlightSteps
  BY <1>1 DEF InFlightSteps, Saving
<1>3. InFlight \subseteq {t}
  BY <1>2, Now
<1>4. Near(mem, acl)'
  BY <1>1 DEF OneByOne, Settled, Near
<1>5. Settled'
  <2>1. Whole(mem)' /\ Whole(acl)'
    BY <1>1 DEF OneByOne, Settled, Whole, HasRow, tables
  <2>2. ASSUME NEW r \in acl'.p PROVE Rowed(r)' /\ Joined(r)'
    <3>1. r \in acl.p /\ Rowed(r) /\ Joined(r)
      BY <1>1, <2>2 DEF OneByOne, Settled
    <3> QED
      BY <1>1, <3>1 DEF Rowed, Joined, Listed, tables
  <2> QED
    BY <1>1, <2>1, <2>2 DEF OneByOne, Settled, Paired
<1>6. (\A row \in rows' : RowSaved(row)') /\ \A d \in registered' : KnotSaved(d)'
  BY <1>1, <1>2, <1>3, SavedKept DEF tables
<1> QED
  BY <1>1, <1>2, <1>3, <1>4, <1>5, <1>6, StepAlone

LEMMA EndingAlone ==
    ASSUME Shape, OneByOne, NEW t \in Requests, Ending(t)
    PROVE  OneByOne'
BY GiveUpAlone, CommitAlone, SnapshotAlone, WriteAlone, SaveFailsAlone, ReloadReadAlone,
   ReloadSwapAlone, ReloadFailsAlone DEF Ending

\* The enforcer starts from the table; a handler that was about to save is
\* remembered.
LEMMA CrashAlone ==
    ASSUME Shape, OneByOne, Crash
    PROVE  OneByOne'
<1>1. /\ Replace(acl) /\ UNCHANGED <<acl, tables>>
      /\ unsaved' = unsaved \cup
            {[op |-> req[x].op, dom |-> req[x].dom] : x \in {u \in Requests : pc[u] \in Saving}}
  BY DEF Crash, Handler, Saving
<1>2. InFlight' = {}
  BY DEF Crash, InFlight, InFlightSteps
<1>3. Settled' /\ Near(mem, acl)'
  BY <1>1, ReplaceSettles
<1>5. \A op, d : \/ Unsaved(op, d)
                 \/ \E x \in Requests : pc[x] \in Saving /\ req[x].op = op /\ req[x].dom = d
                 => Unsaved(op, d)'
  BY <1>1 DEF Unsaved
<1>6. \A row \in rows' : RowSaved(row)'
  BY <1>1, <1>5 DEF OneByOne, RowSaved, tables
<1>7. \A d \in registered' : KnotSaved(d)'
  BY <1>1, <1>5 DEF OneByOne, KnotSaved, Owned, Begun, tables
<1> QED
  BY <1>2, <1>3, <1>6, <1>7 DEF OneByOne, Quiet

LEMMA OneByOneInit == Init => OneByOne
<1> SUFFICES ASSUME Init PROVE OneByOne
  OBVIOUS
<1>1. InFlight = {} /\ rows = {} /\ registered = {}
  BY DEF Init, InFlight, InFlightSteps
<1>2. mem = acl /\ acl.p = {} /\ acl.g = {}
  BY DEF Init, EmptyPolicy
<1>3. Settled /\ Near(mem, acl)
  BY <1>2 DEF Settled, Paired, Whole, Near
<1> QED
  BY <1>1, <1>3 DEF OneByOne, Quiet

LEMMA OneByOneNext == MaxInFlight = 1 /\ Shape /\ OneByOne /\ [Next]_vars => OneByOne'
<1> SUFFICES ASSUME MaxInFlight = 1, Shape, OneByOne, [Next]_vars PROVE OneByOne'
  OBVIOUS
<1>1. CASE UNCHANGED vars
  BY <1>1 DEF vars, tables, knots, history, OneByOne, Quiet, InFlight, Settled, Near, Paired, Whole,
              Rowed, Joined, Listed, Begun, Owned, Stage, HasRow, RowSaved, KnotSaved, Unsaved
<1>2. ASSUME NEW t \in Requests, Arrival(t) \/ Answer(t) \/ Work(t) \/ Ending(t)
      PROVE  OneByOne'
  BY <1>2, ArrivalAlone, AnswerAlone, WorkAlone, EndingAlone
<1> QED
  BY <1>1, <1>2, CrashAlone DEF Next, Served

LEMMA OneByOneAlways == MaxInFlight = 1 => (Spec => [](Shape /\ OneByOne))
<1> SUFFICES ASSUME MaxInFlight = 1 PROVE Spec => [](Shape /\ OneByOne)
  OBVIOUS
<1>1. Init => Shape /\ OneByOne
  BY ShapeInit, OneByOneInit
<1>2. Shape /\ OneByOne /\ [Next]_vars => (Shape /\ OneByOne)'
  BY ShapeNext, OneByOneNext
<1> QED
  BY <1>1, <1>2, PTL DEF Spec

\* One request at a time: no rule of a repository is saved before its row is
\* committed, none survives a rolled-back row, and no collaborator's rule is
\* saved without the collaborator's row, but for what a LoadPolicy that failed
\* has left in the model.
THEOREM RulesHaveRows == MaxInFlight = 1 => (Spec => []AclBackedByRow)
<1>1. OneByOne => AclBackedByRow
  BY DEF OneByOne, Settled, Rowed, Joined, Listed, AclBackedByRow
<1> QED
  BY <1>1, OneByOneAlways, PTL

\* One request at a time: when it is over the deferred LoadPolicy has undone
\* what was not committed and saved, or it failed, and leftover says what the
\* model still holds.
THEOREM RollbacksComplete == MaxInFlight = 1 => (Spec => []RollbackIsComplete)
<1>1. OneByOne => RollbackIsComplete
  BY DEF OneByOne, Near, RollbackIsComplete
<1> QED
  BY <1>1, OneByOneAlways, PTL

\* One request at a time: what was committed has its rules in the table, but
\* for a handler that died, or whose SavePolicy failed, in between.  What a
\* LoadPolicy that failed has left takes nothing from it: a later NewRepo finds
\* all of its rules there, or none.
THEOREM CommitsAreSaved == MaxInFlight = 1 => (Spec => []CommittedIsSaved)
<1>1. Shape /\ OneByOne => CommittedIsSaved
  <2> SUFFICES ASSUME Shape, OneByOne, Quiet
               PROVE  /\ \A row \in rows :
                            \/ OwnerRules(row.repo[1], row.dom, row.repo) \subseteq acl.p
                            \/ Unsaved("NewRepo", row.dom)
                      /\ \A d \in registered :
                            \/ /\ Enforce(acl, claimant[d], d, d, "server:invite")
                               /\ Enforce(acl, claimant[d], d, d, "repo:create")
                            \/ Unsaved("InitKnotServer", d)
    BY DEF CommittedIsSaved
  <2>1. \A t \in Requests : pc[t] \notin Saving
    BY DEF Quiet, InFlight, InFlightSteps, Saving
  <2>2. ASSUME NEW d \in Domains, Owned(acl, d)
        PROVE  /\ Enforce(acl, claimant[d], d, d, "server:invite")
               /\ Enforce(acl, claimant[d], d, d, "repo:create")
    <3>1. /\ [sub |-> Owner, dom |-> d, obj |-> d, act |-> "server:invite"] \in acl.p
          /\ [sub |-> Member, dom |-> d, obj |-> d, act |-> "repo:create"] \in acl.p
      BY <2>2 DEF Owned, Begun, DomainRules, Rules
    <3>2. Linked(acl, claimant[d], Owner, d) /\ Linked(acl, claimant[d], Member, d)
      BY <2>2 DEF Owned, Begun, Linked, HasGroupingPolicy, Roles
    <3> QED
      BY <3>1, <3>2 DEF Enforce, keyMatch2
  <2>3. registered \subseteq Domains
    BY DEF Shape, TypeOK
  <2> QED
    BY <2>1, <2>2, <2>3 DEF OneByOne, RowSaved, KnotSaved
<1> QED
  BY <1>1, OneByOneAlways, PTL
=============================================================================
