---------------------------- MODULE IssuesProofs ----------------------------
(***************************************************************************)
(* Theorems about Issues, for any users, repositories and requests.        *)
(***************************************************************************)
EXTENDS Issues, TLAPS

\* What a handler has read by the time of its next call.
Read ==
    \A t \in Requests :
        /\ pc[t] = "number" => nextId[req[t].repo] > 1
        /\ pc[t] \in {"getAt", "putComment", "putState", "close"} => req[t].number # None
        /\ pc[t] = "putComment" => req[t].at # None

Typed == TypeOK /\ Read

LEMMA CallTyped ==
    ASSUME TypeOK, NEW t \in Requests, pc[t] \in InFlight \cup {"answered"}
    PROVE  /\ req[t] \in Call
           /\ req[t].user \in Users
           /\ req[t].repo \in Repos
           /\ req[t].number \in Numbers \cup {None}
           /\ req[t].at \in Requests \cup {None}
  BY DEF TypeOK, Call

\* A step of one request that is no new call: control, tables and records.
LEMMA StepTyped ==
    ASSUME Typed, NEW t \in Requests, NEW s \in InFlight \cup Ended,
           pc' = [pc EXCEPT ![t] = s],
           UNCHANGED <<nextId, comments, overlapped>>,
           req[t] # None \/ s \notin InFlight \cup {"answered"},
           issues' \subseteq Issue,
           issueRecs' \subseteq IssueRecord,
           commentRecs' \subseteq CommentRecord,
           stateRecs' \subseteq StateRecord,
           UNCHANGED req,
           s # "number",
           s \in {"putIssue", "setAt", "getAt", "putComment", "putState", "close"}
               => req[t].number # None,
           s = "putComment" => req[t].at # None
    PROVE  Typed'
<1>1. \A x \in Requests : pc'[x] = IF x = t THEN s ELSE pc[x]
  BY DEF Typed, TypeOK
<1>2. pc' \in [Requests -> {"new"} \cup InFlight \cup Ended]
  BY DEF Typed, TypeOK
<1>3. TypeOK'
  BY <1>1, <1>2 DEF Typed, TypeOK
<1>4. Read'
  BY <1>1 DEF Typed, Read
<1> QED
  BY <1>3, <1>4 DEF Typed

\* Typed is inductive: one step per action.
LEMMA TypeInduction == Typed /\ [Next]_vars => Typed'
<1> SUFFICES ASSUME Typed, [Next]_vars PROVE Typed'
  OBVIOUS
<1> USE NoneAssumption
<1>t. TypeOK /\ Read
  BY DEF Typed
<1>a. ASSUME NEW t \in Requests, NEW op, NEW u \in Users, NEW repo \in Repos,
             NEW n \in Numbers \cup {None}, NEW s \in InFlight \cup {"answered"},
             op \in {"NewIssue", "IssueComment", "CloseIssue", "ReopenIssue"},
             Begin(t, op, u, repo, n), Goto(t, s),
             s \notin {"putIssue", "setAt", "putComment"},
             n # None \/ s \in {"number", "answered"},
             nextId' \in [Repos -> Numbers],
             \A r \in Repos : nextId'[r] >= nextId[r],
             s = "number" => nextId'[repo] > 1,
             issues' \subseteq Issue, comments' \subseteq Comment,
             overlapped' \subseteq Requests, UNCHANGED records
      PROVE  Typed'
  <2> DEFINE c == [op |-> op, user |-> u, repo |-> repo, number |-> n, at |-> None]
  <2>1. c \in Call /\ c # None
    BY <1>a DEF Call
  <2>2. req' = [req EXCEPT ![t] = c] /\ pc' = [pc EXCEPT ![t] = s]
    BY <1>a DEF Begin, Goto
  <2>3. \A x \in Requests : /\ pc'[x] = IF x = t THEN s ELSE pc[x]
                            /\ req'[x] = IF x = t THEN c ELSE req[x]
    BY <1>t, <2>2 DEF TypeOK
  <2>4. req' \in [Requests -> Call \cup {None}] /\ pc' \in [Requests -> {"new"} \cup InFlight \cup Ended]
    BY <1>t, <2>1, <2>2 DEF TypeOK, Ended
  <2>5. TypeOK'
    BY <1>a, <1>t, <2>1, <2>3, <2>4 DEF TypeOK, records
  <2>6. \A x \in Requests : x # t /\ pc[x] = "number" => nextId'[req[x].repo] > 1
    <3> SUFFICES ASSUME NEW x \in Requests, pc[x] = "number" PROVE nextId'[req[x].repo] > 1
      OBVIOUS
    <3>1. req[x].repo \in Repos
      BY <1>t, CallTyped DEF InFlight
    <3> QED
      BY <1>a, <1>t, <3>1 DEF TypeOK, Numbers, Read
  <2>7. Read'
    BY <1>a, <1>t, <2>3, <2>6 DEF Read
  <2> QED
    BY <2>5, <2>7 DEF Typed
<1>1. ASSUME NEW t \in Requests, NEW u \in Users, NEW repo \in Repos, NewIssue(t, u, repo)
      PROVE  Typed'
  <2>1. nextId[repo] \in Numbers
    BY <1>t DEF TypeOK
  <2>2. nextId' \in [Repos -> Numbers] /\ nextId'[repo] = nextId[repo] + 1
        /\ \A r \in Repos : nextId'[r] >= nextId[r]
    BY <1>1, <1>t, <2>1 DEF NewIssue, TypeOK, Numbers
  <2> DEFINE i == [repo |-> repo, number |-> nextId[repo], owner |-> u,
                   by |-> t, at |-> None, open |-> TRUE]
  <2>3. i \in Issue
    BY <2>1, Zenon DEF Issue
  <2>4. issues' = issues \cup {i} /\ issues \subseteq Issue
    BY <1>1, <1>t DEF NewIssue, TypeOK
  <2> HIDE DEF i
  <2>5. issues' \subseteq Issue
    BY <2>3, <2>4
  <2> QED
    BY <1>1, <1>a, <1>t, <2>1, <2>2, <2>5 DEF NewIssue, InFlight, Numbers, TypeOK
<1>2. ASSUME NEW t \in Requests, NEW u \in Users, NEW repo \in Repos, NEW n \in Numbers,
             IssueComment(t, u, repo, n)
      PROVE  Typed'
  <2>1. comments' \subseteq Comment
    BY <1>2, <1>t DEF IssueComment, TypeOK, Comment
  <2> QED
    BY <1>2, <1>a, <1>t, <2>1 DEF IssueComment, InFlight, TypeOK, Numbers
<1>3. ASSUME NEW t \in Requests, NEW u \in Users, NEW repo \in Repos, NEW n \in Numbers,
             CloseIssue(t, u, repo, n)
      PROVE  Typed'
  BY <1>3, <1>a, <1>t DEF CloseIssue, InFlight, TypeOK, tables, Numbers
<1>4. ASSUME NEW t \in Requests, NEW u \in Users, NEW repo \in Repos, NEW n \in Numbers,
             ReopenIssue(t, u, repo, n)
      PROVE  Typed'
  <2>1. issues' \subseteq Issue
    BY <1>4, <1>t DEF ReopenIssue, TypeOK, Issue
  <2> QED
    <3>1. /\ Begin(t, "ReopenIssue", u, repo, n) /\ Goto(t, "answered")
          /\ UNCHANGED <<nextId, comments, overlapped>> /\ UNCHANGED records
      BY <1>4 DEF ReopenIssue
    <3>2. nextId' \in [Repos -> Numbers] /\ \A r \in Repos : nextId'[r] >= nextId[r]
      BY <1>t, <3>1 DEF TypeOK, Numbers
    <3>3. comments' \subseteq Comment /\ overlapped' \subseteq Requests
      BY <1>t, <3>1 DEF TypeOK
    <3> QED
      BY <1>a, <2>1, <3>1, <3>2, <3>3
<1>5. ASSUME NEW t \in Requests, GetIssueId(t) PROVE Typed'
  <2>1. req[t] \in Call /\ req[t].repo \in Repos
    BY <1>5, <1>t, CallTyped DEF GetIssueId, InFlight
  <2>2. nextId[req[t].repo] - 1 \in Numbers
    BY <1>5, <1>t, <2>1 DEF GetIssueId, TypeOK, Read, Numbers
  <2> DEFINE c == [req[t] EXCEPT !.number = nextId[req[t].repo] - 1]
  <2>3. c \in Call /\ c # None /\ c.number # None
    BY <2>1, <2>2 DEF Call
  <2>4. \A x \in Requests : /\ pc'[x] = IF x = t THEN "putIssue" ELSE pc[x]
                            /\ req'[x] = IF x = t THEN c ELSE req[x]
    BY <1>5, <1>t DEF GetIssueId, Goto, TypeOK
  <2>5. req' \in [Requests -> Call \cup {None}] /\ pc' \in [Requests -> {"new"} \cup InFlight \cup Ended]
    BY <1>5, <1>t, <2>3 DEF GetIssueId, Goto, TypeOK, InFlight
  <2>6. TypeOK'
    BY <1>5, <1>t, <2>3, <2>4, <2>5 DEF GetIssueId, TypeOK, tables, records
  <2>7. Read'
    BY <1>5, <1>t, <2>4 DEF GetIssueId, Read, tables
  <2> QED
    BY <2>6, <2>7 DEF Typed
<1>6. ASSUME NEW t \in Requests, PutIssue(t) PROVE Typed'
  <2>1. req[t].user \in Users /\ req[t].repo \in Repos /\ req[t].number \in Numbers
        /\ req[t] # None /\ req[t].number # None
    BY <1>6, <1>t, CallTyped DEF PutIssue, TypeOK, InFlight
  <2>2. issueRecs' \subseteq IssueRecord
    BY <1>6, <1>t, <2>1 DEF PutIssue, TypeOK, IssueRecord
  <2>3. PICK s \in {"setAt", "failed"} : pc' = [pc EXCEPT ![t] = s]
    BY <1>6 DEF PutIssue
  <2> QED
    BY <1>6, <1>t, <2>1, <2>2, <2>3, StepTyped DEF PutIssue, TypeOK, tables, InFlight, Ended
<1>7. ASSUME NEW t \in Requests, SetIssueAt(t) PROVE Typed'
  <2>1. issues' \subseteq Issue
    BY <1>7, <1>t DEF SetIssueAt, TypeOK, Issue
  <2>2. req[t] # None
    BY <1>7, <1>t DEF SetIssueAt, TypeOK, InFlight
  <2> QED
    BY <1>7, <1>t, <2>1, <2>2, StepTyped DEF SetIssueAt, TypeOK, Goto, records, InFlight, Ended
<1>8. ASSUME NEW t \in Requests, GetIssueAt(t) PROVE Typed'
  <2>1. req[t] \in Call /\ req[t].number # None /\ req[t].number \in Numbers
    BY <1>8, <1>t, CallTyped DEF GetIssueAt, InFlight, Read
  <2>2. PICK i \in issues : i.at # None /\ req' = [req EXCEPT ![t].at = i.at]
    BY <1>8 DEF GetIssueAt, Row
  <2>3. i.at \in Requests
    BY <1>t, <2>2 DEF TypeOK, Issue
  <2> DEFINE c == [req[t] EXCEPT !.at = i.at]
  <2>4. c \in Call /\ c # None /\ c.number = req[t].number /\ c.at # None
    BY <2>1, <2>2, <2>3 DEF Call
  <2>5. \A x \in Requests : /\ pc'[x] = IF x = t THEN "putComment" ELSE pc[x]
                            /\ req'[x] = IF x = t THEN c ELSE req[x]
    BY <1>8, <1>t, <2>2 DEF GetIssueAt, Goto, TypeOK
  <2>6. req' \in [Requests -> Call \cup {None}] /\ pc' \in [Requests -> {"new"} \cup InFlight \cup Ended]
    BY <1>8, <1>t, <2>2, <2>4 DEF GetIssueAt, Goto, TypeOK, InFlight
  <2>7. TypeOK'
    BY <1>8, <1>t, <2>4, <2>5, <2>6 DEF GetIssueAt, TypeOK, tables, records
  <2>8. Read'
    BY <1>8, <1>t, <2>1, <2>4, <2>5 DEF GetIssueAt, Read, tables
  <2> QED
    BY <2>7, <2>8 DEF Typed
<1>9. ASSUME NEW t \in Requests, PutComment(t) PROVE Typed'
  <2>1. req[t].user \in Users /\ req[t].repo \in Repos /\ req[t].at \in Requests /\ req[t] # None
    BY <1>9, <1>t, CallTyped DEF PutComment, TypeOK, Read, InFlight
  <2>2. commentRecs' \subseteq CommentRecord
    BY <1>9, <1>t, <2>1 DEF PutComment, TypeOK, CommentRecord
  <2>3. PICK s \in {"answered", "failed"} : pc' = [pc EXCEPT ![t] = s]
    BY <1>9 DEF PutComment
  <2> QED
    BY <1>9, <1>t, <2>1, <2>2, <2>3, StepTyped DEF PutComment, TypeOK, tables, InFlight, Ended
<1>10. ASSUME NEW t \in Requests, PutState(t) PROVE Typed'
  <2>1. req[t] # None /\ req[t].number # None
    BY <1>10, <1>t DEF PutState, TypeOK, Read, InFlight
  <2>2. stateRecs' \subseteq StateRecord
    BY <1>10, <1>t DEF PutState, TypeOK, StateRecord, Row, Issue
  <2>3. PICK s \in {"close", "failed"} : pc' = [pc EXCEPT ![t] = s]
    BY <1>10 DEF PutState
  <2> QED
    BY <1>10, <1>t, <2>1, <2>2, <2>3, StepTyped DEF PutState, TypeOK, tables, InFlight, Ended
<1>11. ASSUME NEW t \in Requests, Close(t) PROVE Typed'
  <2>1. issues' \subseteq Issue
    BY <1>11, <1>t DEF Close, TypeOK, Issue
  <2>2. req[t] # None
    BY <1>11, <1>t DEF Close, TypeOK, InFlight
  <2> QED
    BY <1>11, <1>t, <2>1, <2>2, StepTyped DEF Close, TypeOK, Goto, records, InFlight, Ended
<1>12. ASSUME NEW t \in Requests, Fails(t) PROVE Typed'
  BY <1>12, <1>t, StepTyped DEF Fails, TypeOK, Goto, tables, records, InFlight, Ended
<1>13. CASE Crash
  <2>1. \A x \in Requests : pc'[x] = pc[x] \/ pc'[x] = "dead"
    BY <1>13 DEF Crash
  <2>2. pc' \in [Requests -> {"new"} \cup InFlight \cup Ended]
    BY <1>13, <1>t DEF Crash, TypeOK, Ended
  <2>3. TypeOK'
    BY <1>13, <1>t, <2>1, <2>2 DEF Crash, TypeOK, tables, records, InFlight
  <2>4. Read'
    BY <1>13, <1>t, <2>1 DEF Crash, Read, tables
  <2> QED
    BY <2>3, <2>4 DEF Typed
<1>14. CASE UNCHANGED vars
  BY <1>14, <1>t DEF Typed, TypeOK, Read, vars, tables, records
<1>15. 1 .. MaxNumber \subseteq Numbers
  BY BoundAssumption DEF Numbers
<1> QED
  BY <1>1, <1>2, <1>3, <1>4, <1>5, <1>6, <1>7, <1>8, <1>9, <1>10, <1>11, <1>12, <1>13, <1>14,
     <1>15 DEF Next, Arrival, Served

LEMMA InitTyped == Init => Typed
  BY NoneAssumption DEF Init, Typed, TypeOK, Read, Numbers, InFlight, Ended

\* Every table, record and call has its type: in particular NewIssue never reads
\* a number before 1, and never puts a record without one.
THEOREM TypeCorrect == Spec => []TypeOK
<1>1. Typed => TypeOK
  BY DEF Typed
<1> QED
  BY <1>1, InitTyped, TypeInduction, PTL DEF Spec

-----------------------------------------------------------------------------
(* References.  A record is never taken back, and what a handler is about   *)
(* to write points to one.                                                  *)

Holds(recs, u, repo, n) == \E r \in recs : r.uri = u /\ r.repo = repo /\ r.number = n

Refs ==
    /\ \A i \in issues : i.at # None => Holds(issueRecs, i.at, i.repo, i.number)
    /\ \A t \in Requests :
          /\ pc[t] = "setAt" => Holds(issueRecs, t, req[t].repo, req[t].number)
          /\ pc[t] = "putComment" => Holds(issueRecs, req[t].at, req[t].repo, req[t].number)
    /\ \A c \in commentRecs :
          pc[c.uri] \in Ended /\ Holds(issueRecs, c.issue, c.repo, req[c.uri].number)

\* A step of one request that has not ended keeps what others rely on.
LEMMA RefsKept ==
    ASSUME Typed, Refs, NEW t \in Requests, pc[t] \notin Ended,
           issueRecs \subseteq issueRecs',
           \A x \in Requests \ {t} : pc'[x] = pc[x] /\ req'[x] = req[x],
           \A j \in issues' : j.at # None => Holds(issueRecs', j.at, j.repo, j.number),
           pc'[t] = "setAt" => Holds(issueRecs', t, req'[t].repo, req'[t].number),
           pc'[t] = "putComment" => Holds(issueRecs', req'[t].at, req'[t].repo, req'[t].number),
           \A c \in commentRecs' :
               \/ c \in commentRecs
               \/ /\ c.uri = t
                  /\ pc'[t] \in Ended
                  /\ Holds(issueRecs', c.issue, c.repo, req'[t].number)
    PROVE  Refs'
<1>1. \A u, repo, n : Holds(issueRecs, u, repo, n) => Holds(issueRecs', u, repo, n)
  BY DEF Holds
<1>2. \A c \in commentRecs : c.uri \in Requests /\ c.uri # t
  BY DEF Typed, TypeOK, Refs, CommentRecord
<1>3. \A c \in commentRecs' : pc'[c.uri] \in Ended /\ Holds(issueRecs', c.issue, c.repo, req'[c.uri].number)
  BY <1>1, <1>2 DEF Refs
<1>4. \A x \in Requests :
          /\ pc'[x] = "setAt" => Holds(issueRecs', x, req'[x].repo, req'[x].number)
          /\ pc'[x] = "putComment" => Holds(issueRecs', req'[x].at, req'[x].repo, req'[x].number)
  BY <1>1 DEF Refs
<1> QED
  BY <1>3, <1>4 DEF Refs

\* Refs is inductive, given the types.
LEMMA RefsInduction == Typed /\ Refs /\ [Next]_vars => Refs'
<1> SUFFICES ASSUME Typed, Refs, [Next]_vars PROVE Refs'
  OBVIOUS
<1>t. TypeOK /\ Read
  BY DEF Typed
<1>r. \A i \in issues : i.at # None => Holds(issueRecs, i.at, i.repo, i.number)
  BY DEF Refs
<1>a. ASSUME NEW t \in Requests, NEW op, NEW u, NEW repo, NEW n, NEW s, pc[t] = "new",
             Begin(t, op, u, repo, n), Goto(t, s), s \notin {"setAt", "putComment"},
             \A j \in issues' : j.at # None =>
                 \E i \in issues : i.at = j.at /\ i.repo = j.repo /\ i.number = j.number,
             UNCHANGED records
      PROVE  Refs'
  <2>1. /\ \A x \in Requests \ {t} : pc'[x] = pc[x] /\ req'[x] = req[x]
        /\ pc'[t] = s
    BY <1>a, <1>t DEF Begin, Goto, TypeOK
  <2>2. issueRecs' = issueRecs /\ commentRecs' = commentRecs
    BY <1>a DEF records
  <2>3. \A v, r, m : Holds(issueRecs', v, r, m) <=> Holds(issueRecs, v, r, m)
    BY <2>2 DEF Holds
  <2> QED
    BY <1>a, <1>r, <2>1, <2>2, <2>3, RefsKept DEF Ended
<1>b. ASSUME NEW t \in Requests, NEW s, Goto(t, s), UNCHANGED <<issues, records, req>>,
             pc[t] \in InFlight \cup {"new"}, s \notin {"setAt", "putComment"}
      PROVE  Refs'
  <2>1. \A x \in Requests : req'[x] = req[x] /\ pc'[x] = IF x = t THEN s ELSE pc[x]
    BY <1>b, <1>t DEF Goto, TypeOK
  <2>2. issueRecs' = issueRecs /\ commentRecs' = commentRecs
    BY <1>b DEF records
  <2>3. \A v, r, m : Holds(issueRecs', v, r, m) <=> Holds(issueRecs, v, r, m)
    BY <2>2 DEF Holds
  <2> QED
    BY <1>b, <1>r, <2>1, <2>2, <2>3, RefsKept DEF Ended, InFlight
<1>1. ASSUME NEW t \in Requests, NEW u \in Users, NEW repo \in Repos, NewIssue(t, u, repo)
      PROVE  Refs'
  BY <1>1, <1>a DEF NewIssue
<1>2. ASSUME NEW t \in Requests, NEW u \in Users, NEW repo \in Repos, NEW n \in Numbers,
             IssueComment(t, u, repo, n) \/ CloseIssue(t, u, repo, n)
      PROVE  Refs'
  BY <1>2, <1>a DEF IssueComment, CloseIssue, tables
<1>3. ASSUME NEW t \in Requests, NEW u \in Users, NEW repo \in Repos, NEW n \in Numbers,
             ReopenIssue(t, u, repo, n)
      PROVE  Refs'
  <2>1. \A i \in issues : /\ [i EXCEPT !.open = TRUE].at = i.at
                          /\ [i EXCEPT !.open = TRUE].repo = i.repo
                          /\ [i EXCEPT !.open = TRUE].number = i.number
    BY <1>t DEF TypeOK, Issue
  <2>2. \A j \in issues' : \E i \in issues : i.at = j.at /\ i.repo = j.repo /\ i.number = j.number
    BY <1>3, <2>1 DEF ReopenIssue
  <2>3. /\ pc[t] = "new" /\ Begin(t, "ReopenIssue", u, repo, n) /\ Goto(t, "answered")
        /\ UNCHANGED records
    BY <1>3 DEF ReopenIssue
  <2> QED
    BY <1>a, <2>2, <2>3
<1>4. ASSUME NEW t \in Requests, GetIssueId(t) PROVE Refs'
  <2>1. /\ \A x \in Requests \ {t} : pc'[x] = pc[x] /\ req'[x] = req[x]
        /\ pc'[t] = "putIssue"
    BY <1>4, <1>t DEF GetIssueId, Goto, TypeOK
  <2>2. issues' = issues /\ issueRecs' = issueRecs /\ commentRecs' = commentRecs /\ pc[t] = "number"
    BY <1>4 DEF GetIssueId, tables, records
  <2>3. \A v, r, m : Holds(issueRecs', v, r, m) <=> Holds(issueRecs, v, r, m)
    BY <2>2 DEF Holds
  <2> QED
    BY <1>r, <2>1, <2>2, <2>3, RefsKept DEF Ended
<1>5. ASSUME NEW t \in Requests, PutIssue(t) PROVE Refs'
  <2>1. PICK s \in {"setAt", "failed"} : pc' = [pc EXCEPT ![t] = s]
    BY <1>5 DEF PutIssue
  <2>2. \A x \in Requests : req'[x] = req[x] /\ pc'[x] = IF x = t THEN s ELSE pc[x]
    BY <1>5, <1>t, <2>1 DEF PutIssue, TypeOK
  <2>3. issues' = issues /\ commentRecs' = commentRecs /\ pc[t] = "putIssue"
    BY <1>5 DEF PutIssue, tables
  <2> DEFINE rec == [uri |-> t, in |-> req[t].user, repo |-> req[t].repo, number |-> req[t].number]
  <2>a. issueRecs' = issueRecs \cup {rec}
    BY <1>5 DEF PutIssue
  <2>b. rec.uri = t /\ rec.repo = req'[t].repo /\ rec.number = req'[t].number
    BY <2>2
  <2> HIDE DEF rec
  <2>4. issueRecs \subseteq issueRecs' /\ Holds(issueRecs', t, req'[t].repo, req'[t].number)
    BY <2>a, <2>b DEF Holds
  <2>5. \A v, r, m : Holds(issueRecs, v, r, m) => Holds(issueRecs', v, r, m)
    BY <2>4 DEF Holds
  <2> QED
    BY <1>r, <2>1, <2>2, <2>3, <2>4, <2>5, RefsKept DEF Ended
<1>6. ASSUME NEW t \in Requests, SetIssueAt(t) PROVE Refs'
  <2>1. \A x \in Requests : req'[x] = req[x] /\ pc'[x] = IF x = t THEN "answered" ELSE pc[x]
    BY <1>6, <1>t DEF SetIssueAt, Goto, TypeOK
  <2>2. issueRecs' = issueRecs /\ commentRecs' = commentRecs /\ pc[t] = "setAt"
    BY <1>6 DEF SetIssueAt, records
  <2>3. Holds(issueRecs, t, req[t].repo, req[t].number)
    BY <2>2 DEF Refs
  <2>4. \A i \in issues : /\ [i EXCEPT !.at = t].at = t
                          /\ [i EXCEPT !.at = t].repo = i.repo
                          /\ [i EXCEPT !.at = t].number = i.number
    BY <1>t DEF TypeOK, Issue
  <2>a. \A i \in Row(req[t].repo, req[t].number) : i.repo = req[t].repo /\ i.number = req[t].number
    BY DEF Row
  <2>b. \A j \in issues' : \/ j \in issues
                           \/ \E i \in issues : /\ i \in Row(req[t].repo, req[t].number)
                                              /\ j = [i EXCEPT !.at = t]
    BY <1>6 DEF SetIssueAt
  <2>5. \A j \in issues' : \/ j \in issues
                           \/ j.at = t /\ j.repo = req[t].repo /\ j.number = req[t].number
    BY <2>a, <2>b, <2>4
  <2>6. \A v, r, m : Holds(issueRecs', v, r, m) <=> Holds(issueRecs, v, r, m)
    BY <2>2 DEF Holds
  <2> QED
    BY <1>r, <2>1, <2>2, <2>3, <2>5, <2>6, RefsKept DEF Ended
<1>7. ASSUME NEW t \in Requests, GetIssueAt(t) PROVE Refs'
  <2>1. PICK i \in Row(req[t].repo, req[t].number) : i.at # None /\ req' = [req EXCEPT ![t].at = i.at]
    BY <1>7 DEF GetIssueAt
  <2>2. Holds(issueRecs, i.at, req[t].repo, req[t].number)
    BY <1>r, <2>1 DEF Row
  <2>3. req[t] \in Call
    BY <1>7, <1>t, CallTyped DEF GetIssueAt, InFlight
  <2>4. /\ \A x \in Requests \ {t} : pc'[x] = pc[x] /\ req'[x] = req[x]
        /\ pc'[t] = "putComment" /\ req'[t] = [req[t] EXCEPT !.at = i.at]
    BY <1>7, <1>t, <2>1 DEF GetIssueAt, Goto, TypeOK
  <2>5. req'[t].at = i.at /\ req'[t].repo = req[t].repo /\ req'[t].number = req[t].number
    BY <2>3, <2>4 DEF Call
  <2>6. issues' = issues /\ issueRecs' = issueRecs /\ commentRecs' = commentRecs /\ pc[t] = "getAt"
    BY <1>7 DEF GetIssueAt, tables, records
  <2>7. \A v, r, m : Holds(issueRecs', v, r, m) <=> Holds(issueRecs, v, r, m)
    BY <2>6 DEF Holds
  <2>8. Holds(issueRecs', req'[t].at, req'[t].repo, req'[t].number)
    BY <2>2, <2>5, <2>6 DEF Holds
  <2> QED
    BY <1>r, <2>4, <2>6, <2>7, <2>8, RefsKept DEF Ended
<1>8. ASSUME NEW t \in Requests, PutComment(t) PROVE Refs'
  <2>1. PICK s \in {"answered", "failed"} : pc' = [pc EXCEPT ![t] = s]
    BY <1>8 DEF PutComment
  <2>2. \A x \in Requests : req'[x] = req[x] /\ pc'[x] = IF x = t THEN s ELSE pc[x]
    BY <1>8, <1>t, <2>1 DEF PutComment, TypeOK
  <2>3. issues' = issues /\ issueRecs' = issueRecs /\ pc[t] = "putComment"
    BY <1>8 DEF PutComment, tables
  <2>4. Holds(issueRecs, req[t].at, req[t].repo, req[t].number)
    BY <2>3 DEF Refs
  <2>5. \A v, r, m : Holds(issueRecs', v, r, m) <=> Holds(issueRecs, v, r, m)
    BY <2>3 DEF Holds
  <2> DEFINE d == [uri |-> t, in |-> req[t].user, repo |-> req[t].repo, issue |-> req[t].at]
  <2>a. commentRecs' = commentRecs \cup {d}
    BY <1>8 DEF PutComment
  <2>b. d.uri = t /\ d.issue = req[t].at /\ d.repo = req[t].repo
    OBVIOUS
  <2> HIDE DEF d
  <2>6. \A c \in commentRecs' : \/ c \in commentRecs
                                \/ c.uri = t /\ c.issue = req[t].at /\ c.repo = req[t].repo
    BY <2>a, <2>b
  <2> QED
    BY <1>r, <2>1, <2>2, <2>3, <2>4, <2>5, <2>6, RefsKept DEF Ended
<1>9. ASSUME NEW t \in Requests, PutState(t) PROVE Refs'
  <2>1. PICK s \in {"close", "failed"} : pc' = [pc EXCEPT ![t] = s]
    BY <1>9 DEF PutState
  <2>2. \A x \in Requests : req'[x] = req[x] /\ pc'[x] = IF x = t THEN s ELSE pc[x]
    BY <1>9, <1>t, <2>1 DEF PutState, TypeOK
  <2>3. issues' = issues /\ issueRecs' = issueRecs /\ commentRecs' = commentRecs /\ pc[t] = "putState"
    BY <1>9 DEF PutState, tables
  <2>4. \A v, r, m : Holds(issueRecs', v, r, m) <=> Holds(issueRecs, v, r, m)
    BY <2>3 DEF Holds
  <2> QED
    BY <1>r, <2>1, <2>2, <2>3, <2>4, RefsKept DEF Ended
<1>10. ASSUME NEW t \in Requests, Close(t) PROVE Refs'
  <2>1. \A x \in Requests : req'[x] = req[x] /\ pc'[x] = IF x = t THEN "answered" ELSE pc[x]
    BY <1>10, <1>t DEF Close, Goto, TypeOK
  <2>2. issueRecs' = issueRecs /\ commentRecs' = commentRecs /\ pc[t] = "close"
    BY <1>10 DEF Close, records
  <2>3. \A i \in issues : /\ [i EXCEPT !.open = FALSE].at = i.at
                          /\ [i EXCEPT !.open = FALSE].repo = i.repo
                          /\ [i EXCEPT !.open = FALSE].number = i.number
    BY <1>t DEF TypeOK, Issue
  <2>4. \A j \in issues' : \E i \in issues : i.at = j.at /\ i.repo = j.repo /\ i.number = j.number
    BY <1>10, <2>3 DEF Close
  <2>5. \A v, r, m : Holds(issueRecs', v, r, m) <=> Holds(issueRecs, v, r, m)
    BY <2>2 DEF Holds
  <2> QED
    BY <1>r, <2>1, <2>2, <2>4, <2>5, RefsKept DEF Ended
<1>11. ASSUME NEW t \in Requests, Fails(t) PROVE Refs'
  BY <1>11, <1>b DEF Fails, tables
<1>12. CASE Crash
  <2>1. \A x \in Requests : pc'[x] = IF pc[x] \in InFlight THEN "dead" ELSE pc[x]
    BY <1>12 DEF Crash
  <2>2. UNCHANGED <<issues, issueRecs, commentRecs, req>>
    BY <1>12 DEF Crash, tables, records
  <2>3. \A v, r, m : Holds(issueRecs', v, r, m) <=> Holds(issueRecs, v, r, m)
    BY <2>2 DEF Holds
  <2>4. \A c \in commentRecs : c.uri \in Requests
    BY <1>t DEF TypeOK, CommentRecord
  <2> QED
    BY <2>1, <2>2, <2>3, <2>4 DEF Refs, Ended, InFlight
<1>13. CASE UNCHANGED vars
  BY <1>13 DEF Refs, Holds, vars, tables, records
<1>14. 1 .. MaxNumber \subseteq Numbers
  BY BoundAssumption DEF Numbers
<1> QED
  BY <1>1, <1>2, <1>3, <1>4, <1>5, <1>6, <1>7, <1>8, <1>9, <1>10, <1>11, <1>12, <1>13, <1>14
     DEF Next, Arrival, Served

\* No row and no comment's record ever points to an issue that was not put, or
\* to one of another repository or number, whatever requests interleave or fail.
THEOREM NothingDangles == Spec => []NoDanglingRecord
<1>1. Init => Refs
  BY DEF Init, Refs
<1>2. Refs => NoDanglingRecord
  BY DEF Refs, NoDanglingRecord, Holds
<1> QED
  BY <1>1, <1>2, InitTyped, TypeInduction, RefsInduction, PTL DEF Spec

-----------------------------------------------------------------------------
(* Numbers.  Only NewIssue adds a row or changes the sequence; every other  *)
(* step rewrites rows in place.                                             *)

Same(i, j) == i.repo = j.repo /\ i.number = j.number /\ i.owner = j.owner /\ i.by = j.by

InPlace ==
    /\ nextId' = nextId
    /\ \E f : issues' = {f[i] : i \in issues} /\ \A i \in issues : Same(i, f[i])

LEMMA Rewriting ==
    ASSUME NEW f, issues' = {f[i] : i \in issues}, nextId' = nextId,
           \A i \in issues : Same(i, f[i])
    PROVE  InPlace
  BY DEF InPlace

LEMMA RowSteps ==
    ASSUME Typed, [Next]_vars
    PROVE  \/ \E t \in Requests, u \in Users, repo \in Repos : NewIssue(t, u, repo)
           \/ InPlace
<1>t. TypeOK
  BY DEF Typed
<1>1. ASSUME issues' = issues, nextId' = nextId PROVE InPlace
  <2> DEFINE f == [i \in issues |-> i]
  <2>1. \A i \in issues : f[i] = i
    OBVIOUS
  <2>2. issues' = {f[i] : i \in issues} /\ \A i \in issues : Same(i, f[i])
    BY <1>1, <2>1 DEF Same
  <2> QED
    BY <1>1, <2>2, Rewriting
<1>2. ASSUME NEW t \in Requests, SetIssueAt(t) PROVE InPlace
  <2> DEFINE rows == Row(req[t].repo, req[t].number)
             f == [i \in issues |-> IF i \in rows THEN [i EXCEPT !.at = t] ELSE i]
  <2>1. issues' = {IF i \in rows THEN [i EXCEPT !.at = t] ELSE i : i \in issues} /\ nextId' = nextId
    BY <1>2 DEF SetIssueAt
  <2>2. \A i \in issues : f[i] = IF i \in rows THEN [i EXCEPT !.at = t] ELSE i
    OBVIOUS
  <2>3. \A i \in issues : Same(i, [i EXCEPT !.at = t]) /\ Same(i, i)
    BY <1>t DEF TypeOK, Issue, Same
  <2> HIDE DEF f
  <2>4. issues' = {f[i] : i \in issues} /\ \A i \in issues : Same(i, f[i])
    BY <2>1, <2>2, <2>3
  <2> QED
    BY <2>1, <2>4, Rewriting
<1>3. ASSUME NEW rows, NEW o, nextId' = nextId,
             issues' = {IF i \in rows THEN [i EXCEPT !.open = o] ELSE i : i \in issues}
      PROVE  InPlace
  <2> DEFINE f == [i \in issues |-> IF i \in rows THEN [i EXCEPT !.open = o] ELSE i]
  <2>1. \A i \in issues : f[i] = IF i \in rows THEN [i EXCEPT !.open = o] ELSE i
    OBVIOUS
  <2>2. \A i \in issues : Same(i, [i EXCEPT !.open = o]) /\ Same(i, i)
    BY <1>t DEF TypeOK, Issue, Same
  <2> HIDE DEF f
  <2>3. issues' = {f[i] : i \in issues} /\ \A i \in issues : Same(i, f[i])
    BY <1>3, <2>1, <2>2
  <2> QED
    BY <1>3, <2>3, Rewriting
<1>4. ASSUME NEW t \in Requests, Close(t) PROVE InPlace
  BY <1>4, <1>3 DEF Close
<1>5. ASSUME NEW t \in Requests, NEW u, NEW repo, NEW n, ReopenIssue(t, u, repo, n) PROVE InPlace
  BY <1>5, <1>3 DEF ReopenIssue
<1>6. ASSUME NEW t \in Requests, NEW u, NEW repo, NEW n,
             IssueComment(t, u, repo, n) \/ CloseIssue(t, u, repo, n)
      PROVE  InPlace
  BY <1>6, <1>1 DEF IssueComment, CloseIssue, tables
<1>7. ASSUME NEW t \in Requests,
             \/ GetIssueId(t) \/ PutIssue(t) \/ GetIssueAt(t)
             \/ PutComment(t) \/ PutState(t) \/ Fails(t)
      PROVE  InPlace
  BY <1>7, <1>1 DEF GetIssueId, PutIssue, GetIssueAt, PutComment, PutState, Fails, tables
<1>8. CASE Crash \/ UNCHANGED vars
  BY <1>8, <1>1 DEF Crash, vars, tables
<1> QED
  BY <1>2, <1>4, <1>5, <1>6, <1>7, <1>8 DEF Next, Arrival, Served

Numbered ==
    /\ \A i \in issues : i.number < nextId[i.repo]
    /\ \A repo \in Repos, n \in Numbers :
          n < nextId[repo] => \E i \in issues : i.repo = repo /\ i.number = n
    /\ \A i, j \in issues : i.repo = j.repo /\ i.number = j.number => i = j

LEMMA InPlaceNumbered == ASSUME Typed, Numbered, InPlace PROVE Numbered'
<1>1. PICK f : issues' = {f[i] : i \in issues} /\ \A i \in issues : Same(i, f[i])
  BY DEF InPlace
<1>2. \A j \in issues' : \E i \in issues : j = f[i] /\ Same(i, j)
  BY <1>1
<1>3. nextId' = nextId
  BY DEF InPlace
<1>4. \A i \in issues' : i.number < nextId'[i.repo]
  BY <1>2, <1>3 DEF Numbered, Same
<1>5. \A repo \in Repos, n \in Numbers :
          n < nextId'[repo] => \E i \in issues' : i.repo = repo /\ i.number = n
  BY <1>1, <1>3 DEF Numbered, Same
<1>6. \A i, j \in issues' : i.repo = j.repo /\ i.number = j.number => i = j
  BY <1>2 DEF Numbered, Same
<1> QED
  BY <1>4, <1>5, <1>6 DEF Numbered

LEMMA NewIssueNumbered ==
    ASSUME Typed, Numbered, NEW t \in Requests, NEW u \in Users, NEW repo \in Repos,
           NewIssue(t, u, repo)
    PROVE  Numbered'
<1> DEFINE n == nextId[repo]
           i == [repo |-> repo, number |-> n, owner |-> u, by |-> t, at |-> None, open |-> TRUE]
<1>1. issues' = issues \cup {i} /\ i.repo = repo /\ i.number = n
  BY DEF NewIssue
<1>2. n \in Numbers /\ \A j \in issues : j.repo \in Repos /\ j.number \in Numbers
  BY DEF Typed, TypeOK, Issue
<1>3. \A r \in Repos : nextId'[r] = (IF r = repo THEN n + 1 ELSE nextId[r]) /\ nextId[r] \in Nat
  BY <1>2 DEF NewIssue, Typed, TypeOK, Numbers
<1> HIDE DEF i
<1>4. \A j \in issues' : j.number < nextId'[j.repo]
  BY <1>1, <1>2, <1>3 DEF Numbered, Numbers
<1>5. \A r \in Repos, m \in Numbers :
          m < nextId'[r] => \E j \in issues' : j.repo = r /\ j.number = m
  <2> SUFFICES ASSUME NEW r \in Repos, NEW m \in Numbers, m < nextId'[r]
               PROVE  \E j \in issues' : j.repo = r /\ j.number = m
    OBVIOUS
  <2>1. m < nextId[r] \/ (r = repo /\ m = n)
    BY <1>2, <1>3 DEF Numbers
  <2> QED
    BY <1>1, <2>1 DEF Numbered
<1>6. \A j \in issues : ~(j.repo = repo /\ j.number = n)
  BY <1>2 DEF Numbered, Numbers
<1>7. \A j, k \in issues' : j.repo = k.repo /\ j.number = k.number => j = k
  BY <1>1, <1>6 DEF Numbered
<1> QED
  BY <1>4, <1>5, <1>7 DEF Numbered

\* Numbered is inductive, given the types.
LEMMA NumberedInduction == Typed /\ Numbered /\ [Next]_vars => Numbered'
  BY RowSteps, InPlaceNumbered, NewIssueNumbered

\* The numbers of a repository's issues are 1, 2, ... without a gap or a repeat,
\* however many NewIssues run at a time and wherever they fail.
THEOREM NumbersInSequence == Spec => []IssueNumbers
<1>1. Init => Numbered
  BY DEF Init, Numbered, Numbers
<1>2. Typed /\ Numbered => IssueNumbers
  <2> SUFFICES ASSUME Typed, Numbered, NEW repo \in Repos
               PROVE  {i.number : i \in {j \in issues : j.repo = repo}} = 1 .. nextId[repo] - 1
    BY DEF IssueNumbers, Numbered
  <2>1. nextId[repo] \in Numbers /\ \A i \in issues : i.number \in Numbers
    BY DEF Typed, TypeOK, Issue
  <2>2. \A n \in Numbers : n < nextId[repo] <=> n \in 1 .. nextId[repo] - 1
    BY <2>1 DEF Numbers
  <2>3. 1 .. nextId[repo] - 1 \subseteq Numbers
    BY <2>1 DEF Numbers
  <2> QED
    BY <2>1, <2>2, <2>3 DEF Numbered
<1> QED
  BY <1>1, <1>2, InitTyped, TypeInduction, NumberedInduction, PTL DEF Spec

-----------------------------------------------------------------------------
(* Whose record a row points to.  A NewIssue that nobody overlapped reads   *)
(* the number of its own row, and so links its own record.                  *)

Making == {"number", "putIssue", "setAt"}

Owned ==
    /\ \A i \in issues :
          /\ i.at \in {None, i.by} \cup overlapped
          /\ pc[i.by] = "answered" /\ i.by \notin overlapped => i.at # None
          /\ pc[i.by] \in Making \cup Ended
    /\ \A i, j \in issues : i.by = j.by => i = j

OwnNumber ==
    \A t \in Requests \ overlapped :
        /\ pc[t] = "number" =>
              \E i \in issues :
                  i.by = t /\ i.repo = req[t].repo /\ i.number = nextId[req[t].repo] - 1
        /\ pc[t] \in {"putIssue", "setAt"} =>
              \E i \in issues :
                  i.by = t /\ i.repo = req[t].repo /\ i.number = req[t].number

Owning == Typed /\ Numbered /\ Owned /\ OwnNumber

\* Rows that keep what they point to, and a step of a request that makes no
\* issue, or stops making one.
LEMMA OwnedKept ==
    ASSUME Owning, NEW f, issues' = {f[i] : i \in issues},
           \A i \in issues : Same(i, f[i]) /\ f[i].at = i.at,
           UNCHANGED <<nextId, overlapped>>,
           \A x \in Requests :
               \/ pc'[x] = pc[x] /\ req'[x] = req[x]
               \/ pc[x] \in Making /\ pc'[x] \in {"failed", "dead"}
               \/ pc[x] \notin Making \cup Ended /\ pc'[x] \notin Making
    PROVE  Owned' /\ OwnNumber'
<1>1. \A j \in issues' : \E i \in issues : j = f[i] /\ Same(i, j) /\ j.at = i.at
  OBVIOUS
<1>2. \A i \in issues : i.by \in Requests
  BY DEF Owning, Typed, TypeOK, Issue
<1>3. \A i \in issues :
          \/ pc'[i.by] = pc[i.by]
          \/ pc'[i.by] \in {"failed", "dead"}
  BY <1>2 DEF Owning, Owned
<1>4. \A i \in issues' :
          /\ i.at \in {None, i.by} \cup overlapped'
          /\ pc'[i.by] = "answered" /\ i.by \notin overlapped' => i.at # None
          /\ pc'[i.by] \in Making \cup Ended
  BY <1>1, <1>3 DEF Owning, Owned, Same, Ended
<1>5. \A i, j \in issues' : i.by = j.by => i = j
  BY <1>1 DEF Owning, Owned, Same
<1>6. OwnNumber'
  <2> SUFFICES ASSUME NEW t \in Requests, t \notin overlapped', pc'[t] \in Making
               PROVE  /\ pc'[t] = "number" =>
                            \E i \in issues' :
                                i.by = t /\ i.repo = req'[t].repo /\ i.number = nextId'[req'[t].repo] - 1
                      /\ pc'[t] \in {"putIssue", "setAt"} =>
                            \E i \in issues' :
                                i.by = t /\ i.repo = req'[t].repo /\ i.number = req'[t].number
    BY DEF OwnNumber, Making
  <2>1. pc'[t] = pc[t] /\ req'[t] = req[t]
    BY DEF Making
  <2>2. \A i \in issues : f[i] \in issues' /\ Same(i, f[i])
    OBVIOUS
  <2> QED
    BY <2>1, <2>2 DEF Owning, OwnNumber, Same
<1> QED
  BY <1>4, <1>5, <1>6 DEF Owned

LEMMA OwnedUnchanged ==
    ASSUME Owning, UNCHANGED <<issues, nextId, overlapped>>,
           \A x \in Requests :
               \/ pc'[x] = pc[x] /\ req'[x] = req[x]
               \/ pc[x] \in Making /\ pc'[x] \in {"failed", "dead"}
               \/ pc[x] \notin Making \cup Ended /\ pc'[x] \notin Making
    PROVE  Owned' /\ OwnNumber'
<1> DEFINE f == [i \in issues |-> i]
<1>1. \A i \in issues : f[i] = i
  OBVIOUS
<1>2. issues' = {f[i] : i \in issues} /\ \A i \in issues : Same(i, f[i]) /\ f[i].at = i.at
  BY <1>1 DEF Same
<1> HIDE DEF f
<1> QED
  BY <1>2, OwnedKept

LEMMA OwnedReopened ==
    ASSUME Owning, NEW rows, NEW o, UNCHANGED <<nextId, overlapped>>,
           issues' = {IF i \in rows THEN [i EXCEPT !.open = o] ELSE i : i \in issues},
           \A x \in Requests :
               \/ pc'[x] = pc[x] /\ req'[x] = req[x]
               \/ pc[x] \notin Making \cup Ended /\ pc'[x] \notin Making
    PROVE  Owned' /\ OwnNumber'
<1> DEFINE f == [i \in issues |-> IF i \in rows THEN [i EXCEPT !.open = o] ELSE i]
<1>1. \A i \in issues : f[i] = IF i \in rows THEN [i EXCEPT !.open = o] ELSE i
  OBVIOUS
<1>2. \A i \in issues : /\ Same(i, [i EXCEPT !.open = o]) /\ Same(i, i)
                        /\ [i EXCEPT !.open = o].at = i.at
  BY DEF Owning, Typed, TypeOK, Issue, Same
<1> HIDE DEF f
<1>3. issues' = {f[i] : i \in issues} /\ \A i \in issues : Same(i, f[i]) /\ f[i].at = i.at
  BY <1>1, <1>2
<1> QED
  BY <1>3, OwnedKept

LEMMA NewIssueOwned ==
    ASSUME Owning, NEW t \in Requests, NEW u \in Users, NEW repo \in Repos,
           NewIssue(t, u, repo)
    PROVE  Owned' /\ OwnNumber'
<1> DEFINE n == nextId[repo]
           i == [repo |-> repo, number |-> n, owner |-> u, by |-> t, at |-> None, open |-> TRUE]
           c == [op |-> "NewIssue", user |-> u, repo |-> repo, number |-> None, at |-> None]
<1>1. /\ issues' = issues \cup {i} /\ i.repo = repo /\ i.number = n /\ i.by = t /\ i.at = None
      /\ pc[t] = "new" /\ overlapped \subseteq overlapped'
  BY DEF NewIssue
<1>2. /\ \A x \in Requests : pc'[x] = IF x = t THEN "number" ELSE pc[x]
      /\ \A x \in Requests : req'[x] = IF x = t THEN c ELSE req[x]
      /\ c.repo = repo
  BY DEF NewIssue, Goto, Begin, Owning, Typed, TypeOK
<1>3. /\ n \in Numbers
      /\ \A r \in Repos : nextId'[r] = IF r = repo THEN n + 1 ELSE nextId[r]
      /\ \A j \in issues : j.by \in Requests
  BY DEF NewIssue, Owning, Typed, TypeOK, Issue
<1>4. \A j \in issues : j.by # t
  BY <1>1 DEF Owning, Owned, Making, Ended
<1>5. \A x \in Requests : pc[x] = "number" /\ req[x].repo = repo => x \in overlapped'
  BY DEF NewIssue
<1> HIDE DEF i, c
<1>6. \A j \in issues' :
          /\ j.at \in {None, j.by} \cup overlapped'
          /\ pc'[j.by] = "answered" /\ j.by \notin overlapped' => j.at # None
          /\ pc'[j.by] \in Making \cup Ended
  BY <1>1, <1>2, <1>3, <1>4 DEF Owning, Owned, Making
<1>7. \A j, k \in issues' : j.by = k.by => j = k
  BY <1>1, <1>4 DEF Owning, Owned
<1>8. \A x \in Requests \ overlapped' :
          pc'[x] = "number" =>
              \E j \in issues' : j.by = x /\ j.repo = req'[x].repo /\ j.number = nextId'[req'[x].repo] - 1
  <2> SUFFICES ASSUME NEW x \in Requests, x \notin overlapped', pc'[x] = "number"
               PROVE  \E j \in issues' :
                          j.by = x /\ j.repo = req'[x].repo /\ j.number = nextId'[req'[x].repo] - 1
    OBVIOUS
  <2>1. CASE x = t
    BY <1>1, <1>2, <1>3, <2>1 DEF Numbers
  <2>2. CASE x # t
    <3>1. pc[x] = "number" /\ req'[x] = req[x] /\ x \notin overlapped
      BY <1>1, <1>2, <2>2
    <3>2. req[x].repo \in Repos /\ req[x].repo # repo
      BY <1>5, <3>1, CallTyped DEF Owning, Typed, InFlight
    <3> QED
      BY <1>1, <1>3, <3>1, <3>2 DEF Owning, OwnNumber
  <2> QED
    BY <2>1, <2>2
<1>9. \A x \in Requests \ overlapped' :
          pc'[x] \in {"putIssue", "setAt"} =>
              \E j \in issues' : j.by = x /\ j.repo = req'[x].repo /\ j.number = req'[x].number
  BY <1>1, <1>2 DEF Owning, OwnNumber
<1> QED
  BY <1>6, <1>7, <1>8, <1>9 DEF Owned, OwnNumber

LEMMA GetIssueIdOwned ==
    ASSUME Owning, NEW t \in Requests, GetIssueId(t)
    PROVE  Owned' /\ OwnNumber'
<1>1. req[t] \in Call /\ pc[t] = "number"
  BY CallTyped DEF GetIssueId, Owning, Typed, InFlight
<1> DEFINE c == [req[t] EXCEPT !.number = nextId[req[t].repo] - 1]
<1>2. c.repo = req[t].repo /\ c.number = nextId[req[t].repo] - 1
  BY <1>1 DEF Call
<1>3. \A x \in Requests : /\ pc'[x] = IF x = t THEN "putIssue" ELSE pc[x]
                          /\ req'[x] = IF x = t THEN c ELSE req[x]
  BY DEF GetIssueId, Goto, Owning, Typed, TypeOK
<1>4. issues' = issues /\ nextId' = nextId /\ overlapped' = overlapped
  BY DEF GetIssueId, tables
<1>5. \A i \in issues : i.by \in Requests
  BY DEF Owning, Typed, TypeOK, Issue
<1> HIDE DEF c
<1>6. Owned'
  BY <1>1, <1>3, <1>4, <1>5 DEF Owning, Owned, Making
<1>7. OwnNumber'
  BY <1>1, <1>2, <1>3, <1>4 DEF Owning, OwnNumber
<1> QED
  BY <1>6, <1>7

LEMMA PutIssueOwned ==
    ASSUME Owning, NEW t \in Requests, PutIssue(t)
    PROVE  Owned' /\ OwnNumber'
<1>1. PICK s \in {"setAt", "failed"} : pc' = [pc EXCEPT ![t] = s]
  BY DEF PutIssue
<1>2. \A x \in Requests : pc'[x] = (IF x = t THEN s ELSE pc[x]) /\ req'[x] = req[x]
  BY <1>1 DEF PutIssue, Owning, Typed, TypeOK
<1>3. issues' = issues /\ nextId' = nextId /\ overlapped' = overlapped /\ pc[t] = "putIssue"
  BY DEF PutIssue, tables
<1>4. \A i \in issues : i.by \in Requests
  BY DEF Owning, Typed, TypeOK, Issue
<1>5. Owned'
  BY <1>2, <1>3, <1>4 DEF Owning, Owned, Making, Ended
<1>6. OwnNumber'
  BY <1>2, <1>3 DEF Owning, OwnNumber
<1> QED
  BY <1>5, <1>6

\* The row of the number is the request's own, unless it was overlapped.
LEMMA SetIssueAtOwned ==
    ASSUME Owning, NEW t \in Requests, SetIssueAt(t)
    PROVE  Owned' /\ OwnNumber'
<1> DEFINE rows == Row(req[t].repo, req[t].number)
           f == [i \in issues |-> IF i \in rows THEN [i EXCEPT !.at = t] ELSE i]
<1>1. \A i \in issues : f[i] = IF i \in rows THEN [i EXCEPT !.at = t] ELSE i
  OBVIOUS
<1>2. /\ issues' = {IF i \in rows THEN [i EXCEPT !.at = t] ELSE i : i \in issues}
      /\ nextId' = nextId /\ overlapped' = overlapped /\ pc[t] = "setAt"
  BY DEF SetIssueAt
<1>3. \A i \in issues : /\ Same(i, [i EXCEPT !.at = t]) /\ Same(i, i)
                        /\ [i EXCEPT !.at = t].at = t
  BY DEF Owning, Typed, TypeOK, Issue, Same
<1>4. \A x \in Requests : pc'[x] = (IF x = t THEN "answered" ELSE pc[x]) /\ req'[x] = req[x]
  BY DEF SetIssueAt, Goto, Owning, Typed, TypeOK
<1>5. \A i \in rows : i \in issues /\ i.repo = req[t].repo /\ i.number = req[t].number
  BY DEF Row
<1>6. \A i \in issues : i.repo = req[t].repo /\ i.number = req[t].number => i \in rows
  BY DEF Row
<1>7. t \notin overlapped => \A i \in issues : i.by = t <=> i \in rows
  BY <1>2, <1>5, <1>6 DEF Owning, OwnNumber, Owned, Numbered
<1> HIDE DEF f, rows
<1>8. issues' = {f[i] : i \in issues} /\ \A i \in issues : Same(i, f[i])
  BY <1>1, <1>2, <1>3
<1>9. \A i \in issues : f[i].at = (IF i \in rows THEN t ELSE i.at) /\ i.by \in Requests /\ t # None
  BY <1>1, <1>3, NoneAssumption DEF Owning, Typed, TypeOK, Issue
<1>10. \A j \in issues' : \E i \in issues : j = f[i] /\ Same(i, j)
  BY <1>8
<1>11. \A i \in issues :
           /\ f[i].at \in {None, i.by} \cup overlapped
           /\ pc'[i.by] = "answered" /\ i.by \notin overlapped => f[i].at # None
           /\ pc'[i.by] \in Making \cup Ended
  BY <1>4, <1>7, <1>9 DEF Owning, Owned, Ended
<1>12. Owned'
  BY <1>2, <1>10, <1>11 DEF Owning, Owned, Same
<1>13. OwnNumber'
  <2>1. \A i \in issues : f[i] \in issues'
    BY <1>8
  <2> QED
    BY <1>2, <1>4, <1>8, <2>1 DEF Owning, OwnNumber, Same
<1> QED
  BY <1>12, <1>13

\* So are Owned and OwnNumber, given the numbers.
LEMMA OwnedInduction == Owning /\ [Next]_vars => Owned' /\ OwnNumber'
<1> SUFFICES ASSUME Owning, [Next]_vars PROVE Owned' /\ OwnNumber'
  OBVIOUS
<1>t. TypeOK
  BY DEF Owning, Typed
<1>1. ASSUME NEW t \in Requests, NEW u, NEW repo, NEW n,
             IssueComment(t, u, repo, n) \/ CloseIssue(t, u, repo, n)
      PROVE  Owned' /\ OwnNumber'
  <2>1. PICK s \in {"getAt", "putState"} : Goto(t, s)
    BY <1>1 DEF IssueComment, CloseIssue
  <2>2. /\ UNCHANGED <<issues, nextId, overlapped>> /\ pc[t] = "new"
        /\ \E op : Begin(t, op, u, repo, n)
    BY <1>1 DEF IssueComment, CloseIssue, tables
  <2>3. \A x \in Requests : \/ pc'[x] = pc[x] /\ req'[x] = req[x]
                            \/ pc[x] = "new" /\ pc'[x] \in {"getAt", "putState"}
    BY <1>t, <2>1, <2>2 DEF Goto, Begin, TypeOK
  <2> QED
    BY <2>2, <2>3, OwnedUnchanged DEF Making, Ended
<1>2. ASSUME NEW t \in Requests, NEW u, NEW repo, NEW n, ReopenIssue(t, u, repo, n)
      PROVE  Owned' /\ OwnNumber'
  <2> DEFINE rows == Row(repo, n)
  <2>1. \A x \in Requests : \/ pc'[x] = pc[x] /\ req'[x] = req[x]
                            \/ pc[x] = "new" /\ pc'[x] = "answered"
    BY <1>2, <1>t DEF ReopenIssue, Goto, Begin, TypeOK
  <2>2. /\ UNCHANGED <<nextId, overlapped>>
        /\ issues' = {IF i \in rows THEN [i EXCEPT !.open = TRUE] ELSE i : i \in issues}
    BY <1>2 DEF ReopenIssue
  <2>3. \A x \in Requests :
            \/ pc'[x] = pc[x] /\ req'[x] = req[x]
            \/ pc[x] \notin Making \cup Ended /\ pc'[x] \notin Making
    BY <2>1 DEF Making, Ended
  <2> HIDE DEF rows
  <2> QED
    BY <2>2, <2>3, OwnedReopened
<1>3. ASSUME NEW t \in Requests, Close(t) PROVE Owned' /\ OwnNumber'
  <2> DEFINE rows == Row(req[t].repo, req[t].number)
  <2>1. \A x \in Requests : \/ pc'[x] = pc[x] /\ req'[x] = req[x]
                            \/ pc[x] = "close" /\ pc'[x] = "answered"
    BY <1>3, <1>t DEF Close, Goto, TypeOK
  <2>2. /\ UNCHANGED <<nextId, overlapped>>
        /\ issues' = {IF i \in rows THEN [i EXCEPT !.open = FALSE] ELSE i : i \in issues}
    BY <1>3 DEF Close
  <2>3. \A x \in Requests :
            \/ pc'[x] = pc[x] /\ req'[x] = req[x]
            \/ pc[x] \notin Making \cup Ended /\ pc'[x] \notin Making
    BY <2>1 DEF Making, Ended
  <2> HIDE DEF rows
  <2> QED
    BY <2>2, <2>3, OwnedReopened
<1>4. ASSUME NEW t \in Requests, GetIssueAt(t) PROVE Owned' /\ OwnNumber'
  <2>1. \A x \in Requests : \/ pc'[x] = pc[x] /\ req'[x] = req[x]
                            \/ pc[x] = "getAt" /\ pc'[x] = "putComment"
    BY <1>4, <1>t DEF GetIssueAt, Goto, TypeOK
  <2>2. UNCHANGED <<issues, nextId, overlapped>>
    BY <1>4 DEF GetIssueAt, tables
  <2> QED
    BY <2>1, <2>2, OwnedUnchanged DEF Making, Ended
<1>5. ASSUME NEW t \in Requests, PutComment(t) \/ PutState(t) PROVE Owned' /\ OwnNumber'
  <2>1. PICK s \in {"answered", "close", "failed"} : pc' = [pc EXCEPT ![t] = s]
    BY <1>5 DEF PutComment, PutState
  <2>2. /\ UNCHANGED <<issues, nextId, overlapped, req>>
        /\ pc[t] \in {"putComment", "putState"}
    BY <1>5 DEF PutComment, PutState, tables
  <2>3. \A x \in Requests :
            \/ pc'[x] = pc[x] /\ req'[x] = req[x]
            \/ pc[x] \in {"putComment", "putState"} /\ pc'[x] \in {"answered", "close", "failed"}
    BY <1>t, <2>1, <2>2 DEF TypeOK
  <2> QED
    BY <2>2, <2>3, OwnedUnchanged DEF Making, Ended
<1>6. ASSUME NEW t \in Requests, Fails(t) PROVE Owned' /\ OwnNumber'
  <2>1. UNCHANGED <<issues, nextId, overlapped, req>> /\ pc[t] \in InFlight \cup {"new"}
    BY <1>6 DEF Fails, tables
  <2>2. \A x \in Requests : pc'[x] = IF x = t THEN "failed" ELSE pc[x]
    BY <1>6, <1>t DEF Fails, Goto, TypeOK
  <2> QED
    BY <2>1, <2>2, OwnedUnchanged DEF Making, Ended, InFlight
<1>7. CASE Crash
  <2>1. UNCHANGED <<issues, nextId, overlapped, req>>
    BY <1>7 DEF Crash, tables
  <2>2. \A x \in Requests : pc'[x] = IF pc[x] \in InFlight THEN "dead" ELSE pc[x]
    BY <1>7 DEF Crash
  <2> QED
    BY <2>1, <2>2, OwnedUnchanged DEF Making, Ended, InFlight
<1>8. CASE UNCHANGED vars
  BY <1>8, OwnedUnchanged DEF vars, tables
<1> QED
  BY <1>1, <1>2, <1>3, <1>4, <1>5, <1>6, <1>7, <1>8, NewIssueOwned, GetIssueIdOwned,
     PutIssueOwned, SetIssueAtOwned DEF Next, Arrival, Served

\* A row points to the record of the request that made it, unless two NewIssues
\* of the repository overlapped between an insert and the read of its number.
THEOREM OwnRecords == Spec => []IssueAtOwn
<1>1. Init => Typed /\ Numbered /\ Owned /\ OwnNumber
  BY InitTyped DEF Init, Numbered, Owned, OwnNumber, Numbers
<1>2. Owned => IssueAtOwn
  BY DEF Owned, IssueAtOwn
<1>3. Typed /\ Numbered /\ Owned /\ OwnNumber /\ [Next]_vars
        => Typed' /\ Numbered' /\ Owned' /\ OwnNumber'
  BY TypeInduction, NumberedInduction, OwnedInduction DEF Owning
<1> QED
  BY <1>1, <1>2, <1>3, PTL DEF Spec

-----------------------------------------------------------------------------
(* Answers and closings.  Both properties are about what a handler did      *)
(* before its last call, so they need its control flow (Flow) and that rows *)
(* and records stay.                                                        *)

\* How a step may move request x: from where to where, and what it has done.
Flow(x) ==
    /\ pc[x] \in Ended => pc'[x] = pc[x]
    /\ pc[x] \notin {"new", "number", "getAt"} => req'[x] = req[x]
    /\ pc[x] = "getAt" =>
          /\ pc'[x] \in {"getAt", "putComment", "failed", "dead"}
          /\ req'[x].repo = req[x].repo /\ req'[x].number = req[x].number
          /\ pc'[x] = "putComment" => Row(req[x].repo, req[x].number) # {}
    /\ pc[x] = "putComment" =>
          /\ pc'[x] \in {"putComment", "answered", "failed", "dead"}
          /\ pc'[x] = "answered" => \E r \in commentRecs' : r.uri = x
    /\ pc[x] = "close" => pc'[x] \in {"close"} \cup Ended
    /\ pc'[x] = "close" /\ pc[x] # "close" =>
          /\ pc[x] = "putState"
          /\ \E i \in Row(req[x].repo, req[x].number) :
                \E r \in stateRecs' : r.uri = x /\ r.in = i.owner

\* A step leaves the request where it is, or ends it unanswered.
LEMMA StillFlow ==
    ASSUME NEW x \in Requests, pc'[x] = pc[x], req'[x] = req[x]
    PROVE  Flow(x)
BY DEF Flow, Ended

LEMMA FlowSteps ==
    ASSUME Typed, [Next]_vars, NEW x \in Requests
    PROVE  Flow(x)
<1>t. TypeOK
  BY DEF Typed
<1>a. ASSUME NEW t \in Requests, NEW op, NEW u, NEW repo, NEW n, NEW s, pc[t] = "new",
             Begin(t, op, u, repo, n), Goto(t, s), s # "close"
      PROVE  Flow(x)
  <2>1. CASE x = t
    BY <1>a, <1>t, <2>1 DEF Goto, TypeOK, Flow, Ended
  <2>2. CASE x # t
    BY <1>a, <1>t, <2>2, StillFlow DEF Goto, Begin, TypeOK
  <2> QED
    BY <2>1, <2>2
<1>1. ASSUME NEW t \in Requests, Arrival(t) PROVE Flow(x)
  BY <1>1, <1>a DEF Arrival, NewIssue, IssueComment, CloseIssue, ReopenIssue
<1>2. ASSUME NEW t \in Requests, NEW s, pc' = [pc EXCEPT ![t] = s], UNCHANGED req,
             pc[t] \notin Ended,
             pc[t] = "getAt" => s = "failed",
             pc[t] = "putComment" =>
                 s = "failed" \/ (s = "answered" /\ \E r \in commentRecs' : r.uri = t),
             pc[t] = "close" => s \in Ended,
             s = "close" => /\ pc[t] = "putState"
                            /\ \E i \in Row(req[t].repo, req[t].number) :
                                  \E r \in stateRecs' : r.uri = t /\ r.in = i.owner
      PROVE  Flow(x)
  <2>1. pc'[x] = (IF x = t THEN s ELSE pc[x]) /\ req'[x] = req[x]
    BY <1>2, <1>t DEF TypeOK
  <2>2. CASE x = t
    BY <1>2, <2>1, <2>2 DEF Flow, Ended
  <2>3. CASE x # t
    BY <2>1, <2>3, StillFlow
  <2> QED
    BY <2>2, <2>3
<1>3. ASSUME NEW t \in Requests, GetIssueId(t) PROVE Flow(x)
  <2>1. CASE x = t
    BY <1>3, <1>t, <2>1 DEF GetIssueId, Goto, TypeOK, Flow, Ended
  <2>2. CASE x # t
    BY <1>3, <1>t, <2>2, StillFlow DEF GetIssueId, Goto, TypeOK
  <2> QED
    BY <2>1, <2>2
<1>4. ASSUME NEW t \in Requests, PutIssue(t) \/ SetIssueAt(t) \/ Close(t) \/ Fails(t) PROVE Flow(x)
  <2>1. PICK s \in {"setAt", "failed", "answered"} : pc' = [pc EXCEPT ![t] = s]
    BY <1>4 DEF PutIssue, SetIssueAt, Close, Fails, Goto
  <2>2. /\ UNCHANGED req /\ pc[t] \notin Ended
        /\ pc[t] \in {"getAt", "putComment"} => s = "failed"
        /\ pc[t] = "close" => s \in Ended
    BY <1>4, <1>t, <2>1 DEF PutIssue, SetIssueAt, Close, Fails, Goto, Ended, InFlight, TypeOK
  <2> QED
    BY <1>2, <2>1, <2>2
<1>5. ASSUME NEW t \in Requests, GetIssueAt(t) PROVE Flow(x)
  <2>1. CASE x = t
    <3>1. PICK i \in Row(req[t].repo, req[t].number) : req' = [req EXCEPT ![t].at = i.at]
      BY <1>5 DEF GetIssueAt
    <3>2. req[t] \in Call /\ pc[t] = "getAt"
      BY <1>5, <1>t, CallTyped DEF GetIssueAt, InFlight
    <3>3. req'[t].repo = req[t].repo /\ req'[t].number = req[t].number
      BY <1>t, <3>1, <3>2 DEF TypeOK, Call
    <3>4. pc'[t] = "putComment"
      BY <1>5, <1>t DEF GetIssueAt, Goto, TypeOK
    <3> QED
      BY <2>1, <3>1, <3>2, <3>3, <3>4 DEF Flow, Ended
  <2>2. CASE x # t
    BY <1>5, <1>t, <2>2, StillFlow DEF GetIssueAt, Goto, TypeOK
  <2> QED
    BY <2>1, <2>2
<1>6. ASSUME NEW t \in Requests, PutComment(t) PROVE Flow(x)
  <2>1. PICK s \in {"answered", "failed"} : pc' = [pc EXCEPT ![t] = s]
    BY <1>6 DEF PutComment
  <2>2. UNCHANGED req /\ pc[t] = "putComment"
    BY <1>6 DEF PutComment
  <2> DEFINE d == [uri |-> t, in |-> req[t].user, repo |-> req[t].repo, issue |-> req[t].at]
  <2>3. commentRecs' = commentRecs \cup {d} /\ d.uri = t
    BY <1>6 DEF PutComment
  <2> HIDE DEF d
  <2>4. \E r \in commentRecs' : r.uri = t
    BY <2>3
  <2> QED
    BY <1>2, <2>1, <2>2, <2>4 DEF Ended
<1>7. ASSUME NEW t \in Requests, PutState(t) PROVE Flow(x)
  <2>1. PICK s \in {"close", "failed"} : pc' = [pc EXCEPT ![t] = s]
    BY <1>7 DEF PutState
  <2>2. PICK i \in Row(req[t].repo, req[t].number) :
            stateRecs' = stateRecs \cup {[uri |-> t, in |-> i.owner, issue |-> None]}
    BY <1>7 DEF PutState
  <2>3. UNCHANGED req /\ pc[t] = "putState"
    BY <1>7 DEF PutState
  <2> DEFINE d == [uri |-> t, in |-> i.owner, issue |-> None]
  <2>5. d \in stateRecs' /\ d.uri = t /\ d.in = i.owner
    BY <2>2
  <2> HIDE DEF d
  <2>4. \E r \in stateRecs' : r.uri = t /\ r.in = i.owner
    BY <2>5
  <2> QED
    BY <1>2, <2>1, <2>2, <2>3, <2>4 DEF Ended
<1>8. CASE Crash
  BY <1>8, StillFlow DEF Crash, Flow, InFlight, Ended
<1>9. CASE UNCHANGED vars
  BY <1>9, StillFlow DEF vars
<1> QED
  BY <1>1, <1>3, <1>4, <1>5, <1>6, <1>7, <1>8, <1>9 DEF Next, Served

\* No handler takes a row or a record away.
LEMMA RowsStay ==
    ASSUME Typed, [Next]_vars, NEW i \in issues
    PROVE  \E j \in issues' : Same(i, j)
<1>1. CASE \E t \in Requests, u \in Users, repo \in Repos : NewIssue(t, u, repo)
  BY <1>1 DEF NewIssue, Same
<1>2. CASE InPlace
  BY <1>2 DEF InPlace
<1> QED
  BY <1>1, <1>2, RowSteps

LEMMA RecordsStay ==
    ASSUME [Next]_vars
    PROVE  commentRecs \subseteq commentRecs' /\ stateRecs \subseteq stateRecs'
<1>1. ASSUME NEW t \in Requests, Arrival(t)
      PROVE  commentRecs \subseteq commentRecs' /\ stateRecs \subseteq stateRecs'
  BY <1>1 DEF Arrival, NewIssue, IssueComment, CloseIssue, ReopenIssue, records
<1> QED
  BY <1>1 DEF Next, GetIssueId, PutIssue, SetIssueAt, GetIssueAt, PutComment, PutState, Close,
     Fails, Crash, Served, vars, records

\* Only IssueComment adds a comment, as the first step of its request.
LEMMA CommentSteps ==
    ASSUME Typed, [Next]_vars, NEW c \in comments' \ comments
    PROVE  /\ c.by \in Requests /\ pc'[c.by] = "getAt"
           /\ req'[c.by].repo = c.repo /\ req'[c.by].number = c.number
<1>1. PICK t \in Requests, u \in Users, repo \in Repos, n \in 1 .. MaxNumber :
          IssueComment(t, u, repo, n)
  <2>1. \/ \E t \in Requests, u \in Users, repo \in Repos, n \in 1 .. MaxNumber :
              IssueComment(t, u, repo, n)
        \/ UNCHANGED comments
    <3>1. ASSUME NEW t \in Requests, NEW u \in Users, NEW repo \in Repos,
                 \/ NewIssue(t, u, repo)
                 \/ \E n \in 1 .. MaxNumber : CloseIssue(t, u, repo, n) \/ ReopenIssue(t, u, repo, n)
          PROVE  UNCHANGED comments
      BY <3>1 DEF NewIssue, CloseIssue, ReopenIssue, tables
    <3>2. ASSUME NEW t \in Requests,
                 \/ GetIssueId(t) \/ PutIssue(t) \/ SetIssueAt(t) \/ GetIssueAt(t)
                 \/ PutComment(t) \/ PutState(t) \/ Close(t) \/ Fails(t)
          PROVE  UNCHANGED comments
      BY <3>2 DEF GetIssueId, PutIssue, SetIssueAt, GetIssueAt, PutComment, PutState, Close,
                  Fails, tables
    <3>3. CASE Crash \/ UNCHANGED vars
      BY <3>3 DEF Crash, vars, tables
    <3> QED
      BY <3>1, <3>2, <3>3 DEF Next, Arrival, Served
  <2> QED
    BY <2>1
<1>2. c.repo = repo /\ c.number = n /\ c.by = t
  BY <1>1 DEF IssueComment
<1>3. /\ pc'[t] = "getAt"
      /\ req'[t] = [op |-> "IssueComment", user |-> u, repo |-> repo, number |-> n, at |-> None]
  BY <1>1 DEF IssueComment, Goto, Begin, Typed, TypeOK
<1> QED
  BY <1>2, <1>3

\* What a comment's request has done by its next call, or had when it ended.
Commented ==
    \A c \in comments :
        /\ pc[c.by] \in {"getAt", "putComment"} \cup Ended
        /\ pc[c.by] \in {"getAt", "putComment"} =>
              req[c.by].repo = c.repo /\ req[c.by].number = c.number
        /\ pc[c.by] \in {"putComment", "answered"} => Row(c.repo, c.number) # {}
        /\ pc[c.by] = "answered" => \E r \in commentRecs : r.uri = c.by

LEMMA CommentedInduction == Typed /\ Commented /\ [Next]_vars => Commented'
<1> SUFFICES ASSUME Typed, Commented, [Next]_vars, NEW c \in comments'
             PROVE  /\ pc'[c.by] \in {"getAt", "putComment"} \cup Ended
                    /\ pc'[c.by] \in {"getAt", "putComment"} =>
                          req'[c.by].repo = c.repo /\ req'[c.by].number = c.number
                    /\ pc'[c.by] \in {"putComment", "answered"} =>
                          \E j \in issues' : j.repo = c.repo /\ j.number = c.number
                    /\ pc'[c.by] = "answered" => \E r \in commentRecs' : r.uri = c.by
  BY DEF Commented, Row
<1>1. CASE c \notin comments
  BY <1>1, CommentSteps DEF Ended
<1>2. CASE c \in comments
  <2>1. c.by \in Requests
    BY <1>2 DEF Typed, TypeOK, Comment
  <2>2. Flow(c.by) /\ commentRecs \subseteq commentRecs'
    BY <2>1, FlowSteps, RecordsStay
  <2>3. Row(c.repo, c.number) # {} => \E j \in issues' : j.repo = c.repo /\ j.number = c.number
    BY RowsStay DEF Row, Same
  <2> QED
    BY <1>2, <2>2, <2>3 DEF Commented, Flow, Ended
<1> QED
  BY <1>1, <1>2

\* A comment that was answered stands under an issue that exists and has its
\* record, whatever fails; the rows that come without an issue, or lose their
\* record, are those of requests that were told so.
THEOREM AnsweredComments == Spec => []AnsweredIsWhole
<1>1. Init => Commented
  BY DEF Init, Commented
<1>2. Commented => AnsweredIsWhole
  BY DEF Commented, AnsweredIsWhole
<1> QED
  BY <1>1, <1>2, InitTyped, TypeInduction, CommentedInduction, PTL DEF Spec

\* Somebody closed issue n of repo on u's PDS.
Recorded(u, repo, n) ==
    \E r \in stateRecs : r.in = u /\ req[r.uri].repo = repo /\ req[r.uri].number = n

Closings ==
    /\ \A r \in stateRecs : pc[r.uri] \in {"close"} \cup Ended
    /\ \A t \in Requests : pc[t] = "close" =>
          \E i \in Row(req[t].repo, req[t].number) : Recorded(i.owner, i.repo, i.number)
    /\ \A i \in issues : ~i.open => Recorded(i.owner, i.repo, i.number)

\* A record of a state is put by a handler that goes on to close, or fails.
LEMMA StateSteps ==
    ASSUME Typed, [Next]_vars, NEW r \in stateRecs' \ stateRecs
    PROVE  r.uri \in Requests /\ pc'[r.uri] \in {"close"} \cup Ended
<1>1. PICK t \in Requests : PutState(t)
  <2>1. ASSUME NEW t \in Requests, Arrival(t) PROVE stateRecs' = stateRecs
    BY <2>1 DEF Arrival, NewIssue, IssueComment, CloseIssue, ReopenIssue, records
  <2> QED
    BY <2>1 DEF Next, GetIssueId, PutIssue, SetIssueAt, GetIssueAt, PutComment, Close, Fails,
       Crash, Served, vars, records
<1>2. r.uri = t /\ pc'[t] \in {"close", "failed"}
  BY <1>1 DEF PutState, Typed, TypeOK
<1> QED
  BY <1>2 DEF Ended

\* A row that shows as closed did so before, or is being closed.
LEMMA ClosingSteps ==
    ASSUME Typed, [Next]_vars, NEW j \in issues', ~j.open
    PROVE  \E i \in issues :
              /\ Same(i, j)
              /\ ~i.open \/ \E t \in Requests :
                                pc[t] = "close" /\ i \in Row(req[t].repo, req[t].number)
<1>t. \A i \in issues : Same(i, i)
  BY DEF Same
<1>1. ASSUME NEW t \in Requests, NEW u \in Users, NEW repo \in Repos, NewIssue(t, u, repo)
      PROVE  j \in issues
  BY <1>1 DEF NewIssue
<1>2. ASSUME NEW t \in Requests, SetIssueAt(t)
      PROVE  \E i \in issues : Same(i, j) /\ ~i.open
  <2>1. \A i \in issues : /\ Same(i, [i EXCEPT !.at = t])
                          /\ [i EXCEPT !.at = t].open = i.open
    BY DEF Typed, TypeOK, Issue, Same
  <2> QED
    BY <1>t, <1>2, <2>1 DEF SetIssueAt
<1>3. ASSUME NEW t \in Requests, Close(t)
      PROVE  \E i \in issues : Same(i, j) /\ (~i.open \/ i \in Row(req[t].repo, req[t].number))
  <2>1. \A i \in issues : Same(i, [i EXCEPT !.open = FALSE])
    BY DEF Typed, TypeOK, Issue, Same
  <2> QED
    BY <1>t, <1>3, <2>1 DEF Close
<1>4. ASSUME NEW t \in Requests, NEW u \in Users, NEW repo \in Repos, NEW n,
             ReopenIssue(t, u, repo, n)
      PROVE  j \in issues
  <2>1. \A i \in issues : [i EXCEPT !.open = TRUE].open
    BY DEF Typed, TypeOK, Issue
  <2> QED
    BY <1>4, <2>1 DEF ReopenIssue
<1>5. ASSUME issues' = issues PROVE j \in issues
  BY <1>5
<1>6. ASSUME NEW t \in Requests, NEW u, NEW repo, NEW n,
             IssueComment(t, u, repo, n) \/ CloseIssue(t, u, repo, n)
      PROVE  issues' = issues
  BY <1>6 DEF IssueComment, CloseIssue, tables
<1>7. ASSUME NEW t \in Requests, \/ GetIssueId(t) \/ PutIssue(t) \/ GetIssueAt(t)
                                 \/ PutComment(t) \/ PutState(t) \/ Fails(t)
      PROVE  issues' = issues
  BY <1>7 DEF GetIssueId, PutIssue, GetIssueAt, PutComment, PutState, Fails, tables
<1>8. CASE Crash \/ UNCHANGED vars
  BY <1>8, <1>t DEF Crash, vars, tables
<1>9. ASSUME NEW t \in Requests, Close(t) PROVE pc[t] = "close"
  BY <1>9 DEF Close
<1> QED
  BY <1>t, <1>1, <1>2, <1>3, <1>4, <1>5, <1>6, <1>7, <1>8, <1>9 DEF Next, Arrival, Served

LEMMA ClosingsInduction == Typed /\ Numbered /\ Closings /\ [Next]_vars => Closings'
<1> SUFFICES ASSUME Typed, Numbered, Closings, [Next]_vars PROVE Closings'
  OBVIOUS
<1>1. \A r \in stateRecs : r.uri \in Requests /\ Flow(r.uri)
  BY FlowSteps DEF Typed, TypeOK, StateRecord
<1>2. \A r \in stateRecs : /\ pc'[r.uri] \in {"close"} \cup Ended
                           /\ req'[r.uri] = req[r.uri]
  BY <1>1 DEF Closings, Flow, Ended
<1>3. ASSUME NEW u, NEW repo, NEW n, Recorded(u, repo, n)
      PROVE  \E r \in stateRecs' : r.in = u /\ req'[r.uri].repo = repo /\ req'[r.uri].number = n
  BY <1>2, <1>3, RecordsStay DEF Recorded
<1>4. \A r \in stateRecs' : pc'[r.uri] \in {"close"} \cup Ended
  BY <1>2, StateSteps
<1>5. ASSUME NEW t \in Requests, pc'[t] = "close"
      PROVE  \E j \in issues' :
                /\ j.repo = req'[t].repo /\ j.number = req'[t].number
                /\ \E r \in stateRecs' :
                      r.in = j.owner /\ req'[r.uri].repo = j.repo /\ req'[r.uri].number = j.number
  <2>1. Flow(t)
    BY FlowSteps
  <2>2. req'[t] = req[t] /\ pc[t] \in {"close", "putState"}
    BY <1>5, <2>1 DEF Flow
  <2>3. PICK i \in Row(req[t].repo, req[t].number) :
            \E r \in stateRecs' :
                r.in = i.owner /\ req'[r.uri].repo = i.repo /\ req'[r.uri].number = i.number
    <3>1. CASE pc[t] = "close"
      BY <1>3, <3>1 DEF Closings
    <3>2. CASE pc[t] # "close"
      BY <1>5, <2>1, <2>2, <3>2 DEF Flow, Row
    <3> QED
      BY <3>1, <3>2
  <2>4. PICK j \in issues' : Same(i, j)
    BY RowsStay DEF Row
  <2> QED
    BY <2>2, <2>3, <2>4 DEF Row, Same
<1>6. ASSUME NEW j \in issues', ~j.open
      PROVE  \E r \in stateRecs' :
                r.in = j.owner /\ req'[r.uri].repo = j.repo /\ req'[r.uri].number = j.number
  <2>1. PICK i \in issues :
            /\ Same(i, j)
            /\ ~i.open \/ \E t \in Requests :
                              pc[t] = "close" /\ i \in Row(req[t].repo, req[t].number)
    BY <1>6, ClosingSteps
  <2>2. Recorded(i.owner, i.repo, i.number)
    BY <2>1 DEF Closings, Row, Numbered
  <2> QED
    BY <1>3, <2>1, <2>2 DEF Same
<1>7. \A t \in Requests : pc'[t] = "close" =>
          \E j \in issues' :
              /\ j.repo = req'[t].repo /\ j.number = req'[t].number
              /\ \E r \in stateRecs' :
                    r.in = j.owner /\ req'[r.uri].repo = j.repo /\ req'[r.uri].number = j.number
  BY <1>5
<1>8. \A j \in issues' : ~j.open =>
          \E r \in stateRecs' :
              r.in = j.owner /\ req'[r.uri].repo = j.repo /\ req'[r.uri].number = j.number
  BY <1>6
<1> QED
  BY <1>4, <1>7, <1>8 DEF Closings, Recorded, Row

\* No issue shows as closed without a record of it on its owner's PDS, whatever
\* fails between the put and the update and whoever reopens it meanwhile.
THEOREM ClosedByOwners == Spec => []ClosedIsRecorded
<1>1. Init => Numbered /\ Closings
  BY DEF Init, Numbered, Numbers, Closings
<1>2. Closings => ClosedIsRecorded
  BY DEF Closings, Recorded, ClosedIsRecorded
<1> QED
  BY <1>1, <1>2, InitTyped, TypeInduction, NumberedInduction, ClosingsInduction, PTL DEF Spec
=============================================================================
