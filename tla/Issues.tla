------------------------------- MODULE Issues -------------------------------
(***************************************************************************)
(* Issues and comments of the appview (state/repo.go, db/issues.go): the   *)
(* tables, the records the handlers write to their users' PDS, and the     *)
(* calls in which they do so, one statement or call at a time.             *)
(*                                                                         *)
(* A request stands for what it brought (title and body) and for the URI   *)
(* of the record it puts, since each puts one at most, under a fresh TID.  *)
(* Any call may fail, which ends the handler with a notice; a put that     *)
(* fails may have written.                                                 *)
(***************************************************************************)
EXTENDS Naturals

CONSTANTS
    Users,
    Repos,
    RepoOwner,       \* who owns each repository
    Collaborators,   \* <<repository, user>>: what the enforcer grants
    CommentIds,      \* the numbers rand.IntN may draw
    Requests,        \* the requests of a behaviour, each served once
    MaxNumber,       \* bound: the issue numbers of URLs
    None

Numbers == Nat \ {0}

ASSUME OwnerAssumption == RepoOwner \in [Repos -> Users]
ASSUME BoundAssumption == MaxNumber \in Nat

VARIABLES
    nextId,        \* table repo_issue_seqs; 1 before a repository has a row
    issues,        \* table issues
    comments,      \* table comments
    issueRecs,     \* sh.tangled.repo.issue records on the PDS of their users
    commentRecs,   \* sh.tangled.repo.issue.comment records
    stateRecs,     \* sh.tangled.repo.issue.state records
    pc, req,       \* each request's next call, and what it is about
    overlapped     \* history: the NewIssues in whose repository another issue
                   \* was inserted before they read their number back

tables == <<nextId, issues, comments>>
records == <<issueRecs, commentRecs, stateRecs>>
vars == <<tables, records, pc, req, overlapped>>

Issue == [repo : Repos, number : Numbers, owner : Users, by : Requests,
          at : Requests \cup {None}, open : BOOLEAN]
Comment == [repo : Repos, number : Numbers, id : CommentIds, by : Requests]
IssueRecord == [uri : Requests, in : Users, repo : Repos, number : Numbers]
CommentRecord == [uri : Requests, in : Users, repo : Repos, issue : Requests]
StateRecord == [uri : Requests, in : Users, issue : Requests \cup {None}]

\* what a handler knows: number is None until NewIssue has read it, at until
\* IssueComment has
Call == [op : {"NewIssue", "IssueComment", "CloseIssue", "ReopenIssue"}, user : Users,
         repo : Repos, number : Numbers \cup {None}, at : Requests \cup {None}]

ASSUME NoneAssumption == None \notin Requests \cup Numbers \cup Call

InFlight == {"number", "putIssue", "setAt", "getAt", "putComment", "putState", "close"}
Ended == {"answered", "failed", "dead"}

TypeOK ==
    /\ nextId \in [Repos -> Numbers]
    /\ issues \subseteq Issue
    /\ comments \subseteq Comment
    /\ issueRecs \subseteq IssueRecord
    /\ commentRecs \subseteq CommentRecord
    /\ stateRecs \subseteq StateRecord
    /\ pc \in [Requests -> {"new"} \cup InFlight \cup Ended]
    /\ req \in [Requests -> Call \cup {None}]
    /\ \A t \in Requests : pc[t] \in InFlight \cup {"answered"} => req[t] # None
    /\ \A t \in Requests : pc[t] \in {"putIssue", "setAt"} => req[t].number # None
    /\ overlapped \subseteq Requests

Init ==
    /\ nextId = [r \in Repos |-> 1]
    /\ issues = {}
    /\ comments = {}
    /\ issueRecs = {}
    /\ commentRecs = {}
    /\ stateRecs = {}
    /\ pc = [t \in Requests |-> "new"]
    /\ req = [t \in Requests |-> None]
    /\ overlapped = {}

\* the row of a repository's issue, if it is there: repo_at and issue_id are unique
Row(repo, n) == {i \in issues : i.repo = repo /\ i.number = n}

Goto(t, step) == pc' = [pc EXCEPT ![t] = step]

Begin(t, op, u, repo, n) ==
    req' = [req EXCEPT ![t] = [op |-> op, user |-> u, repo |-> repo, number |-> n, at |-> None]]

\* a notice and a return
Fails(t) ==
    /\ pc[t] \in InFlight \cup {"new"}
    /\ Goto(t, "failed")
    /\ UNCHANGED <<tables, records, req, overlapped>>

-----------------------------------------------------------------------------
(* NewIssue.                                                                *)

\* mutant: the number is taken outside the insert's transaction
NewIssue_TwoStatements(t, u, repo) ==
    /\ pc[t] = "new"
    /\ Begin(t, "NewIssue", u, repo, None)
    /\ nextId' = [nextId EXCEPT ![repo] = @ + 1]
    /\ \/ issues' = issues \cup {[repo |-> repo, number |-> nextId[repo], owner |-> u,
                                  by |-> t, at |-> None, open |-> TRUE]}
          /\ Goto(t, "number")
       \/ UNCHANGED issues /\ Goto(t, "failed")
    /\ UNCHANGED <<comments, records, overlapped>>

\* db.NewIssue: the number and the row in one transaction
NewIssue(t, u, repo) ==
    /\ pc[t] = "new"
    /\ Begin(t, "NewIssue", u, repo, None)
    /\ nextId' = [nextId EXCEPT ![repo] = @ + 1]
    /\ issues' = issues \cup {[repo |-> repo, number |-> nextId[repo], owner |-> u,
                               by |-> t, at |-> None, open |-> TRUE]}
    /\ overlapped' = overlapped \cup
           {s \in Requests : pc[s] = "number" /\ req[s].repo = repo}
    /\ Goto(t, "number")
    /\ UNCHANGED <<comments, records>>

\* mutant: the number is never read back
GetIssueId_Unread(t) ==
    /\ pc[t] = "number"
    /\ Goto(t, "putIssue")
    /\ UNCHANGED <<tables, records, req, overlapped>>

\* not the number of the transaction: the repository's latest one
GetIssueId(t) ==
    /\ pc[t] = "number"
    /\ req' = [req EXCEPT ![t].number = nextId[req[t].repo] - 1]
    /\ Goto(t, "putIssue")
    /\ UNCHANGED <<tables, records, overlapped>>

\* mutant: a failed put is logged only
PutIssue_Unchecked(t) ==
    /\ pc[t] = "putIssue"
    /\ Goto(t, "setAt")
    /\ UNCHANGED <<tables, records, req, overlapped>>

PutIssue(t) ==
    /\ pc[t] = "putIssue"
    /\ issueRecs' = issueRecs \cup {[uri |-> t, in |-> req[t].user, repo |-> req[t].repo,
                                     number |-> req[t].number]}
    /\ pc' \in {[pc EXCEPT ![t] = "setAt"], [pc EXCEPT ![t] = "failed"]}
    /\ UNCHANGED <<tables, commentRecs, stateRecs, req, overlapped>>

\* mutant: the update leaves out repo_at
SetIssueAt_AnyRepo(t) ==
    /\ pc[t] = "setAt"
    /\ issues' = {IF i.number = req[t].number THEN [i EXCEPT !.at = t] ELSE i : i \in issues}
    /\ Goto(t, "answered")
    /\ UNCHANGED <<nextId, comments, records, req, overlapped>>

SetIssueAt(t) ==
    /\ pc[t] = "setAt"
    /\ issues' = {IF i \in Row(req[t].repo, req[t].number)
                  THEN [i EXCEPT !.at = t] ELSE i : i \in issues}
    /\ Goto(t, "answered")
    /\ UNCHANGED <<nextId, comments, records, req, overlapped>>

-----------------------------------------------------------------------------
(* IssueComment.  The issue's number is the URL's.                          *)

\* foreign_keys is on for one connection of the pool, so the row of a comment
\* may come without its issue's; the number of a comment is unique among those
\* of the same issue number, in whatever repository.
IssueComment(t, u, repo, n) ==
    /\ pc[t] = "new"
    /\ Begin(t, "IssueComment", u, repo, n)
    /\ \E id \in CommentIds :
          /\ ~\E c \in comments : c.number = n /\ c.id = id
          /\ comments' = comments \cup {[repo |-> repo, number |-> n, id |-> id, by |-> t]}
    /\ Goto(t, "getAt")
    /\ UNCHANGED <<nextId, issues, records, overlapped>>

\* mutant: a missing row is taken for an issue whose URI is empty
GetIssueAt_Ignored(t) ==
    /\ pc[t] = "getAt"
    /\ \/ \E i \in Row(req[t].repo, req[t].number) :
             i.at # None /\ req' = [req EXCEPT ![t].at = i.at]
       \/ Row(req[t].repo, req[t].number) = {} /\ UNCHANGED req
    /\ Goto(t, "putComment")
    /\ UNCHANGED <<tables, records, overlapped>>

\* no row is an error, and so is a null issue_at, which Scan cannot put in a string
GetIssueAt(t) ==
    /\ pc[t] = "getAt"
    /\ \E i \in Row(req[t].repo, req[t].number) :
          i.at # None /\ req' = [req EXCEPT ![t].at = i.at]
    /\ Goto(t, "putComment")
    /\ UNCHANGED <<tables, records, overlapped>>

PutComment(t) ==
    /\ pc[t] = "putComment"
    /\ commentRecs' = commentRecs \cup {[uri |-> t, in |-> req[t].user, repo |-> req[t].repo,
                                         issue |-> req[t].at]}
    /\ pc' \in {[pc EXCEPT ![t] = "answered"], [pc EXCEPT ![t] = "failed"]}
    /\ UNCHANGED <<tables, issueRecs, stateRecs, req, overlapped>>

-----------------------------------------------------------------------------
(* CloseIssue and ReopenIssue.                                              *)

CloseIssue(t, u, repo, n) ==
    /\ pc[t] = "new"
    /\ \E i \in Row(repo, n) : u = i.owner \/ <<repo, u>> \in Collaborators
    /\ Begin(t, "CloseIssue", u, repo, n)
    /\ Goto(t, "putState")
    /\ UNCHANGED <<tables, records, overlapped>>

\* mutant: a failed put is logged only
PutState_Ignored(t) ==
    /\ pc[t] = "putState"
    /\ Goto(t, "close")
    /\ UNCHANGED <<tables, records, req, overlapped>>

\* Into the repository of the issue's owner, which a PDS lets its owner write
\* only.  GetIssue does not read issue_at, so the record names no issue.
PutState(t) ==
    /\ pc[t] = "putState"
    /\ \E i \in Row(req[t].repo, req[t].number) :
          /\ req[t].user = i.owner
          /\ stateRecs' = stateRecs \cup {[uri |-> t, in |-> i.owner, issue |-> None]}
    /\ pc' \in {[pc EXCEPT ![t] = "close"], [pc EXCEPT ![t] = "failed"]}
    /\ UNCHANGED <<tables, issueRecs, commentRecs, req, overlapped>>

Close(t) ==
    /\ pc[t] = "close"
    /\ issues' = {IF i \in Row(req[t].repo, req[t].number)
                  THEN [i EXCEPT !.open = FALSE] ELSE i : i \in issues}
    /\ Goto(t, "answered")
    /\ UNCHANGED <<nextId, comments, records, req, overlapped>>

\* one update, for the repository's owner, and no record
ReopenIssue(t, u, repo, n) ==
    /\ pc[t] = "new"
    /\ u = RepoOwner[repo]
    /\ Begin(t, "ReopenIssue", u, repo, n)
    /\ issues' = {IF i \in Row(repo, n) THEN [i EXCEPT !.open = TRUE] ELSE i : i \in issues}
    /\ Goto(t, "answered")
    /\ UNCHANGED <<nextId, comments, records, overlapped>>

-----------------------------------------------------------------------------
\* the process dies with what it is doing
Crash ==
    /\ \E t \in Requests : pc[t] \in InFlight
    /\ pc' = [t \in Requests |-> IF pc[t] \in InFlight THEN "dead" ELSE pc[t]]
    /\ UNCHANGED <<tables, records, req, overlapped>>

Served ==
    /\ \A t \in Requests : pc[t] \in Ended
    /\ UNCHANGED vars

Arrival(t) ==
    \E u \in Users, repo \in Repos :
        \/ NewIssue(t, u, repo)
        \/ \E n \in 1 .. MaxNumber :
              \/ IssueComment(t, u, repo, n)
              \/ CloseIssue(t, u, repo, n)
              \/ ReopenIssue(t, u, repo, n)

Next ==
    \/ \E t \in Requests :
          \/ Arrival(t)
          \/ GetIssueId(t)
          \/ PutIssue(t)
          \/ SetIssueAt(t)
          \/ GetIssueAt(t)
          \/ PutComment(t)
          \/ PutState(t)
          \/ Close(t)
          \/ Fails(t)
    \/ Crash
    \/ Served

Spec == Init /\ [][Next]_vars

-----------------------------------------------------------------------------
(* Properties.                                                              *)

\* The issues of a repository are numbered from 1 without a gap and without a
\* number given twice, whatever fails or dies: the URL of an issue is its number.
IssueNumbers ==
    \A repo \in Repos :
        /\ {i.number : i \in {j \in issues : j.repo = repo}} = 1 .. nextId[repo] - 1
        /\ \A i, j \in issues : i.repo = repo /\ j.repo = repo /\ i.number = j.number => i = j

\* The record an issue's row points to is the one of the request that made the
\* issue, and the row points to one when that request has been answered.  The
\* exception is the NewIssue whose number another one took over before it was
\* read back: its record may stand at another issue, and its own have none.
IssueAtOwn ==
    \A i \in issues :
        /\ i.at \in {None, i.by} \cup overlapped
        /\ pc[i.by] = "answered" /\ i.by \notin overlapped => i.at # None

\* A reference never dangles: a row's issue_at is a record of this repository and
\* this number, and the issue of a comment's record is that of the comment's URL.
NoDanglingRecord ==
    /\ \A i \in issues : i.at # None =>
          \E r \in issueRecs : r.uri = i.at /\ r.repo = i.repo /\ r.number = i.number
    /\ \A c \in commentRecs :
          \E r \in issueRecs :
              r.uri = c.issue /\ r.repo = c.repo /\ r.number = req[c.uri].number

\* A comment without its issue, which the table may hold, is one that was not
\* answered; and a comment that was answered has its record, too.
AnsweredIsWhole ==
    \A c \in comments : pc[c.by] = "answered" =>
        /\ Row(c.repo, c.number) # {}
        /\ \E r \in commentRecs : r.uri = c.by

\* An issue that shows as closed was closed by its owner, on the owner's PDS first.
ClosedIsRecorded ==
    \A i \in issues : ~i.open =>
        \E r \in stateRecs :
            /\ r.in = i.owner
            /\ req[r.uri].repo = i.repo
            /\ req[r.uri].number = i.number
=============================================================================
