------------------------------ MODULE Records ------------------------------
(***************************************************************************)
(* What users keep on their PDS and the appview keeps a copy of: follows,  *)
(* stars, public keys and the descriptions of repositories (state/         *)
(* follow.go, star.go, settings.go, repo.go), with the firehose that       *)
(* brings follows a second time (state/jetstream.go).                      *)
(*                                                                         *)
(* A step is one call to the PDS or one statement.  Any call may fail,     *)
(* which ends the handler; a call to the PDS that fails may have done its  *)
(* work.  A request is its place among all requests, and stands for the    *)
(* TID it draws as record key and for the description it brings.           *)
(***************************************************************************)
EXTENDS Naturals, Sequences, FiniteSets

CONSTANTS
    Users,          \* the users who make requests
    Dids,           \* everybody who can be followed
    Repos,          \* the listed repositories
    Owner,          \* whose PDS has the record of each
    Keys,
    Requests,       \* the requests of a behaviour, each served once
    Foreign,        \* record keys that other clients draw
    MaxActs,        \* bound: requests and records of other clients together
    MaxFailures,    \* bound: statements and saves of the ingester that fail, and
                    \* cursors that are given up
    None

ASSUME UserAssumption == Users \subseteq Dids
ASSUME OwnerAssumption == Owner \in [Repos -> Users]
ASSUME BoundAssumption == Requests \subseteq Nat /\ MaxActs \in Nat /\ MaxFailures \in Nat
ASSUME KeyAssumption == Requests \cap Foreign = {} /\ None \notin Requests \cup Foreign

VARIABLES
    rows,        \* tables follows, stars and public_keys
    records,     \* sh.tangled.graph.follow, .feed.star and .publicKey records
    described,   \* repos.description
    repoRecs,    \* the description in the record of each repository
    firehose,    \* the events of follows from the saved cursor on
    pos,         \* how many of them the connection has behind it
    failures,
    pc, req,     \* each request's next call, and what it is about
    disturbed,   \* history: requests whose target another client or a later
                 \* or overlapping request was about
    excused,     \* history: record keys whose row may be there without a record
    dropped,     \* history: record keys whose event could not be stored, or was
                 \* left out when the cursor was given up
    unfollowed,  \* history: whom users asked to unfollow
    drawn        \* history: the record keys that other clients drew

tables == <<rows, described>>
pds == <<records, repoRecs, firehose>>
cursor == <<pos, failures>>
history == <<disturbed, excused, dropped, unfollowed, drawn>>
vars == <<tables, pds, cursor, pc, req, history>>

Rkeys == Requests \cup Foreign
Tables == {"follow", "star", "key"}
Subject(table) == CASE table = "follow" -> Dids [] table = "star" -> Repos [] OTHER -> Keys

\* public_keys has no column for the record key, which is None there
Row == [table : Tables, user : Users, subject : Dids \cup Repos \cup Keys,
        rkey : Rkeys \cup {None}]
Record == [table : Tables, user : Users, subject : Dids \cup Repos \cup Keys, rkey : Rkeys]
Event == [op : {"create", "delete"}, user : Users, subject : Dids, rkey : Rkeys]
Call == [op : {"put", "delete", "describe"}, table : Tables \cup {"repo"}, user : Users,
         subject : Dids \cup Repos \cup Keys, found : Rkeys \cup {None}]

ASSUME NoneAssumption == None \notin Call

InFlight == {"put", "insert", "remove", "delete", "putKey", "getRecord", "swap"}
Ended == {"answered", "failed"}

TypeOK ==
    /\ rows \subseteq Row
    /\ records \subseteq Record
    /\ described \in [Repos -> Requests \cup {None}]
    /\ repoRecs \in [Repos -> Requests \cup {None}]
    /\ firehose \in Seq(Event)
    /\ pos \in 0 .. Len(firehose)
    /\ failures \in 0 .. MaxFailures
    /\ pc \in [Requests -> {"new"} \cup InFlight \cup Ended]
    /\ req \in [Requests -> Call \cup {None}]
    /\ \A t \in Requests : req[t] = None <=> pc[t] \in {"new", "failed"}
    /\ \A t \in Requests : pc[t] \in {"remove", "delete"} => req[t].found # None
    /\ disturbed \subseteq Requests
    /\ excused \cup dropped \subseteq Rkeys
    /\ unfollowed \subseteq Users \X Dids
    /\ drawn \subseteq Foreign

Init ==
    /\ rows = {}
    /\ records = {}
    /\ described = [r \in Repos |-> None]
    /\ repoRecs = [r \in Repos |-> None]
    /\ firehose = <<>>
    /\ pos = 0
    /\ failures = 0
    /\ pc = [t \in Requests |-> "new"]
    /\ req = [t \in Requests |-> None]
    /\ disturbed = {}
    /\ excused = {}
    /\ dropped = {}
    /\ unfollowed = {}
    /\ drawn = {}

\* the rows of a user and a subject: one at most, which the keys of the tables see to
Rows(table, u, s) == {r \in rows : r.table = table /\ r.user = u /\ r.subject = s}
Records(table, u, s) == {r \in records : r.table = table /\ r.user = u /\ r.subject = s}
HasRecord(rkey) == \E r \in records : r.rkey = rkey

Goto(t, step) == pc' = [pc EXCEPT ![t] = step]

Fail(t) == pc' = [pc EXCEPT ![t] = "failed"] /\ req' = [req EXCEPT ![t] = None]

About(t, table, u, s) ==
    req[t] # None /\ req[t].table = table /\ req[t].user = u /\ req[t].subject = s

Acts == Cardinality({t \in Requests : pc[t] # "new"}) + Cardinality(drawn)

\* a request begins: it disturbs those of the same target, and is disturbed by
\* those that have not ended
Begin(t, op, table, u, s, found) ==
    /\ pc[t] = "new"
    /\ \A o \in Requests : o < t => pc[o] # "new"
    /\ Acts < MaxActs
    /\ req' = [req EXCEPT ![t] = [op |-> op, table |-> table, user |-> u, subject |-> s,
                                  found |-> found]]
    /\ LET others == {o \in Requests : About(o, table, u, s)}
       IN  disturbed' = disturbed \cup others
               \cup (IF \E o \in others : pc[o] \in InFlight THEN {t} ELSE {})

Fails(t) ==
    /\ pc[t] \in {"put", "insert", "remove", "putKey", "getRecord", "swap"}
    /\ Fail(t)
    /\ UNCHANGED <<tables, pds, cursor, history>>

\* what a put or a delete of a follow sends to everybody
Sent(op, table, u, s, rkey) ==
    firehose' = IF table = "follow"
                THEN Append(firehose, [op |-> op, user |-> u, subject |-> s, rkey |-> rkey])
                ELSE firehose

\* insert or ignore: a row that is there stays as it is, and nobody's row is his own follower's
Insert(table, u, s, rkey) ==
    IF Rows(table, u, s) # {} \/ (table = "follow" /\ u = s) THEN UNCHANGED rows
    ELSE rows' = rows \cup {[table |-> table, user |-> u, subject |-> s, rkey |-> rkey]}

-----------------------------------------------------------------------------
(* Follow and Star.                                                         *)

\* POST: the record first, under a new key
Post(t, table, u, s) ==
    /\ s \in Subject(table) \ (IF table = "follow" THEN {u} ELSE {})
    /\ Begin(t, "put", table, u, s, None)
    /\ Goto(t, "put")
    /\ UNCHANGED <<tables, pds, cursor, excused, dropped, unfollowed, drawn>>

Follow(t, u, s) == Post(t, "follow", u, s)

Star(t, u, s) == Post(t, "star", u, s)

\* the answer may be lost
PutRecord(t) ==
    LET c == req[t]
    IN  /\ pc[t] = "put"
        /\ records' = records \cup {[table |-> c.table, user |-> c.user, subject |-> c.subject,
                                     rkey |-> t]}
        /\ Sent("create", c.table, c.user, c.subject, t)
        /\ \/ Goto(t, "insert") /\ UNCHANGED req
           \/ Fail(t)
        /\ UNCHANGED <<tables, repoRecs, cursor, history>>

\* then the row, which is a ghost's when the record is gone by now
AddRow(t) ==
    /\ pc[t] = "insert"
    /\ Insert(req[t].table, req[t].user, req[t].subject, t)
    /\ excused' = IF HasRecord(t) THEN excused ELSE excused \cup {t}
    /\ Goto(t, "answered")
    /\ UNCHANGED <<described, pds, cursor, req, disturbed, dropped, unfollowed, drawn>>

\* mutant: the error of a missing row is ignored
FindRow_Unchecked(t, table, u, s) ==
    /\ Begin(t, "delete", table, u, s,
             IF Rows(table, u, s) = {} THEN None ELSE (CHOOSE r \in Rows(table, u, s) : TRUE).rkey)
    /\ unfollowed' = IF table = "follow" THEN unfollowed \cup {<<u, s>>} ELSE unfollowed
    /\ Goto(t, "remove")
    /\ UNCHANGED <<tables, pds, cursor, excused, dropped, drawn>>

\* DELETE: the row tells the key of the record
FindRow(t, table, u, s) ==
    \E r \in Rows(table, u, s) :
        /\ Begin(t, "delete", table, u, s, r.rkey)
        /\ unfollowed' = IF table = "follow" THEN unfollowed \cup {<<u, s>>} ELSE unfollowed
        /\ Goto(t, "remove")
        /\ UNCHANGED <<tables, pds, cursor, excused, dropped, drawn>>

Unfollow(t, u, s) == FindRow(t, "follow", u, s)

Unstar(t, u, s) == FindRow(t, "star", u, s)

\* deleting a record that is gone is no error
DeleteRecord(t) ==
    LET key == req[t].found
    IN  /\ pc[t] = "remove"
        /\ records' = {r \in records : r.rkey # key}
        /\ IF HasRecord(key) THEN Sent("delete", req[t].table, req[t].user, req[t].subject, key)
           ELSE UNCHANGED firehose
        /\ \/ Goto(t, "delete") /\ UNCHANGED <<req, excused>>
           \/ Fail(t) /\ excused' = excused \cup {key}
        /\ UNCHANGED <<tables, repoRecs, cursor, disturbed, dropped, unfollowed, drawn>>

\* mutant: the row is left to the firehose
DeleteRow_Left(t) ==
    /\ pc[t] = "delete"
    /\ Goto(t, "answered")
    /\ UNCHANGED <<tables, pds, cursor, req, history>>

\* the user is told the same when the statement fails
DeleteRow(t) ==
    /\ pc[t] = "delete"
    /\ \/ rows' = rows \ Rows(req[t].table, req[t].user, req[t].subject) /\ UNCHANGED excused
       \/ excused' = excused \cup {req[t].found} /\ UNCHANGED rows
    /\ Goto(t, "answered")
    /\ UNCHANGED <<described, pds, cursor, req, disturbed, dropped, unfollowed, drawn>>

-----------------------------------------------------------------------------
(* SettingsKeys: the row first, then the record.                            *)

SettingsKeys(t, u, k) ==
    /\ Begin(t, "put", "key", u, k, None)
    /\ Insert("key", u, k, None)
    /\ Goto(t, "putKey")
    /\ UNCHANGED <<described, pds, cursor, excused, dropped, unfollowed, drawn>>

PutKey(t) ==
    /\ pc[t] = "putKey"
    /\ records' = records \cup {[table |-> "key", user |-> req[t].user,
                                 subject |-> req[t].subject, rkey |-> t]}
    /\ \/ Goto(t, "answered") /\ UNCHANGED req
       \/ Fail(t)
    /\ UNCHANGED <<tables, repoRecs, firehose, cursor, history>>

-----------------------------------------------------------------------------
(* RepoDescription: "optimistic update" of the row, then get and put of the *)
(* record with SwapRecord, which the PDS refuses when the record is another *)
(* one by then.                                                             *)

UpdateDescription(t, u, repo) ==
    /\ u = Owner[repo]
    /\ Begin(t, "describe", "repo", u, repo, None)
    /\ described' = [described EXCEPT ![repo] = t]
    /\ Goto(t, "getRecord")
    /\ UNCHANGED <<rows, pds, cursor, excused, dropped, unfollowed, drawn>>

GetRecord(t) ==
    /\ pc[t] = "getRecord"
    /\ req' = [req EXCEPT ![t].found = repoRecs[req[t].subject]]
    /\ Goto(t, "swap")
    /\ UNCHANGED <<tables, pds, cursor, history>>

\* mutant: a put that fails is only logged
SwapRecord_Ignored(t) ==
    /\ pc[t] = "swap"
    /\ \/ repoRecs[req[t].subject] = req[t].found
          /\ repoRecs' = [repoRecs EXCEPT ![req[t].subject] = t]
       \/ UNCHANGED repoRecs
    /\ Goto(t, "answered")
    /\ UNCHANGED <<tables, records, firehose, cursor, req, history>>

SwapRecord(t) ==
    /\ pc[t] = "swap"
    /\ repoRecs[req[t].subject] = req[t].found
    /\ repoRecs' = [repoRecs EXCEPT ![req[t].subject] = t]
    /\ \/ Goto(t, "answered") /\ UNCHANGED req
       \/ Fail(t)
    /\ UNCHANGED <<tables, records, firehose, cursor, history>>

-----------------------------------------------------------------------------
(* Other clients, and the firehose.                                         *)

ElsewhereFollow(u, s, key) ==
    /\ Acts < MaxActs /\ key \notin drawn
    /\ drawn' = drawn \cup {key}
    /\ records' = records \cup {[table |-> "follow", user |-> u, subject |-> s, rkey |-> key]}
    /\ Sent("create", "follow", u, s, key)
    /\ disturbed' = disturbed \cup {o \in Requests : About(o, "follow", u, s)}
    /\ UNCHANGED <<tables, repoRecs, cursor, pc, req, excused, dropped, unfollowed>>

ElsewhereDelete(r) ==
    /\ records' = records \ {r}
    /\ Sent("delete", r.table, r.user, r.subject, r.rkey)
    /\ disturbed' = disturbed \cup {o \in Requests : About(o, r.table, r.user, r.subject)}
    /\ excused' = excused \cup {r.rkey}
    /\ UNCHANGED <<tables, repoRecs, cursor, pc, req, dropped, unfollowed, drawn>>

\* Whatever the operation, the record is read: a deletion has none, and is an
\* error; a creation is stored, also when the record has been deleted since.
Ingest(e, stored) ==
    \/ /\ e.op = "delete"
       /\ UNCHANGED <<rows, excused, dropped>>
    \/ /\ e.op = "create" /\ stored
       /\ Insert("follow", e.user, e.subject, e.rkey)
       /\ excused' = IF HasRecord(e.rkey) THEN excused ELSE excused \cup {e.rkey}
       /\ UNCHANGED dropped
    \/ /\ e.op = "create" /\ ~stored
       /\ dropped' = dropped \cup {e.rkey}
       /\ UNCHANGED <<rows, excused>>

\* the cursor moves on whether the event was stored or not, and is saved or not
Deliver ==
    /\ pos < Len(firehose)
    /\ \E stored, kept \in BOOLEAN :
          /\ Ingest(firehose[pos + 1], stored)
          /\ IF kept THEN firehose' = SubSeq(firehose, pos + 2, Len(firehose)) /\ pos' = 0
                     ELSE pos' = pos + 1 /\ UNCHANGED firehose
          /\ failures' = failures + (IF stored THEN 0 ELSE 1) + (IF kept THEN 0 ELSE 1)
    /\ failures' <= MaxFailures
    /\ UNCHANGED <<described, records, repoRecs, pc, req, disturbed, unfollowed, drawn>>

\* mutant: the new connection is given no cursor
Reconnect_Now ==
    /\ pos > 0
    /\ pos' = 0
    /\ firehose' = <<>>
    /\ UNCHANGED <<tables, records, repoRecs, failures, pc, req, history>>

FromCursor ==
    /\ pos > 0
    /\ pos' = 0
    /\ UNCHANGED <<firehose, failures, dropped>>

\* A cursor that cannot be read, or is more than two days old, is now, which is
\* saved or not: what is left out comes again only if the next event is not
\* saved either.
FromNow ==
    LET left == {i \in pos + 1 .. Len(firehose) : firehose[i].op = "create"}
    IN  /\ left # {}
        /\ dropped' = dropped \cup {firehose[i].rkey : i \in left}
        /\ \/ firehose' = <<>> /\ pos' = 0
           \/ UNCHANGED firehose /\ pos' = Len(firehose)
        /\ failures < MaxFailures /\ failures' = failures + 1

\* the client connects again, or the process comes back
Reconnect ==
    /\ FromCursor \/ FromNow
    /\ UNCHANGED <<tables, records, repoRecs, pc, req, disturbed, excused, unfollowed, drawn>>

\* the process dies with what it is doing
Crash ==
    LET dying == {t \in Requests : pc[t] \in InFlight}
    IN  /\ dying # {}
        /\ pc' = [t \in Requests |-> IF t \in dying THEN "failed" ELSE pc[t]]
        /\ req' = [t \in Requests |-> IF t \in dying THEN None ELSE req[t]]
        /\ pos' = 0
        /\ excused' = excused \cup {req[t].found : t \in {u \in dying : pc[u] = "delete"}}
        /\ UNCHANGED <<tables, pds, failures, disturbed, dropped, unfollowed, drawn>>

-----------------------------------------------------------------------------
Arrival(t) ==
    \E u \in Users :
        \/ \E s \in Dids : Follow(t, u, s) \/ Unfollow(t, u, s)
        \/ \E r \in Repos : Star(t, u, r) \/ Unstar(t, u, r) \/ UpdateDescription(t, u, r)
        \/ \E k \in Keys : SettingsKeys(t, u, k)

Elsewhere ==
    \/ \E u \in Users, s \in Dids, key \in Foreign : ElsewhereFollow(u, s, key)
    \/ \E r \in records : r.table = "follow" /\ ElsewhereDelete(r)

Served ==
    /\ Acts = MaxActs /\ \A t \in Requests : pc[t] \notin InFlight
    /\ pos = Len(firehose)
    /\ UNCHANGED vars

Next ==
    \/ \E t \in Requests :
          \/ Arrival(t)
          \/ PutRecord(t)
          \/ AddRow(t)
          \/ DeleteRecord(t)
          \/ DeleteRow(t)
          \/ PutKey(t)
          \/ GetRecord(t)
          \/ SwapRecord(t)
          \/ Fails(t)
    \/ Elsewhere
    \/ Deliver
    \/ Reconnect
    \/ Crash
    \/ Served

Spec == Init /\ [][Next]_vars

-----------------------------------------------------------------------------
(* Properties.                                                              *)

\* A follow or star that the appview shows has its record on the user's PDS
\* (follow.go:77, star.go:82: the record goes first, the row after it), but for
\* those that a failure, a crash, another client or a late event left behind,
\* and those whose handler is about to delete the row.
NoGhost ==
    \A r \in rows :
        r.table # "key" /\ ~HasRecord(r.rkey) =>
            \/ r.rkey \in excused
            \/ \E t \in Requests : pc[t] = "delete" /\ req[t].found = r.rkey

\* what an answer told the user
Stands(t) ==
    LET c == req[t] IN
    CASE c.op = "put" -> /\ Rows(c.table, c.user, c.subject) # {}
                         /\ HasRecord(t)
      [] c.op = "delete" -> /\ ~HasRecord(c.found)
                            /\ \A r \in Rows(c.table, c.user, c.subject) :
                                  r.rkey \in excused \/ (c.table = "follow" /\ r.rkey # c.found)
      [] OTHER -> described[c.subject] = t /\ repoRecs[c.subject] = t

\* An answered request stays true, in the table and on the PDS, until another
\* request or another client is about the same thing: a follow, star or key is in
\* both, a description is the same in both, and what was deleted is in neither,
\* unless the row is excused or, for a follow, the firehose brought the row of
\* another record of the same pair.
AnswerStands ==
    \A t \in Requests : pc[t] = "answered" /\ t \notin disturbed => Stands(t)

\* A follow made anywhere is in the table or on its way there, however its handler
\* ended, and across crashes and failures to save the cursor (jetstream.go:20, :43):
\* unless the user unfollowed the same person, the ingester's own insert failed, or
\* the cursor was given up while its event was due.
FollowsArrive ==
    \A r \in records :
        r.table = "follow" /\ r.user # r.subject =>
            \/ Rows("follow", r.user, r.subject) # {}
            \/ \E i \in pos + 1 .. Len(firehose) :
                    firehose[i].op = "create" /\ firehose[i].rkey = r.rkey
            \/ <<r.user, r.subject>> \in unfollowed
            \/ r.rkey \in dropped
=============================================================================
