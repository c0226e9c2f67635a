---------------------------- MODULE RecordsProofs ----------------------------
(***************************************************************************)
(* Records, for every set of users, repositories and keys and any number   *)
(* of requests.                                                            *)
(*                                                                         *)
(* A record key stands for one record wherever it is met, in a table, on   *)
(* the PDS, on the firehose or with a handler (Agree): that is what ties a *)
(* row that is deleted to the record that was.  And a request that nothing *)
(* disturbs is alone with its subject (Alone), so that each of its calls   *)
(* finds what the one before left (Progress).                              *)
(***************************************************************************)
EXTENDS Records, SequenceTheorems, TLAPS

\* What is known of call c of request t when its next call is s.
Facts(t, c, s) ==
    /\ s \in {"put", "insert"} => c.op = "put" /\ c.table # "key"
    /\ s = "putKey" => c.op = "put" /\ c.table = "key"
    /\ s \in {"remove", "delete"} => c.op = "delete"
    /\ s \in {"getRecord", "swap"} => c.op = "describe"
    /\ c.op = "put" => c.table \in Tables
    /\ c.table = "follow" => c.subject \in Dids
    /\ c.op = "put" /\ c.table = "follow" => c.user # c.subject
    /\ c.op = "delete" => c.table \in {"follow", "star"} /\ c.found # None
    /\ c.op = "delete" /\ c.table = "follow" => <<c.user, c.subject>> \in unfollowed
    /\ c.op = "describe" => c.table = "repo" /\ c.subject \in Repos /\ c.user = Owner[c.subject]

AllFacts == \A t \in Requests : req[t] # None => Facts(t, req[t], pc[t])

\* The record that call c of request t is about, and the one of an event.
RecordOf(t, c) == [table |-> c.table, user |-> c.user, subject |-> c.subject,
                   rkey |-> IF c.op = "put" THEN t ELSE c.found]
FollowOf(e) == [table |-> "follow", user |-> e.user, subject |-> e.subject, rkey |-> e.rkey]

Holds(t) == req[t] # None /\ req[t].op # "describe"

\* Everything that has a record key.
Mentioned ==
    {r \in rows : r.rkey # None} \cup records
    \cup {FollowOf(firehose[i]) : i \in 1 .. Len(firehose)}
    \cup {RecordOf(t, req[t]) : t \in {o \in Requests : Holds(o)}}

\* A key stands for one record, and is drawn once.
Agree == \A m, n \in Mentioned : m.rkey = n.rkey => m = n
Drawn == \A m \in Mentioned :
            (m.rkey \in Requests /\ pc[m.rkey] # "new") \/ m.rkey \in drawn

\* The keys of the tables: one row of a user and a subject.
Unique == \A r, q \in rows : r.table = q.table /\ r.user = q.user /\ r.subject = q.subject => r = q

\* A row of public_keys has no record key, and somebody is followed.
Shapes ==
    /\ \A r \in rows : r.rkey = None <=> r.table = "key"
    /\ \A r \in records : r.table = "follow" => r.subject \in Dids

SameTarget(c, d) == c.table = d.table /\ c.user = d.user /\ c.subject = d.subject

\* A request disturbs the others of its subject for as long as it runs.
Alone ==
    \A t, o \in Requests :
        /\ t # o /\ pc[o] \in InFlight
        /\ req[t] # None /\ req[o] # None /\ SameTarget(req[t], req[o])
        => t \in disturbed

\* What a request that nothing disturbs has done so far.
Progress(t) ==
    LET c == req[t] IN
    /\ pc[t] = "insert" => HasRecord(t)
    /\ pc[t] = "putKey" => Rows("key", c.user, c.subject) # {}
    /\ pc[t] \in {"remove", "delete"} /\ c.table = "star" =>
          \A r \in Rows("star", c.user, c.subject) : r.rkey = c.found
    /\ pc[t] = "delete" => ~HasRecord(c.found)
    /\ pc[t] \in {"getRecord", "swap"} => described[c.subject] = t
    /\ pc[t] = "answered" => Stands(t)

Undisturbed == \A t \in Requests : req[t] # None /\ t \notin disturbed => Progress(t)

RInv ==
    /\ TypeOK /\ AllFacts
    /\ Agree /\ Drawn /\ Unique /\ Shapes
    /\ Alone /\ Undisturbed
    /\ NoGhost /\ FollowsArrive

-----------------------------------------------------------------------------
(* What the proofs of the steps share.                                      *)

\* What a step of request t leaves alone.
Others(t) == \A x \in Requests \ {t} : pc'[x] = pc[x] /\ req'[x] = req[x]

\* The handlers, in the types' words.
Control ==
    /\ pc \in [Requests -> {"new"} \cup InFlight \cup Ended]
    /\ req \in [Requests -> Call \cup {None}]
    /\ \A x \in Requests : req[x] = None <=> pc[x] \in {"new", "failed"}
    /\ \A x \in Requests : pc[x] \in {"remove", "delete"} => req[x].found # None

\* Nobody is new again.
Older == \A x \in Requests : pc[x] # "new" => pc'[x] # "new"

LEMMA FactsKeep ==
    ASSUME RInv, unfollowed \subseteq unfollowed', NEW t \in Requests, Others(t),
           req'[t] # None => Facts(t, req[t], pc[t])'
    PROVE  AllFacts'
BY DEF RInv, AllFacts, Facts, Others

\* Keys stay with their records, when what is new was mentioned before or has a
\* key that nobody has.
LEMMA AgreeKeeps ==
    ASSUME RInv, NEW m,
           m \in Mentioned \/ \A n \in Mentioned : n.rkey # m.rkey,
           m \in Mentioned \/ (m.rkey \in Requests /\ pc'[m.rkey] # "new") \/ m.rkey \in drawn',
           drawn \subseteq drawn', Older,
           \A r \in rows' : r.rkey # None => r \in Mentioned \cup {m},
           records' \subseteq Mentioned \cup {m},
           \A i \in 1 .. Len(firehose') : FollowOf(firehose'[i]) \in Mentioned \cup {m},
           \A x \in Requests : Holds(x)' => RecordOf(x, req'[x]) \in Mentioned \cup {m}
    PROVE  Agree' /\ Drawn'
<1>1. Mentioned' \subseteq Mentioned \cup {m}
  BY DEF Mentioned
<1>2. Agree'
  BY <1>1 DEF RInv, Agree
<1>3. Drawn'
  BY <1>1 DEF RInv, Drawn, Older
<1> QED
  BY <1>2, <1>3

\* What is on the firehose after an event of record m more.
LEMMA FirehoseGrows ==
    ASSUME RInv, NEW op \in {"create", "delete"}, NEW m \in Record,
           m.table = "follow" => m.subject \in Dids,
           Sent(op, m.table, m.user, m.subject, m.rkey)
    PROVE  /\ firehose' \in Seq(Event) /\ Len(firehose') >= Len(firehose)
           /\ \A i \in 1 .. Len(firehose) : firehose'[i] = firehose[i]
           /\ \A i \in 1 .. Len(firehose') : FollowOf(firehose'[i]) \in Mentioned \cup {m}
           /\ m.table = "follow" =>
                 /\ Len(firehose') = Len(firehose) + 1
                 /\ firehose'[Len(firehose')].op = op
                 /\ firehose'[Len(firehose')].rkey = m.rkey
<1>1. firehose \in Seq(Event)
  BY DEF RInv, TypeOK
<1>2. \A i \in 1 .. Len(firehose) : FollowOf(firehose[i]) \in Mentioned
  BY DEF Mentioned
<1>3. CASE m.table = "follow"
  <2> DEFINE e == [op |-> op, user |-> m.user, subject |-> m.subject, rkey |-> m.rkey]
  <2>1. firehose' = Append(firehose, e)
    BY <1>3 DEF Sent
  <2>2. e \in Event /\ FollowOf(e) = m /\ e.op = op /\ e.rkey = m.rkey
    BY <1>3 DEF FollowOf, Event, Record
  <2> HIDE DEF e
  <2>3. /\ firehose' \in Seq(Event) /\ Len(firehose') = Len(firehose) + 1
        /\ \A i \in 1 .. Len(firehose) : firehose'[i] = firehose[i]
        /\ firehose'[Len(firehose) + 1] = e
    BY <1>1, <2>1, <2>2
  <2>4. \A i \in 1 .. Len(firehose') : i \in 1 .. Len(firehose) \/ i = Len(firehose) + 1
    BY <1>1, <2>3
  <2>5. \A i \in 1 .. Len(firehose') : FollowOf(firehose'[i]) \in Mentioned \cup {m}
    BY <1>2, <2>2, <2>3, <2>4
  <2> QED
    BY <1>1, <1>3, <2>2, <2>3, <2>5
<1>4. CASE m.table # "follow"
  BY <1>1, <1>2, <1>4 DEF Sent
<1> QED
  BY <1>3, <1>4

\* Request t has begun with call c, and goes to step.
Begun(t, c, step) ==
    /\ Others(t) /\ Older /\ pc[t] = "new" /\ req[t] = None
    /\ pc'[t] = step /\ req'[t] = c /\ c # None
    /\ Control' /\ Alone'
    /\ disturbed \subseteq disturbed' /\ disturbed' \subseteq Requests
    /\ \A x \in Requests : req[x] # None /\ SameTarget(req[x], c) => x \in disturbed'
    /\ \A n \in Mentioned : n.rkey # t
    /\ \A x \in Requests \ {t} : Holds(x)' => RecordOf(x, req'[x]) \in Mentioned

\* Request t, whose call is c, goes to step, or fails.
Moved(t, c, step) ==
    /\ Others(t) /\ Older /\ c # None /\ c \in Call /\ Facts(t, c, pc[t])
    /\ (pc'[t] = step /\ req'[t] = c) \/ (pc'[t] = "failed" /\ req'[t] = None)
    /\ Control' /\ Alone'
    /\ \A x \in Requests \ {t} : req[x] # None /\ SameTarget(req[x], c) => x \in disturbed
    /\ \A x \in Requests : Holds(x)' => RecordOf(x, req'[x]) \in Mentioned
    /\ c.op # "describe" => RecordOf(t, c) \in Mentioned

\* A request begins: whatever is about the same thing is disturbed, and nothing
\* has its key.
LEMMA BeginFacts ==
    ASSUME RInv, NEW t \in Requests, NEW op, NEW table, NEW u, NEW s, NEW found,
           Begin(t, op, table, u, s, found),
           NEW step \in InFlight, Goto(t, step), NEW c,
           c = [op |-> op, table |-> table, user |-> u, subject |-> s, found |-> found],
           c \in Call, step \in {"remove", "delete"} => found # None
    PROVE  Begun(t, c, step)
<1>1. pc[t] = "new" /\ req[t] = None /\ c # None
  BY NoneAssumption DEF Begin, RInv, TypeOK
<1>2. /\ pc' = [pc EXCEPT ![t] = step] /\ req' = [req EXCEPT ![t] = c]
      /\ step \notin {"new", "failed", "answered"}
  BY DEF Begin, Goto, InFlight
<1>3. /\ Others(t) /\ pc'[t] = step /\ req'[t] = c
      /\ pc' \in [Requests -> {"new"} \cup InFlight \cup Ended]
      /\ req' \in [Requests -> Call \cup {None}]
  BY <1>2 DEF RInv, TypeOK, Others
<1>4. /\ \A x \in Requests : req'[x] = None <=> pc'[x] \in {"new", "failed"}
      /\ \A x \in Requests : pc'[x] \in {"remove", "delete"} => req'[x].found # None
  <2>1. c.found = found
    OBVIOUS
  <2> QED
    BY <1>1, <1>2, <1>3, <2>1 DEF RInv, TypeOK, Others
<1>5. PICK others : others = {o \in Requests : About(o, table, u, s)}
  OBVIOUS
<1>6. /\ others \subseteq Requests /\ t \notin others
      /\ \A x \in Requests : x \in others <=> req[x] # None /\ SameTarget(req[x], c)
      /\ disturbed' = disturbed \cup others
               \cup (IF \E o \in others : pc[o] \in InFlight THEN {t} ELSE {})
  BY <1>1, <1>5 DEF Begin, About, SameTarget
<1>7. /\ disturbed \subseteq disturbed' /\ disturbed' \subseteq Requests
      /\ others \subseteq disturbed'
  BY <1>6 DEF RInv, TypeOK
<1>8. Alone'
  <2> SUFFICES ASSUME NEW x \in Requests, NEW o \in Requests, x # o, pc'[o] \in InFlight,
                      req'[x] # None, req'[o] # None, SameTarget(req'[x], req'[o])
               PROVE  x \in disturbed'
    BY DEF Alone
  <2>1. CASE x # t /\ o # t
    BY <1>3, <1>7, <2>1 DEF RInv, Alone, Others
  <2>2. CASE o = t
    BY <1>3, <1>6, <1>7, <2>2 DEF Others
  <2>3. CASE x = t
    <3>1. o \in others /\ pc[o] \in InFlight
      BY <1>3, <1>6, <2>3 DEF Others, SameTarget
    <3> QED
      BY <1>6, <2>3, <3>1
  <2> QED
    BY <2>1, <2>2, <2>3
<1>9. \A n \in Mentioned : n.rkey # t
  BY <1>1, KeyAssumption DEF RInv, TypeOK, Drawn
<1>10. \A x \in Requests \ {t} : Holds(x)' => RecordOf(x, req'[x]) \in Mentioned
  BY <1>3 DEF Others, Holds, Mentioned
<1>11. Older
  BY <1>2, <1>3 DEF Others, Older
<1> QED
  BY <1>1, <1>3, <1>4, <1>6, <1>7, <1>8, <1>9, <1>10, <1>11 DEF Begun, Control

\* A request makes its next call, or fails.
LEMMA StepFacts ==
    ASSUME RInv, NEW t \in Requests, pc[t] \in InFlight, UNCHANGED disturbed,
           NEW step \in InFlight \cup {"answered"},
           (Goto(t, step) /\ UNCHANGED req) \/ Fail(t),
           step \in {"remove", "delete"} => req[t].found # None
    PROVE  Moved(t, req[t], step)
<1>1. req[t] # None /\ req[t] \in Call /\ Facts(t, req[t], pc[t])
  BY DEF RInv, TypeOK, AllFacts, InFlight
<1>2. /\ Others(t)
      /\ (pc'[t] = step /\ req'[t] = req[t]) \/ (pc'[t] = "failed" /\ req'[t] = None)
      /\ pc' \in [Requests -> {"new"} \cup InFlight \cup Ended]
      /\ req' \in [Requests -> Call \cup {None}]
  BY DEF Goto, Fail, RInv, TypeOK, Others, Ended
<1>3. step \notin {"new", "failed"} /\ pc[t] # "new"
  BY DEF InFlight
<1>4. /\ \A x \in Requests : req'[x] = None <=> pc'[x] \in {"new", "failed"}
      /\ \A x \in Requests : pc'[x] \in {"remove", "delete"} => req'[x].found # None
      /\ \A x \in Requests : pc[x] # "new" => pc'[x] # "new"
  BY <1>1, <1>2, <1>3 DEF RInv, TypeOK, Others
<1>5. \A x \in Requests \ {t} : req[x] # None /\ SameTarget(req[x], req[t]) => x \in disturbed
  BY <1>1 DEF RInv, Alone
<1>6. Alone'
  <2>1. \A x \in Requests : req'[x] # None => req[x] # None /\ req'[x] = req[x]
    BY <1>1, <1>2 DEF Others
  <2>2. \A x \in Requests : pc'[x] \in InFlight => pc[x] \in InFlight
    BY <1>2 DEF Others, InFlight
  <2> QED
    BY <2>1, <2>2 DEF RInv, Alone
<1>7. \A x \in Requests : Holds(x)' => RecordOf(x, req'[x]) \in Mentioned
  BY <1>1, <1>2 DEF Others, Holds, Mentioned
<1>8. req[t].op # "describe" => RecordOf(t, req[t]) \in Mentioned
  BY <1>1 DEF Holds, Mentioned
<1> QED
  BY <1>1, <1>2, <1>4, <1>5, <1>6, <1>7, <1>8 DEF Moved, Control, Older

\* A request that a step does not disturb keeps what it has done, when the step
\* leaves the row, the record and the description it is about alone.
LEMMA ProgressKeeps ==
    ASSUME RInv, NEW x \in Requests, pc'[x] = pc[x], req'[x] = req[x], req[x] # None,
           x \notin disturbed, excused \subseteq excused',
           req[x].op = "put" => (HasRecord(x) => HasRecord(x)'),
           NEW c, c = req[x],
           c.op = "delete" => (HasRecord(c.found)' => HasRecord(c.found)),
           c.op # "describe" => Rows(c.table, c.user, c.subject)' = Rows(c.table, c.user, c.subject),
           c.op = "describe" => /\ described'[c.subject] = described[c.subject]
                                /\ repoRecs'[c.subject] = repoRecs[c.subject]
    PROVE  Progress(x)'
<1>1. Facts(x, c, pc[x]) /\ Progress(x) /\ c \in Call
  BY DEF RInv, AllFacts, Undisturbed, TypeOK
<1>2. CASE c.op = "put"
  BY <1>1, <1>2 DEF Progress, Facts, Stands
<1>3. CASE c.op = "delete"
  BY <1>1, <1>3 DEF Progress, Facts, Stands
<1>4. CASE c.op = "describe"
  BY <1>1, <1>4 DEF Progress, Facts, Stands
<1> QED
  BY <1>1, <1>2, <1>3, <1>4 DEF Call

\* Who has a key is about the record of that key.
LEMMA KeyTarget ==
    ASSUME RInv, NEW x \in Requests, req[x] # None, NEW m \in Mentioned,
           \/ req[x].op = "put" /\ m.rkey = x
           \/ req[x].op = "delete" /\ m.rkey = req[x].found
    PROVE  SameTarget(req[x], m)
<1>1. Holds(x)
  BY DEF Holds
<1>2. RecordOf(x, req[x]) \in Mentioned
  BY <1>1 DEF Mentioned
<1>3. RecordOf(x, req[x]).rkey = m.rkey
  BY DEF RecordOf
<1>4. RecordOf(x, req[x]) = m
  BY <1>2, <1>3 DEF RInv, Agree
<1> QED
  BY <1>4 DEF RecordOf, SameTarget

\* A step of request t that changes no table and no record.
LEMMA QuietKeeps ==
    ASSUME RInv, NEW t \in Requests, Others(t), UNCHANGED <<rows, records, described, repoRecs>>,
           disturbed \subseteq disturbed', excused \subseteq excused'
    PROVE  /\ Unique' /\ Shapes'
           /\ \A x \in Requests \ {t} : req'[x] # None /\ x \notin disturbed' => Progress(x)'
           /\ pc[t] # "delete" \/ req[t].found \in excused' => NoGhost'
<1>1. Unique' /\ Shapes'
  BY DEF RInv, Unique, Shapes
<1>2. ASSUME NEW x \in Requests \ {t}, req'[x] # None, x \notin disturbed'
      PROVE  Progress(x)'
  <2>1. pc'[x] = pc[x] /\ req'[x] = req[x] /\ x \notin disturbed
    BY <1>2 DEF Others
  <2>2. PICK c : c = req[x]
    OBVIOUS
  <2> QED
    BY <1>2, <2>1, <2>2, ProgressKeeps DEF HasRecord, Rows
<1>3. ASSUME pc[t] # "delete" \/ req[t].found \in excused' PROVE NoGhost'
  BY <1>3 DEF RInv, NoGhost, HasRecord, Others
<1> QED
  BY <1>1, <1>2, <1>3

LEMMA ArriveKeeps ==
    ASSUME RInv, UNCHANGED <<rows, records, firehose, pos>>,
           unfollowed \subseteq unfollowed', dropped \subseteq dropped'
    PROVE  FollowsArrive'
BY DEF RInv, FollowsArrive, Rows

-----------------------------------------------------------------------------
(* Follow and Star.                                                         *)

LEMMA PostInv ==
    ASSUME RInv, NEW t \in Requests, NEW u \in Users, NEW table \in {"follow", "star"}, NEW s,
           Post(t, table, u, s)
    PROVE  RInv'
<1>1. PICK c : c = [op |-> "put", table |-> table, user |-> u, subject |-> s, found |-> None]
  OBVIOUS
<1>2. s \in Subject(table) /\ (table = "follow" => s # u) /\ Begin(t, "put", table, u, s, None) /\ Goto(t, "put")
  BY DEF Post
<1>3. c \in Call
  BY <1>1, <1>2 DEF Subject, Call, Tables
<1>4. UNCHANGED <<tables, pds, cursor, excused, dropped, unfollowed, drawn>>
  BY DEF Post
<1>5. UNCHANGED <<rows, described, records, repoRecs, firehose, pos, failures>>
  BY <1>4 DEF tables, pds, cursor
<1>6. Begun(t, c, "put")
  <2>1. "put" \in InFlight /\ ("put" \in {"remove", "delete"} => None # None)
    BY DEF InFlight
  <2> QED
    BY <1>1, <1>2, <1>3, <2>1, BeginFacts
<1>7. TypeOK'
  BY <1>4, <1>5, <1>6 DEF Begun, Control, RInv, TypeOK
<1>8. AllFacts'
  <2>1. Facts(t, req[t], pc[t])'
    BY <1>1, <1>2, <1>6 DEF Begun, Facts, Tables, Subject
  <2> QED
    BY <1>4, <1>6, <2>1, FactsKeep DEF Begun
<1>9. Agree' /\ Drawn'
  <2>1. PICK m : m = RecordOf(t, c)
    OBVIOUS
  <2>2. m.rkey = t
    BY <1>1, <2>1 DEF RecordOf
  <2>3. /\ rows' \subseteq rows /\ records' \subseteq Mentioned
        /\ \A i \in 1 .. Len(firehose') : FollowOf(firehose'[i]) \in Mentioned
    BY <1>5 DEF Mentioned
  <2>4. \A r \in rows' : r.rkey # None => r \in Mentioned
    BY <2>3 DEF Mentioned
  <2>5. \A x \in Requests : Holds(x)' => RecordOf(x, req'[x]) \in Mentioned \cup {m}
    BY <1>6, <2>1 DEF Begun
  <2> QED
    BY <1>4, <1>6, <2>2, <2>3, <2>4, <2>5, AgreeKeeps DEF Begun
<1>10. Unique' /\ Shapes' /\ NoGhost'
  BY <1>4, <1>5, <1>6, QuietKeeps DEF Begun
<1>11. Undisturbed'
  <2>1. Progress(t)'
    BY <1>6 DEF Begun, Progress
  <2> QED
    BY <1>4, <1>5, <1>6, <2>1, QuietKeeps DEF Begun, Undisturbed
<1>12. FollowsArrive'
  BY <1>4, <1>5, ArriveKeeps
<1> QED
  BY <1>6, <1>7, <1>8, <1>9, <1>10, <1>11, <1>12 DEF Begun, RInv

LEMMA PutRecordInv ==
    ASSUME RInv, NEW t \in Requests, PutRecord(t)
    PROVE  RInv'
<1>1. PICK c : c = req[t]
  OBVIOUS
<1>2. PICK m : m = [table |-> c.table, user |-> c.user, subject |-> c.subject, rkey |-> t]
  OBVIOUS
<1>3. /\ pc[t] = "put" /\ records' = records \cup {m}
      /\ Sent("create", c.table, c.user, c.subject, t)
      /\ (Goto(t, "insert") /\ UNCHANGED req) \/ Fail(t)
      /\ UNCHANGED <<rows, described, repoRecs, pos, failures>>
      /\ UNCHANGED <<disturbed, excused, dropped, unfollowed, drawn>>
  BY <1>1, <1>2 DEF PutRecord, tables, cursor, history
<1>4. Moved(t, c, "insert")
  <2>1. pc[t] \in InFlight /\ "insert" \in InFlight /\ "insert" \notin {"remove", "delete"}
    BY <1>3 DEF InFlight
  <2> QED
    BY <1>1, <1>3, <2>1, StepFacts
<1>5. /\ c.op = "put" /\ c.table \in {"follow", "star"} /\ m = RecordOf(t, c)
      /\ m \in Mentioned /\ m.rkey = t
  BY <1>2, <1>3, <1>4 DEF Moved, Facts, Tables, RecordOf
<1>6. m \in Record /\ (m.table = "follow" => m.subject \in Dids)
  BY <1>2, <1>4, <1>5 DEF Moved, Facts, Call, Record, Tables, Rkeys
<1>7. /\ firehose' \in Seq(Event) /\ Len(firehose') >= Len(firehose)
      /\ \A i \in 1 .. Len(firehose) : firehose'[i] = firehose[i]
      /\ \A i \in 1 .. Len(firehose') : FollowOf(firehose'[i]) \in Mentioned
      /\ m.table = "follow" =>
            /\ Len(firehose') = Len(firehose) + 1
            /\ firehose'[Len(firehose')].op = "create"
            /\ firehose'[Len(firehose')].rkey = m.rkey
  <2>1. Sent("create", m.table, m.user, m.subject, m.rkey)
    BY <1>2, <1>3
  <2> QED
    BY <1>5, <1>6, <2>1, FirehoseGrows
<1>8. TypeOK'
  <2>1. pos' \in 0 .. Len(firehose')
    BY <1>3, <1>7 DEF RInv, TypeOK
  <2>2. records' \subseteq Record
    BY <1>3, <1>6 DEF RInv, TypeOK
  <2> QED
    BY <1>3, <1>4, <1>7, <2>1, <2>2 DEF Moved, Control, RInv, TypeOK
<1>9. AllFacts'
  <2>1. req'[t] # None => Facts(t, req[t], pc[t])'
    BY <1>3, <1>4, <1>5 DEF Moved, Facts
  <2> QED
    BY <1>3, <1>4, <2>1, FactsKeep DEF Moved
<1>10. Agree' /\ Drawn'
  <2>1. records' \subseteq Mentioned /\ \A r \in rows' : r.rkey # None => r \in Mentioned
    BY <1>3, <1>5 DEF Mentioned
  <2> QED
    BY <1>3, <1>4, <1>5, <1>7, <2>1, AgreeKeeps DEF Moved
<1>11. Unique' /\ Shapes'
  BY <1>2, <1>3, <1>4 DEF Moved, RInv, Unique, Shapes, Facts
<1>12. HasRecord(t)' /\ \A k : HasRecord(k) => HasRecord(k)'
  BY <1>3, <1>5 DEF HasRecord
<1>13. Undisturbed'
  <2>1. Progress(t)'
    BY <1>4, <1>12 DEF Moved, Progress
  <2>2. ASSUME NEW x \in Requests \ {t}, req'[x] # None, x \notin disturbed'
        PROVE  Progress(x)'
    <3>1. PICK d : d = req[x]
      OBVIOUS
    <3>2. pc'[x] = pc[x] /\ req'[x] = req[x] /\ x \notin disturbed /\ d # None
      BY <1>3, <1>4, <2>2, <3>1 DEF Moved, Others
    <3>3. d.op = "delete" => d.found # t
      BY <1>2, <1>4, <1>5, <3>1, <3>2, KeyTarget DEF Moved, SameTarget
    <3>4. d.op = "delete" => (HasRecord(d.found)' => HasRecord(d.found))
      BY <1>3, <1>5, <3>3 DEF HasRecord
    <3>5. /\ Rows(d.table, d.user, d.subject)' = Rows(d.table, d.user, d.subject)
          /\ described'[d.subject] = described[d.subject] /\ repoRecs'[d.subject] = repoRecs[d.subject]
          /\ excused \subseteq excused'
      BY <1>3 DEF Rows
    <3> QED
      BY <1>12, <3>1, <3>2, <3>4, <3>5, ProgressKeeps
  <2> QED
    BY <2>1, <2>2 DEF Undisturbed
<1>14. NoGhost'
  BY <1>3, <1>4, <1>12 DEF Moved, RInv, NoGhost, Others
<1>15. FollowsArrive'
  <2> SUFFICES ASSUME NEW r \in records', r.table = "follow", r.user # r.subject
               PROVE  \/ Rows("follow", r.user, r.subject)' # {}
                      \/ \E i \in pos' + 1 .. Len(firehose') :
                            firehose'[i].op = "create" /\ firehose'[i].rkey = r.rkey
                      \/ <<r.user, r.subject>> \in unfollowed'
                      \/ r.rkey \in dropped'
    BY DEF FollowsArrive, Rows
  <2>1. pos \in Nat /\ Len(firehose) \in Nat /\ pos <= Len(firehose) /\ Len(firehose') \in Nat
    BY <1>7 DEF RInv, TypeOK
  <2>2. CASE r \in records
    <3>1. \A i \in pos + 1 .. Len(firehose) : i \in pos' + 1 .. Len(firehose') /\ firehose'[i] = firehose[i]
      BY <1>3, <1>7, <2>1
    <3> QED
      BY <1>3, <2>2, <3>1 DEF RInv, FollowsArrive, Rows
  <2>3. CASE r = m
    <3>1. Len(firehose') \in pos' + 1 .. Len(firehose')
      BY <1>2, <1>3, <1>7, <2>1, <2>3
    <3> QED
      BY <1>2, <1>7, <2>3, <3>1
  <2> QED
    BY <1>3, <2>2, <2>3
<1> QED
  BY <1>4, <1>8, <1>9, <1>10, <1>11, <1>13, <1>14, <1>15 DEF Moved, RInv

LEMMA AddRowInv ==
    ASSUME RInv, NEW t \in Requests, AddRow(t)
    PROVE  RInv'
<1>1. PICK c : c = req[t]
  OBVIOUS
<1>2. PICK m : m = [table |-> c.table, user |-> c.user, subject |-> c.subject, rkey |-> t]
  OBVIOUS
<1>3. /\ pc[t] = "insert" /\ Goto(t, "answered") /\ Insert(c.table, c.user, c.subject, t)
      /\ excused' = IF HasRecord(t) THEN excused ELSE excused \cup {t}
      /\ UNCHANGED <<described, records, repoRecs, firehose, pos, failures>>
      /\ UNCHANGED <<req, disturbed, dropped, unfollowed, drawn>>
  BY <1>1 DEF AddRow, pds, cursor
<1>4. Moved(t, c, "answered")
  <2>1. pc[t] \in InFlight /\ "answered" \notin {"remove", "delete"}
    BY <1>3 DEF InFlight
  <2> QED
    BY <1>1, <1>3, <2>1, StepFacts
<1>5. /\ c.op = "put" /\ c.table \in {"follow", "star"} /\ m = RecordOf(t, c)
      /\ m \in Mentioned /\ m.rkey = t
  BY <1>2, <1>3, <1>4 DEF Moved, Facts, Tables, RecordOf
<1>6. m \in Row
  BY <1>2, <1>4, <1>5 DEF Moved, Call, Row, Tables, Rkeys
<1>7. /\ rows' = rows \/ (rows' = rows \cup {m} /\ Rows(c.table, c.user, c.subject) = {})
      /\ Rows(c.table, c.user, c.subject)' # {}
  <2>1. ~(c.table = "follow" /\ c.user = c.subject)
    BY <1>4, <1>5 DEF Moved, Facts
  <2> QED
    BY <1>2, <1>3, <2>1 DEF Insert, Rows
<1>8. /\ pc'[t] = "answered" /\ req' = req /\ excused \subseteq excused'
      /\ excused' \subseteq excused \cup {t}
  BY <1>1, <1>3, <1>4 DEF Moved, Goto, Ended, RInv, TypeOK
<1>9. TypeOK'
  BY <1>3, <1>4, <1>6, <1>7, <1>8 DEF Moved, Control, RInv, TypeOK, Rkeys
<1>10. AllFacts'
  <2>1. Facts(t, req[t], pc[t])'
    BY <1>1, <1>3, <1>4, <1>5, <1>8 DEF Moved, Facts
  <2> QED
    BY <1>3, <1>4, <2>1, FactsKeep DEF Moved
<1>11. Agree' /\ Drawn'
  <2>1. /\ records' \subseteq Mentioned
        /\ \A i \in 1 .. Len(firehose') : FollowOf(firehose'[i]) \in Mentioned
    BY <1>3 DEF Mentioned
  <2>2. \A r \in rows' : r.rkey # None => r \in Mentioned
    BY <1>5, <1>7 DEF Mentioned
  <2> QED
    BY <1>3, <1>4, <1>5, <2>1, <2>2, AgreeKeeps DEF Moved
<1>12. Unique' /\ Shapes'
  <2>1. t # None
    BY KeyAssumption
  <2> QED
    BY <1>2, <1>3, <1>5, <1>7, <2>1 DEF RInv, Unique, Shapes, Rows
<1>13. Undisturbed'
  <2>1. t \notin disturbed => Progress(t)'
    BY <1>1, <1>3, <1>4, <1>5, <1>7, <1>8
       DEF Moved, RInv, Undisturbed, Progress, Stands, HasRecord
  <2>2. ASSUME NEW x \in Requests \ {t}, req'[x] # None, x \notin disturbed'
        PROVE  Progress(x)'
    <3>1. PICK d : d = req[x]
      OBVIOUS
    <3>2. pc'[x] = pc[x] /\ req'[x] = req[x] /\ x \notin disturbed /\ d # None /\ ~SameTarget(d, c)
      BY <1>3, <1>4, <2>2, <3>1 DEF Moved, Others
    <3>3. Rows(d.table, d.user, d.subject)' = Rows(d.table, d.user, d.subject)
      BY <1>2, <1>7, <3>2 DEF Rows, SameTarget
    <3>4. \A k : HasRecord(k)' <=> HasRecord(k)
      BY <1>3 DEF HasRecord
    <3> QED
      BY <1>3, <1>8, <3>1, <3>2, <3>3, <3>4, ProgressKeeps
  <2> QED
    BY <1>3, <2>1, <2>2 DEF Undisturbed
<1>14. NoGhost'
  <2>1. \A r \in rows' : r \in rows \/ (r.rkey = t /\ (HasRecord(t)' \/ t \in excused'))
    BY <1>3, <1>5, <1>7 DEF HasRecord
  <2> QED
    BY <1>3, <1>4, <1>8, <2>1 DEF Moved, RInv, NoGhost, HasRecord, Others
<1>15. FollowsArrive'
  BY <1>3, <1>7 DEF RInv, FollowsArrive, Rows
<1> QED
  BY <1>4, <1>9, <1>10, <1>11, <1>12, <1>13, <1>14, <1>15 DEF Moved, RInv

LEMMA FindRowInv ==
    ASSUME RInv, NEW t \in Requests, NEW u \in Users, NEW table \in {"follow", "star"}, NEW s,
           table = "follow" => s \in Dids, FindRow(t, table, u, s)
    PROVE  RInv'
<1>1. PICK r \in Rows(table, u, s) :
        /\ Begin(t, "delete", table, u, s, r.rkey)
        /\ unfollowed' = IF table = "follow" THEN unfollowed \cup {<<u, s>>} ELSE unfollowed
        /\ Goto(t, "remove")
        /\ UNCHANGED <<tables, pds, cursor, excused, dropped, drawn>>
  BY DEF FindRow
<1>2. PICK c : c = [op |-> "delete", table |-> table, user |-> u, subject |-> s, found |-> r.rkey]
  OBVIOUS
<1>3. UNCHANGED <<rows, described, records, repoRecs, firehose, pos, failures, excused, dropped, drawn>>
  BY <1>1 DEF tables, pds, cursor
<1>4. /\ r \in rows /\ r \in Row /\ r.table = table /\ r.user = u /\ r.subject = s
      /\ r.rkey # None /\ r \in Mentioned
  BY <1>1 DEF Rows, RInv, TypeOK, Shapes, Mentioned
<1>5. c \in Call
  BY <1>2, <1>4 DEF Call, Row, Tables
<1>6. Begun(t, c, "remove")
  <2>1. "remove" \in InFlight
    BY DEF InFlight
  <2> QED
    BY <1>1, <1>2, <1>4, <1>5, <2>1, BeginFacts
<1>7. unfollowed \subseteq unfollowed' /\ unfollowed' \subseteq Users \X Dids
  BY <1>1 DEF RInv, TypeOK
<1>8. TypeOK'
  BY <1>3, <1>6, <1>7 DEF Begun, Control, RInv, TypeOK
<1>9. AllFacts'
  <2>1. Facts(t, req[t], pc[t])'
    BY <1>1, <1>2, <1>4, <1>6 DEF Begun, Facts
  <2> QED
    BY <1>6, <1>7, <2>1, FactsKeep DEF Begun
<1>10. Agree' /\ Drawn'
  <2>1. RecordOf(t, c) = r
    BY <1>2, <1>4 DEF RecordOf, Row
  <2>2. \A x \in Requests : Holds(x)' => RecordOf(x, req'[x]) \in Mentioned
    BY <1>4, <1>6, <2>1 DEF Begun
  <2>3. /\ records' \subseteq Mentioned /\ \A q \in rows' : q.rkey # None => q \in Mentioned
        /\ \A i \in 1 .. Len(firehose') : FollowOf(firehose'[i]) \in Mentioned
    BY <1>3 DEF Mentioned
  <2> QED
    BY <1>3, <1>4, <1>6, <2>2, <2>3, AgreeKeeps DEF Begun
<1>11. Unique' /\ Shapes' /\ NoGhost'
  BY <1>3, <1>6, QuietKeeps DEF Begun
<1>12. Undisturbed'
  <2>1. Progress(t)'
    <3>1. \A q \in Rows("star", u, s)' : table = "star" => q.rkey = r.rkey
      BY <1>3, <1>4 DEF RInv, Unique, Rows
    <3> QED
      BY <1>2, <1>6, <3>1 DEF Begun, Progress
  <2> QED
    BY <1>3, <1>6, <2>1, QuietKeeps DEF Begun, Undisturbed
<1>13. FollowsArrive'
  BY <1>3, <1>7, ArriveKeeps
<1> QED
  BY <1>6, <1>8, <1>9, <1>10, <1>11, <1>12, <1>13 DEF Begun, RInv

LEMMA DeleteRecordInv ==
    ASSUME RInv, NEW t \in Requests, DeleteRecord(t)
    PROVE  RInv'
<1>1. PICK c : c = req[t]
  OBVIOUS
<1>2. PICK m : m = RecordOf(t, c)
  OBVIOUS
<1>3. /\ pc[t] = "remove" /\ records' = {r \in records : r.rkey # c.found}
      /\ IF HasRecord(c.found) THEN Sent("delete", c.table, c.user, c.subject, c.found)
         ELSE UNCHANGED firehose
      /\ \/ Goto(t, "delete") /\ UNCHANGED <<req, excused>>
         \/ Fail(t) /\ excused' = excused \cup {c.found}
      /\ UNCHANGED <<rows, described, repoRecs, pos, failures>>
      /\ UNCHANGED <<disturbed, dropped, unfollowed, drawn>>
  BY <1>1 DEF DeleteRecord, tables, cursor
<1>4. Moved(t, c, "delete")
  <2>1. pc[t] \in InFlight /\ "delete" \in InFlight /\ req[t].found # None
    BY <1>3 DEF InFlight, RInv, TypeOK
  <2> QED
    BY <1>1, <1>3, <2>1, StepFacts
<1>5. /\ c.op = "delete" /\ c.table \in {"follow", "star"} /\ c.found \in Rkeys
      /\ m \in Mentioned /\ SameTarget(c, m) /\ m.rkey = c.found
      /\ m = [table |-> c.table, user |-> c.user, subject |-> c.subject, rkey |-> c.found]
  BY <1>2, <1>3, <1>4 DEF Moved, Facts, RecordOf, SameTarget, Call
<1>6. m \in Record /\ (m.table = "follow" => m.subject \in Dids)
  BY <1>4, <1>5 DEF Moved, Facts, Call, Record, Tables
<1>7. /\ firehose' \in Seq(Event) /\ Len(firehose') >= Len(firehose)
      /\ \A i \in 1 .. Len(firehose) : firehose'[i] = firehose[i]
      /\ \A i \in 1 .. Len(firehose') : FollowOf(firehose'[i]) \in Mentioned
  <2>1. CASE HasRecord(c.found)
    <3>1. Sent("delete", m.table, m.user, m.subject, m.rkey)
      BY <1>3, <1>5, <2>1
    <3> QED
      BY <1>5, <1>6, <3>1, FirehoseGrows
  <2>2. CASE ~HasRecord(c.found)
    BY <1>3, <2>2 DEF RInv, TypeOK, Mentioned
  <2> QED
    BY <2>1, <2>2
<1>8. /\ excused \subseteq excused' /\ excused' \subseteq excused \cup {c.found}
      /\ (pc'[t] = "delete" /\ req'[t] = c) \/ c.found \in excused'
  BY <1>1, <1>3, <1>4 DEF Moved, Goto, RInv, TypeOK
<1>9. TypeOK'
  <2>1. pos' \in 0 .. Len(firehose')
    BY <1>3, <1>7 DEF RInv, TypeOK
  <2> QED
    BY <1>3, <1>4, <1>5, <1>7, <1>8, <2>1 DEF Moved, Control, RInv, TypeOK
<1>10. AllFacts'
  <2>1. req'[t] # None => Facts(t, req[t], pc[t])'
    BY <1>3, <1>4, <1>5 DEF Moved, Facts
  <2> QED
    BY <1>3, <1>4, <2>1, FactsKeep DEF Moved
<1>11. Agree' /\ Drawn'
  <2>1. records' \subseteq Mentioned /\ \A r \in rows' : r.rkey # None => r \in Mentioned
    BY <1>3 DEF Mentioned
  <2> QED
    BY <1>3, <1>4, <1>5, <1>7, <2>1, AgreeKeeps DEF Moved
<1>12. Unique' /\ Shapes'
  BY <1>3 DEF RInv, Unique, Shapes
<1>13. \A k : HasRecord(k)' <=> HasRecord(k) /\ k # c.found
  BY <1>3 DEF HasRecord
<1>14. Undisturbed'
  <2>1. t \notin disturbed => Progress(t)'
    BY <1>1, <1>3, <1>4, <1>13 DEF Moved, RInv, Undisturbed, Progress, Rows
  <2>2. ASSUME NEW x \in Requests \ {t}, req'[x] # None, x \notin disturbed'
        PROVE  Progress(x)'
    <3>1. PICK d : d = req[x]
      OBVIOUS
    <3>2. pc'[x] = pc[x] /\ req'[x] = req[x] /\ x \notin disturbed /\ d # None /\ ~SameTarget(d, m)
      BY <1>3, <1>4, <1>5, <2>2, <3>1 DEF Moved, Others, SameTarget
    <3>3. d.op = "put" => x # c.found
      BY <1>5, <3>1, <3>2, KeyTarget
    <3>4. Rows(d.table, d.user, d.subject)' = Rows(d.table, d.user, d.subject)
      BY <1>3 DEF Rows
    <3> QED
      BY <1>3, <1>8, <1>13, <3>1, <3>2, <3>3, <3>4, ProgressKeeps
  <2> QED
    BY <1>3, <2>1, <2>2 DEF Undisturbed
<1>15. NoGhost'
  BY <1>1, <1>3, <1>4, <1>8, <1>13 DEF Moved, RInv, NoGhost, Others
<1>16. FollowsArrive'
  <2>1. \A i \in pos + 1 .. Len(firehose) : i \in pos' + 1 .. Len(firehose') /\ firehose'[i] = firehose[i]
    BY <1>3, <1>7 DEF RInv, TypeOK
  <2> QED
    BY <1>3, <2>1 DEF RInv, FollowsArrive, Rows
<1> QED
  BY <1>4, <1>9, <1>10, <1>11, <1>12, <1>14, <1>15, <1>16 DEF Moved, RInv

LEMMA DeleteRowInv ==
    ASSUME RInv, NEW t \in Requests, DeleteRow(t)
    PROVE  RInv'
<1>1. PICK c : c = req[t]
  OBVIOUS
<1>2. PICK m : m = RecordOf(t, c)
  OBVIOUS
<1>3. /\ pc[t] = "delete" /\ Goto(t, "answered")
      /\ \/ rows' = rows \ Rows(c.table, c.user, c.subject) /\ UNCHANGED excused
         \/ excused' = excused \cup {c.found} /\ UNCHANGED rows
      /\ UNCHANGED <<described, records, repoRecs, firehose, pos, failures>>
      /\ UNCHANGED <<req, disturbed, dropped, unfollowed, drawn>>
  BY <1>1 DEF DeleteRow, pds, cursor
<1>4. Moved(t, c, "answered")
  <2>1. pc[t] \in InFlight /\ "answered" \notin {"remove", "delete"}
    BY <1>3 DEF InFlight
  <2> QED
    BY <1>1, <1>3, <2>1, StepFacts
<1>5. /\ c.op = "delete" /\ c.table \in {"follow", "star"} /\ c.found \in Rkeys /\ c.found # None
      /\ c.table = "follow" => <<c.user, c.subject>> \in unfollowed
      /\ m \in Mentioned /\ SameTarget(c, m) /\ m.rkey = c.found
  BY <1>2, <1>3, <1>4 DEF Moved, Facts, RecordOf, SameTarget, Call
<1>6. /\ pc'[t] = "answered" /\ req'[t] = c /\ excused \subseteq excused'
      /\ excused' \subseteq excused \cup {c.found}
  BY <1>1, <1>3, <1>4 DEF Moved, Goto, RInv, TypeOK
<1>7. TypeOK'
  BY <1>3, <1>4, <1>5, <1>6 DEF Moved, Control, RInv, TypeOK
<1>8. AllFacts'
  <2>1. Facts(t, req[t], pc[t])'
    BY <1>3, <1>4, <1>5, <1>6 DEF Moved, Facts
  <2> QED
    BY <1>3, <1>4, <2>1, FactsKeep DEF Moved
<1>9. Agree' /\ Drawn'
  <2>1. /\ records' \subseteq Mentioned /\ \A r \in rows' : r.rkey # None => r \in Mentioned
        /\ \A i \in 1 .. Len(firehose') : FollowOf(firehose'[i]) \in Mentioned
    BY <1>3 DEF Mentioned
  <2> QED
    BY <1>3, <1>4, <1>5, <2>1, AgreeKeeps DEF Moved
<1>10. Unique' /\ Shapes'
  BY <1>3 DEF RInv, Unique, Shapes
<1>11. \A k : HasRecord(k)' <=> HasRecord(k)
  BY <1>3 DEF HasRecord
<1>12. Undisturbed'
  <2>1. t \notin disturbed => Progress(t)'
    <3>1. ASSUME t \notin disturbed
          PROVE  /\ ~HasRecord(c.found)
                 /\ c.table = "star" => \A r \in Rows("star", c.user, c.subject) : r.rkey = c.found
      BY <1>1, <1>3, <1>4, <3>1 DEF Moved, RInv, Undisturbed, Progress
    <3>2. ASSUME t \notin disturbed, NEW r \in Rows(c.table, c.user, c.subject)'
          PROVE  r.rkey \in excused' \/ (c.table = "follow" /\ r.rkey # c.found)
      BY <1>3, <1>5, <3>1, <3>2 DEF Rows
    <3> QED
      BY <1>5, <1>6, <1>11, <3>1, <3>2 DEF Progress, Stands
  <2>2. ASSUME NEW x \in Requests \ {t}, req'[x] # None, x \notin disturbed'
        PROVE  Progress(x)'
    <3>1. PICK d : d = req[x]
      OBVIOUS
    <3>2. pc'[x] = pc[x] /\ req'[x] = req[x] /\ x \notin disturbed /\ d # None /\ ~SameTarget(d, c)
      BY <1>3, <1>4, <2>2, <3>1 DEF Moved, Others
    <3>3. Rows(d.table, d.user, d.subject)' = Rows(d.table, d.user, d.subject)
      BY <1>3, <3>2 DEF Rows, SameTarget
    <3> QED
      BY <1>3, <1>6, <1>11, <3>1, <3>2, <3>3, ProgressKeeps
  <2> QED
    BY <1>3, <2>1, <2>2 DEF Undisturbed
<1>13. NoGhost'
  <2> SUFFICES ASSUME NEW r \in rows', r.table # "key", ~HasRecord(r.rkey)'
               PROVE  r.rkey \in excused' \/ \E x \in Requests : pc'[x] = "delete" /\ req'[x].found = r.rkey
    BY DEF NoGhost
  <2>1. r \in rows /\ ~HasRecord(r.rkey) /\ r.rkey # None
    BY <1>3, <1>11 DEF RInv, Shapes
  <2>2. CASE r.rkey = c.found
    <3>1. r \in Rows(c.table, c.user, c.subject)
      <4>1. r \in Mentioned
        BY <2>1 DEF Mentioned
      <4>2. r = m
        BY <1>5, <2>2, <4>1 DEF RInv, Agree
      <4> QED
        BY <1>5, <2>1, <4>2 DEF Rows, SameTarget
    <3> QED
      BY <1>3, <2>2, <3>1
  <2>3. CASE r.rkey # c.found
    BY <1>1, <1>4, <1>6, <2>1, <2>3 DEF Moved, RInv, NoGhost, Others
  <2> QED
    BY <2>2, <2>3
<1>14. FollowsArrive'
  <2> SUFFICES ASSUME NEW r \in records', r.table = "follow", r.user # r.subject
               PROVE  \/ Rows("follow", r.user, r.subject)' # {}
                      \/ \E i \in pos' + 1 .. Len(firehose') :
                            firehose'[i].op = "create" /\ firehose'[i].rkey = r.rkey
                      \/ <<r.user, r.subject>> \in unfollowed'
                      \/ r.rkey \in dropped'
    BY DEF FollowsArrive, Rows
  <2>1. CASE c.table = "follow" /\ c.user = r.user /\ c.subject = r.subject
    BY <1>3, <1>5, <2>1
  <2>2. CASE ~(c.table = "follow" /\ c.user = r.user /\ c.subject = r.subject)
    <3>1. Rows("follow", r.user, r.subject) \subseteq Rows("follow", r.user, r.subject)'
      BY <1>3, <2>2 DEF Rows
    <3> QED
      BY <1>3, <3>1 DEF RInv, FollowsArrive
  <2> QED
    BY <2>1, <2>2
<1> QED
  BY <1>4, <1>7, <1>8, <1>9, <1>10, <1>12, <1>13, <1>14 DEF Moved, RInv

-----------------------------------------------------------------------------
(* SettingsKeys and RepoDescription.                                        *)

LEMMA SettingsKeysInv ==
    ASSUME RInv, NEW t \in Requests, NEW u \in Users, NEW k \in Keys, SettingsKeys(t, u, k)
    PROVE  RInv'
<1>1. PICK c : c = [op |-> "put", table |-> "key", user |-> u, subject |-> k, found |-> None]
  OBVIOUS
<1>2. PICK m : m = RecordOf(t, c)
  OBVIOUS
<1>3. PICK q : q = [table |-> "key", user |-> u, subject |-> k, rkey |-> None]
  OBVIOUS
<1>4. /\ Begin(t, "put", "key", u, k, None) /\ Goto(t, "putKey")
      /\ rows' = rows \/ (rows' = rows \cup {q} /\ Rows("key", u, k) = {})
      /\ Rows("key", u, k)' # {}
      /\ UNCHANGED <<described, records, repoRecs, firehose, pos, failures>>
      /\ UNCHANGED <<excused, dropped, unfollowed, drawn>>
  <2>1. Insert("key", u, k, None)
    BY DEF SettingsKeys
  <2> QED
    BY <1>3, <2>1 DEF SettingsKeys, Insert, Rows, pds, cursor
<1>5. c \in Call /\ q \in Row /\ m.rkey = t
  BY <1>1, <1>2, <1>3 DEF Call, Row, Tables, RecordOf
<1>6. Begun(t, c, "putKey")
  <2>1. "putKey" \in InFlight /\ ("putKey" \in {"remove", "delete"} => None # None)
    BY DEF InFlight
  <2> QED
    BY <1>1, <1>4, <1>5, <2>1, BeginFacts
<1>7. TypeOK'
  BY <1>4, <1>5, <1>6 DEF Begun, Control, RInv, TypeOK
<1>8. AllFacts'
  <2>1. Facts(t, req[t], pc[t])'
    BY <1>1, <1>6 DEF Begun, Facts, Tables
  <2> QED
    BY <1>4, <1>6, <2>1, FactsKeep DEF Begun
<1>9. Agree' /\ Drawn'
  <2>1. /\ records' \subseteq Mentioned /\ \A r \in rows' : r.rkey # None => r \in Mentioned
        /\ \A i \in 1 .. Len(firehose') : FollowOf(firehose'[i]) \in Mentioned
    BY <1>3, <1>4 DEF Mentioned
  <2>2. \A x \in Requests : Holds(x)' => RecordOf(x, req'[x]) \in Mentioned \cup {m}
    BY <1>2, <1>6 DEF Begun
  <2> QED
    BY <1>4, <1>5, <1>6, <2>1, <2>2, AgreeKeeps DEF Begun
<1>10. Unique' /\ Shapes'
  BY <1>3, <1>4 DEF RInv, Unique, Shapes, Rows
<1>11. \A n : HasRecord(n)' <=> HasRecord(n)
  BY <1>4 DEF HasRecord
<1>12. Undisturbed'
  <2>1. Progress(t)'
    BY <1>1, <1>4, <1>6 DEF Begun, Progress
  <2>2. ASSUME NEW x \in Requests \ {t}, req'[x] # None, x \notin disturbed'
        PROVE  Progress(x)'
    <3>1. PICK d : d = req[x]
      OBVIOUS
    <3>2. pc'[x] = pc[x] /\ req'[x] = req[x] /\ x \notin disturbed /\ d # None /\ ~SameTarget(d, c)
      BY <1>6, <2>2, <3>1 DEF Begun, Others
    <3>3. Rows(d.table, d.user, d.subject)' = Rows(d.table, d.user, d.subject)
      BY <1>1, <1>3, <1>4, <3>2 DEF Rows, SameTarget
    <3> QED
      BY <1>4, <1>11, <3>1, <3>2, <3>3, ProgressKeeps
  <2> QED
    BY <2>1, <2>2 DEF Undisturbed
<1>13. NoGhost'
  BY <1>3, <1>4, <1>6, <1>11 DEF Begun, RInv, NoGhost, Others
<1>14. FollowsArrive'
  BY <1>4 DEF RInv, FollowsArrive, Rows
<1> QED
  BY <1>6, <1>7, <1>8, <1>9, <1>10, <1>12, <1>13, <1>14 DEF Begun, RInv

LEMMA PutKeyInv ==
    ASSUME RInv, NEW t \in Requests, PutKey(t)
    PROVE  RInv'
<1>1. PICK c : c = req[t]
  OBVIOUS
<1>2. PICK m : m = [table |-> "key", user |-> c.user, subject |-> c.subject, rkey |-> t]
  OBVIOUS
<1>3. /\ pc[t] = "putKey" /\ records' = records \cup {m}
      /\ (Goto(t, "answered") /\ UNCHANGED req) \/ Fail(t)
      /\ UNCHANGED <<rows, described, repoRecs, firehose, pos, failures>>
      /\ UNCHANGED <<disturbed, excused, dropped, unfollowed, drawn>>
  BY <1>1, <1>2 DEF PutKey, tables, cursor, history
<1>4. Moved(t, c, "answered")
  <2>1. pc[t] \in InFlight /\ "answered" \notin {"remove", "delete"}
    BY <1>3 DEF InFlight
  <2> QED
    BY <1>1, <1>3, <2>1, StepFacts
<1>5. /\ c.op = "put" /\ c.table = "key" /\ m = RecordOf(t, c) /\ m \in Mentioned
      /\ m.rkey = t /\ m.table = "key"
  BY <1>2, <1>3, <1>4 DEF Moved, Facts, RecordOf
<1>6. m \in Record
  BY <1>2, <1>4, <1>5 DEF Moved, Call, Record, Tables, Rkeys
<1>7. TypeOK'
  BY <1>3, <1>4, <1>6 DEF Moved, Control, RInv, TypeOK
<1>8. AllFacts'
  <2>1. req'[t] # None => Facts(t, req[t], pc[t])'
    BY <1>3, <1>4, <1>5 DEF Moved, Facts
  <2> QED
    BY <1>3, <1>4, <2>1, FactsKeep DEF Moved
<1>9. Agree' /\ Drawn'
  <2>1. /\ records' \subseteq Mentioned /\ \A r \in rows' : r.rkey # None => r \in Mentioned
        /\ \A i \in 1 .. Len(firehose') : FollowOf(firehose'[i]) \in Mentioned
    BY <1>3, <1>5 DEF Mentioned
  <2> QED
    BY <1>3, <1>4, <1>5, <2>1, AgreeKeeps DEF Moved
<1>10. Unique' /\ Shapes'
  BY <1>3, <1>5 DEF RInv, Unique, Shapes
<1>11. \A k : HasRecord(k)' <=> HasRecord(k) \/ k = t
  BY <1>3, <1>5 DEF HasRecord
<1>12. Undisturbed'
  <2>1. t \notin disturbed => Progress(t)'
    <3>1. t \notin disturbed => Rows("key", c.user, c.subject) # {}
      BY <1>1, <1>3, <1>4 DEF Moved, RInv, Undisturbed, Progress
    <3>2. Rows("key", c.user, c.subject)' = Rows("key", c.user, c.subject)
      BY <1>3 DEF Rows
    <3> QED
      BY <1>4, <1>5, <1>11, <3>1, <3>2 DEF Moved, Progress, Stands
  <2>2. ASSUME NEW x \in Requests \ {t}, req'[x] # None, x \notin disturbed'
        PROVE  Progress(x)'
    <3>1. PICK d : d = req[x]
      OBVIOUS
    <3>2. pc'[x] = pc[x] /\ req'[x] = req[x] /\ x \notin disturbed /\ d # None /\ ~SameTarget(d, m)
      BY <1>2, <1>3, <1>4, <1>5, <2>2, <3>1 DEF Moved, Others, SameTarget
    <3>3. d.op = "delete" => d.found # t
      BY <1>5, <3>1, <3>2, KeyTarget
    <3>4. Rows(d.table, d.user, d.subject)' = Rows(d.table, d.user, d.subject)
      BY <1>3 DEF Rows
    <3> QED
      BY <1>3, <1>11, <3>1, <3>2, <3>3, <3>4, ProgressKeeps
  <2> QED
    BY <1>3, <2>1, <2>2 DEF Undisturbed
<1>13. NoGhost'
  BY <1>3, <1>4, <1>11 DEF Moved, RInv, NoGhost, Others
<1>14. FollowsArrive'
  BY <1>3, <1>5 DEF RInv, FollowsArrive, Rows
<1> QED
  BY <1>4, <1>7, <1>8, <1>9, <1>10, <1>12, <1>13, <1>14 DEF Moved, RInv

LEMMA UpdateDescriptionInv ==
    ASSUME RInv, NEW t \in Requests, NEW u \in Users, NEW repo \in Repos,
           UpdateDescription(t, u, repo)
    PROVE  RInv'
<1>1. PICK c : c = [op |-> "describe", table |-> "repo", user |-> u, subject |-> repo, found |-> None]
  OBVIOUS
<1>2. PICK m : m = [rkey |-> t]
  OBVIOUS
<1>3. /\ Begin(t, "describe", "repo", u, repo, None) /\ Goto(t, "getRecord") /\ u = Owner[repo]
      /\ described' = [described EXCEPT ![repo] = t]
      /\ UNCHANGED <<rows, records, repoRecs, firehose, pos, failures>>
      /\ UNCHANGED <<excused, dropped, unfollowed, drawn>>
  BY DEF UpdateDescription, pds, cursor
<1>4. c \in Call /\ m.rkey = t
  BY <1>1, <1>2 DEF Call
<1>5. Begun(t, c, "getRecord")
  <2>1. "getRecord" \in InFlight /\ ("getRecord" \in {"remove", "delete"} => None # None)
    BY DEF InFlight
  <2> QED
    BY <1>1, <1>3, <1>4, <2>1, BeginFacts
<1>6. /\ described' \in [Repos -> Requests \cup {None}] /\ described'[repo] = t
      /\ \A r \in Repos : r # repo => described'[r] = described[r]
  BY <1>3 DEF RInv, TypeOK
<1>7. TypeOK'
  BY <1>3, <1>5, <1>6 DEF Begun, Control, RInv, TypeOK
<1>8. AllFacts'
  <2>1. Facts(t, req[t], pc[t])'
    BY <1>1, <1>3, <1>5 DEF Begun, Facts
  <2> QED
    BY <1>3, <1>5, <2>1, FactsKeep DEF Begun
<1>9. Agree' /\ Drawn'
  <2>1. /\ records' \subseteq Mentioned /\ \A r \in rows' : r.rkey # None => r \in Mentioned
        /\ \A i \in 1 .. Len(firehose') : FollowOf(firehose'[i]) \in Mentioned
    BY <1>3 DEF Mentioned
  <2>2. \A x \in Requests : Holds(x)' => RecordOf(x, req'[x]) \in Mentioned
    BY <1>1, <1>5 DEF Begun, Holds
  <2> QED
    BY <1>3, <1>4, <1>5, <2>1, <2>2, AgreeKeeps DEF Begun
<1>10. Unique' /\ Shapes'
  BY <1>3 DEF RInv, Unique, Shapes
<1>11. \A n : HasRecord(n)' <=> HasRecord(n)
  BY <1>3 DEF HasRecord
<1>12. Undisturbed'
  <2>1. Progress(t)'
    BY <1>1, <1>5, <1>6 DEF Begun, Progress
  <2>2. ASSUME NEW x \in Requests \ {t}, req'[x] # None, x \notin disturbed'
        PROVE  Progress(x)'
    <3>1. PICK d : d = req[x]
      OBVIOUS
    <3>2. pc'[x] = pc[x] /\ req'[x] = req[x] /\ x \notin disturbed /\ d # None /\ ~SameTarget(d, c)
      BY <1>5, <2>2, <3>1 DEF Begun, Others
    <3>3. Facts(x, d, pc[x])
      BY <3>1, <3>2 DEF RInv, AllFacts
    <3>4. d.op = "describe" => d.subject # repo /\ d.subject \in Repos
      BY <1>1, <1>3, <3>2, <3>3 DEF Facts, SameTarget
    <3>5. Rows(d.table, d.user, d.subject)' = Rows(d.table, d.user, d.subject)
      BY <1>3 DEF Rows
    <3> QED
      BY <1>3, <1>6, <1>11, <3>1, <3>2, <3>4, <3>5, ProgressKeeps
  <2> QED
    BY <2>1, <2>2 DEF Undisturbed
<1>13. NoGhost'
  BY <1>3, <1>5, <1>11 DEF Begun, RInv, NoGhost, Others
<1>14. FollowsArrive'
  BY <1>3, ArriveKeeps
<1> QED
  BY <1>5, <1>7, <1>8, <1>9, <1>10, <1>12, <1>13, <1>14 DEF Begun, RInv

LEMMA GetRecordInv ==
    ASSUME RInv, NEW t \in Requests, GetRecord(t)
    PROVE  RInv'
<1>1. PICK c : c = req[t]
  OBVIOUS
<1>2. PICK d : d = [c EXCEPT !.found = repoRecs[c.subject]]
  OBVIOUS
<1>3. /\ pc[t] = "getRecord" /\ req' = [req EXCEPT ![t] = d] /\ pc' = [pc EXCEPT ![t] = "swap"]
      /\ UNCHANGED <<rows, described, records, repoRecs, firehose, pos, failures>>
      /\ UNCHANGED <<disturbed, excused, dropped, unfollowed, drawn>>
  BY <1>1, <1>2 DEF GetRecord, Goto, tables, pds, cursor, history
<1>4. c # None /\ c \in Call /\ Facts(t, c, "getRecord")
  BY <1>1, <1>3 DEF RInv, TypeOK, AllFacts
<1>5. c.op = "describe" /\ c.subject \in Repos /\ repoRecs[c.subject] \in Requests \cup {None}
  BY <1>4 DEF Facts, RInv, TypeOK
<1>6. /\ d \in Call /\ d # None
      /\ d.op = c.op /\ d.table = c.table /\ d.user = c.user /\ d.subject = c.subject
  BY <1>2, <1>4, <1>5, NoneAssumption DEF Call, Rkeys
<1>7. /\ Others(t) /\ Older /\ pc'[t] = "swap" /\ req'[t] = d
      /\ pc' \in [Requests -> {"new"} \cup InFlight \cup Ended]
      /\ req' \in [Requests -> Call \cup {None}]
  BY <1>3, <1>6 DEF RInv, TypeOK, Others, Older, InFlight
<1>8. TypeOK'
  BY <1>1, <1>3, <1>6, <1>7 DEF Others, RInv, TypeOK
<1>9. AllFacts'
  <2>1. Facts(t, req[t], pc[t])'
    BY <1>3, <1>4, <1>5, <1>6, <1>7 DEF Facts
  <2> QED
    BY <1>3, <1>7, <2>1, FactsKeep
<1>10. Agree' /\ Drawn'
  <2>1. Mentioned' = Mentioned
    <3>1. \A x \in Requests : Holds(x)' <=> Holds(x)
      BY <1>1, <1>5, <1>6, <1>7 DEF Holds, Others
    <3>2. \A x \in Requests : Holds(x) => req'[x] = req[x]
      BY <1>1, <1>5, <1>7 DEF Holds, Others
    <3> QED
      BY <1>3, <3>1, <3>2 DEF Mentioned
  <2> QED
    BY <1>3, <1>7, <2>1 DEF RInv, Agree, Drawn, Older
<1>11. Alone'
  <2>1. \A x \in Requests : /\ req'[x] # None => req[x] # None
                            /\ pc'[x] \in InFlight => pc[x] \in InFlight
                            /\ req'[x].table = req[x].table
                            /\ req'[x].user = req[x].user /\ req'[x].subject = req[x].subject
    BY <1>1, <1>3, <1>4, <1>6, <1>7 DEF Others, InFlight
  <2> QED
    BY <1>3, <2>1 DEF RInv, Alone, SameTarget
<1>12. Unique' /\ Shapes' /\ NoGhost'
  BY <1>3, <1>7, QuietKeeps
<1>13. Undisturbed'
  <2>1. t \notin disturbed => Progress(t)'
    <3>1. t \notin disturbed => described[c.subject] = t
      BY <1>1, <1>3, <1>4 DEF RInv, Undisturbed, Progress
    <3> QED
      BY <1>3, <1>6, <1>7, <3>1 DEF Progress
  <2> QED
    BY <1>3, <1>7, <2>1, QuietKeeps DEF Undisturbed
<1>14. FollowsArrive'
  BY <1>3, ArriveKeeps
<1> QED
  BY <1>8, <1>9, <1>10, <1>11, <1>12, <1>13, <1>14 DEF RInv

LEMMA SwapRecordInv ==
    ASSUME RInv, NEW t \in Requests, SwapRecord(t)
    PROVE  RInv'
<1>1. PICK c : c = req[t]
  OBVIOUS
<1>2. /\ pc[t] = "swap" /\ repoRecs' = [repoRecs EXCEPT ![c.subject] = t]
      /\ (Goto(t, "answered") /\ UNCHANGED req) \/ Fail(t)
      /\ UNCHANGED <<rows, described, records, firehose, pos, failures>>
      /\ UNCHANGED <<disturbed, excused, dropped, unfollowed, drawn>>
  BY <1>1 DEF SwapRecord, tables, cursor, history
<1>3. Moved(t, c, "answered")
  <2>1. pc[t] \in InFlight /\ "answered" \notin {"remove", "delete"}
    BY <1>2 DEF InFlight
  <2> QED
    BY <1>1, <1>2, <2>1, StepFacts
<1>4. c.op = "describe" /\ c.table = "repo" /\ c.subject \in Repos /\ c.user = Owner[c.subject]
  BY <1>2, <1>3 DEF Moved, Facts
<1>5. /\ repoRecs' \in [Repos -> Requests \cup {None}] /\ repoRecs'[c.subject] = t
      /\ \A r \in Repos : r # c.subject => repoRecs'[r] = repoRecs[r]
  BY <1>2, <1>4 DEF RInv, TypeOK
<1>6. TypeOK'
  BY <1>2, <1>3, <1>5 DEF Moved, Control, RInv, TypeOK
<1>7. AllFacts'
  <2>1. req'[t] # None => Facts(t, req[t], pc[t])'
    BY <1>2, <1>3, <1>4 DEF Moved, Facts
  <2> QED
    BY <1>2, <1>3, <2>1, FactsKeep DEF Moved
<1>8. Agree' /\ Drawn'
  <2>1. Mentioned' \subseteq Mentioned
    BY <1>2, <1>3 DEF Moved, Mentioned
  <2> QED
    BY <1>2, <1>3, <2>1 DEF Moved, RInv, Agree, Drawn, Older
<1>9. Unique' /\ Shapes'
  BY <1>2 DEF RInv, Unique, Shapes
<1>10. \A k : HasRecord(k)' <=> HasRecord(k)
  BY <1>2 DEF HasRecord
<1>11. Undisturbed'
  <2>1. t \notin disturbed => Progress(t)'
    <3>1. t \notin disturbed => described[c.subject] = t
      BY <1>1, <1>2, <1>3 DEF Moved, RInv, Undisturbed, Progress
    <3> QED
      BY <1>2, <1>3, <1>4, <1>5, <3>1 DEF Moved, Progress, Stands
  <2>2. ASSUME NEW x \in Requests \ {t}, req'[x] # None, x \notin disturbed'
        PROVE  Progress(x)'
    <3>1. PICK d : d = req[x]
      OBVIOUS
    <3>2. pc'[x] = pc[x] /\ req'[x] = req[x] /\ x \notin disturbed /\ d # None /\ ~SameTarget(d, c)
      BY <1>2, <1>3, <2>2, <3>1 DEF Moved, Others
    <3>3. Facts(x, d, pc[x])
      BY <3>1, <3>2 DEF RInv, AllFacts
    <3>4. d.op = "describe" => d.subject # c.subject /\ d.subject \in Repos
      BY <1>4, <3>2, <3>3 DEF Facts, SameTarget
    <3>5. Rows(d.table, d.user, d.subject)' = Rows(d.table, d.user, d.subject)
      BY <1>2 DEF Rows
    <3> QED
      BY <1>2, <1>5, <1>10, <3>1, <3>2, <3>4, <3>5, ProgressKeeps
  <2> QED
    BY <1>2, <2>1, <2>2 DEF Undisturbed
<1>12. NoGhost'
  BY <1>2, <1>3, <1>10 DEF Moved, RInv, NoGhost, Others
<1>13. FollowsArrive'
  BY <1>2, ArriveKeeps
<1> QED
  BY <1>3, <1>6, <1>7, <1>8, <1>9, <1>11, <1>12, <1>13 DEF Moved, RInv

LEMMA FailsInv ==
    ASSUME RInv, NEW t \in Requests, Fails(t)
    PROVE  RInv'
<1>1. /\ pc[t] \in InFlight \ {"delete"} /\ Fail(t)
      /\ UNCHANGED <<rows, described, records, repoRecs, firehose, pos, failures>>
      /\ UNCHANGED <<disturbed, excused, dropped, unfollowed, drawn>>
  BY DEF Fails, InFlight, tables, pds, cursor, history
<1>2. Moved(t, req[t], "answered") /\ pc'[t] = "failed" /\ req'[t] = None
  <2>1. Moved(t, req[t], "answered")
    BY <1>1, StepFacts
  <2> QED
    BY <1>1, <2>1 DEF Fail, RInv, TypeOK
<1>3. TypeOK'
  BY <1>1, <1>2 DEF Moved, Control, RInv, TypeOK
<1>4. AllFacts'
  BY <1>1, <1>2, FactsKeep DEF Moved
<1>5. Agree' /\ Drawn'
  <2>1. Mentioned' \subseteq Mentioned
    BY <1>1, <1>2 DEF Moved, Mentioned
  <2> QED
    BY <1>1, <1>2, <2>1 DEF Moved, RInv, Agree, Drawn, Older
<1>6. Unique' /\ Shapes' /\ NoGhost'
  BY <1>1, <1>2, QuietKeeps DEF Moved
<1>7. Undisturbed'
  BY <1>1, <1>2, QuietKeeps DEF Moved, Undisturbed
<1>8. FollowsArrive'
  BY <1>1, ArriveKeeps
<1> QED
  BY <1>2, <1>3, <1>4, <1>5, <1>6, <1>7, <1>8 DEF Moved, RInv

-----------------------------------------------------------------------------
(* Other clients, and the firehose.                                         *)

\* Nothing of the handlers changes, but that more of them may be disturbed.
LEMMA OutsideKeeps ==
    ASSUME RInv, UNCHANGED <<pc, req, unfollowed>>, disturbed \subseteq disturbed'
    PROVE  /\ AllFacts' /\ Alone' /\ Older
           /\ \A x \in Requests : Holds(x)' => RecordOf(x, req'[x]) \in Mentioned
BY DEF RInv, AllFacts, Facts, Alone, Older, Holds, Mentioned

LEMMA ElsewhereFollowInv ==
    ASSUME RInv, NEW u \in Users, NEW s \in Dids, NEW key \in Foreign, ElsewhereFollow(u, s, key)
    PROVE  RInv'
<1>1. PICK m : m = [table |-> "follow", user |-> u, subject |-> s, rkey |-> key]
  OBVIOUS
<1>2. /\ key \notin drawn /\ drawn' = drawn \cup {key} /\ records' = records \cup {m}
      /\ Sent("create", m.table, m.user, m.subject, m.rkey)
      /\ disturbed' = disturbed \cup {o \in Requests : About(o, "follow", u, s)}
      /\ UNCHANGED <<rows, described, repoRecs, pos, failures, pc, req, excused, dropped, unfollowed>>
  BY <1>1 DEF ElsewhereFollow, tables, cursor
<1>3. m \in Record /\ m.subject \in Dids /\ m.table = "follow" /\ m.rkey = key
  BY <1>1 DEF Record, Tables, Rkeys
<1>4. /\ firehose' \in Seq(Event) /\ Len(firehose') = Len(firehose) + 1
      /\ \A i \in 1 .. Len(firehose) : firehose'[i] = firehose[i]
      /\ \A i \in 1 .. Len(firehose') : FollowOf(firehose'[i]) \in Mentioned \cup {m}
      /\ firehose'[Len(firehose')].op = "create"
      /\ firehose'[Len(firehose')].rkey = key
  BY <1>2, <1>3, FirehoseGrows
<1>5. \A n \in Mentioned : n.rkey # key
  BY <1>2, KeyAssumption DEF RInv, Drawn
<1>6. AllFacts' /\ Alone' /\ Older /\ \A x \in Requests : Holds(x)' => RecordOf(x, req'[x]) \in Mentioned
  BY <1>2, OutsideKeeps
<1>7. TypeOK'
  <2>1. pos' \in 0 .. Len(firehose')
    BY <1>2, <1>4 DEF RInv, TypeOK
  <2> QED
    BY <1>2, <1>3, <1>4, <2>1 DEF RInv, TypeOK
<1>8. Agree' /\ Drawn'
  <2>1. records' \subseteq Mentioned \cup {m} /\ \A r \in rows' : r.rkey # None => r \in Mentioned
    BY <1>2 DEF Mentioned
  <2> QED
    BY <1>2, <1>3, <1>4, <1>5, <1>6, <2>1, AgreeKeeps
<1>9. Unique' /\ Shapes'
  BY <1>2, <1>3 DEF RInv, Unique, Shapes
<1>10. \A k : HasRecord(k)' <=> HasRecord(k) \/ k = key
  BY <1>2, <1>3 DEF HasRecord
<1>11. Undisturbed'
  <2> SUFFICES ASSUME NEW x \in Requests, req'[x] # None, x \notin disturbed'
               PROVE  Progress(x)'
    BY DEF Undisturbed
  <2>1. PICK d : d = req[x]
    OBVIOUS
  <2>2. d.op = "delete" => d.found # key
    <3>1. d.op = "delete" => RecordOf(x, d) \in Mentioned /\ RecordOf(x, d).rkey = d.found
      BY <1>2, <2>1 DEF Mentioned, Holds, RecordOf
    <3> QED
      BY <1>5, <3>1
  <2>3. Rows(d.table, d.user, d.subject)' = Rows(d.table, d.user, d.subject)
    BY <1>2 DEF Rows
  <2> QED
    BY <1>2, <1>10, <2>1, <2>2, <2>3, ProgressKeeps
<1>12. NoGhost'
  BY <1>2, <1>10 DEF RInv, NoGhost
<1>13. FollowsArrive'
  <2> SUFFICES ASSUME NEW r \in records', r.table = "follow", r.user # r.subject
               PROVE  \/ Rows("follow", r.user, r.subject)' # {}
                      \/ \E i \in pos' + 1 .. Len(firehose') :
                            firehose'[i].op = "create" /\ firehose'[i].rkey = r.rkey
                      \/ <<r.user, r.subject>> \in unfollowed'
                      \/ r.rkey \in dropped'
    BY DEF FollowsArrive, Rows
  <2>1. pos \in Nat /\ Len(firehose) \in Nat /\ pos <= Len(firehose)
    BY DEF RInv, TypeOK
  <2>2. CASE r \in records
    <3>1. \A i \in pos + 1 .. Len(firehose) : i \in pos' + 1 .. Len(firehose') /\ firehose'[i] = firehose[i]
      BY <1>2, <1>4, <2>1
    <3> QED
      BY <1>2, <2>2, <3>1 DEF RInv, FollowsArrive, Rows
  <2>3. CASE r = m
    <3>1. Len(firehose') \in pos' + 1 .. Len(firehose')
      BY <1>2, <1>4, <2>1
    <3> QED
      BY <1>3, <1>4, <2>3, <3>1
  <2> QED
    BY <1>2, <2>2, <2>3
<1> QED
  BY <1>6, <1>7, <1>8, <1>9, <1>11, <1>12, <1>13 DEF RInv

LEMMA ElsewhereDeleteInv ==
    ASSUME RInv, NEW m \in records, m.table = "follow", ElsewhereDelete(m)
    PROVE  RInv'
<1>1. /\ records' = records \ {m}
      /\ Sent("delete", m.table, m.user, m.subject, m.rkey)
      /\ disturbed' = disturbed \cup {o \in Requests : About(o, m.table, m.user, m.subject)}
      /\ excused' = excused \cup {m.rkey}
      /\ UNCHANGED <<rows, described, repoRecs, pos, failures, pc, req, dropped, unfollowed, drawn>>
  BY DEF ElsewhereDelete, tables, cursor
<1>2. m \in Record /\ m.subject \in Dids /\ m \in Mentioned /\ m.rkey \in Rkeys
  BY DEF RInv, TypeOK, Shapes, Mentioned, Record
<1>3. /\ firehose' \in Seq(Event) /\ Len(firehose') >= Len(firehose)
      /\ \A i \in 1 .. Len(firehose) : firehose'[i] = firehose[i]
      /\ \A i \in 1 .. Len(firehose') : FollowOf(firehose'[i]) \in Mentioned
  BY <1>1, <1>2, FirehoseGrows
<1>4. AllFacts' /\ Alone' /\ Older /\ \A x \in Requests : Holds(x)' => RecordOf(x, req'[x]) \in Mentioned
  BY <1>1, OutsideKeeps
<1>5. TypeOK'
  <2>1. pos' \in 0 .. Len(firehose')
    BY <1>1, <1>3 DEF RInv, TypeOK
  <2> QED
    BY <1>1, <1>2, <1>3, <2>1 DEF RInv, TypeOK
<1>6. Agree' /\ Drawn'
  <2>1. records' \subseteq Mentioned /\ \A r \in rows' : r.rkey # None => r \in Mentioned
    BY <1>1 DEF Mentioned
  <2> QED
    BY <1>1, <1>2, <1>3, <1>4, <2>1, AgreeKeeps
<1>7. Unique' /\ Shapes'
  BY <1>1 DEF RInv, Unique, Shapes
<1>8. /\ \A k : HasRecord(k)' => HasRecord(k)
      /\ \A k : HasRecord(k) => HasRecord(k)' \/ k = m.rkey
  BY <1>1 DEF HasRecord
<1>9. Undisturbed'
  <2> SUFFICES ASSUME NEW x \in Requests, req'[x] # None, x \notin disturbed'
               PROVE  Progress(x)'
    BY DEF Undisturbed
  <2>1. PICK d : d = req[x]
    OBVIOUS
  <2>2. ~SameTarget(d, m) /\ d # None /\ x \notin disturbed
    BY <1>1, <2>1 DEF About, SameTarget
  <2>3. d.op = "put" => x # m.rkey
    BY <1>2, <2>1, <2>2, KeyTarget
  <2>4. Rows(d.table, d.user, d.subject)' = Rows(d.table, d.user, d.subject)
    BY <1>1 DEF Rows
  <2> QED
    BY <1>1, <1>8, <2>1, <2>2, <2>3, <2>4, ProgressKeeps
<1>10. NoGhost'
  BY <1>1, <1>8 DEF RInv, NoGhost
<1>11. FollowsArrive'
  <2>1. \A i \in pos + 1 .. Len(firehose) : i \in pos' + 1 .. Len(firehose') /\ firehose'[i] = firehose[i]
    BY <1>1, <1>3 DEF RInv, TypeOK
  <2> QED
    BY <1>1, <2>1 DEF RInv, FollowsArrive, Rows
<1> QED
  BY <1>4, <1>5, <1>6, <1>7, <1>9, <1>10, <1>11 DEF RInv

\* An event comes: its creation is stored when nobody is followed by himself and
\* there is no row yet.
LEMMA DeliverInv ==
    ASSUME RInv, Deliver
    PROVE  RInv'
<1>1. PICK stored \in BOOLEAN, kept \in BOOLEAN :
        /\ Ingest(firehose[pos + 1], stored)
        /\ IF kept THEN firehose' = SubSeq(firehose, pos + 2, Len(firehose)) /\ pos' = 0
                   ELSE pos' = pos + 1 /\ UNCHANGED firehose
        /\ failures' = failures + (IF stored THEN 0 ELSE 1) + (IF kept THEN 0 ELSE 1)
  BY DEF Deliver
<1>2. /\ pos < Len(firehose) /\ failures' <= MaxFailures
      /\ UNCHANGED <<described, records, repoRecs, pc, req, disturbed, unfollowed, drawn>>
  BY DEF Deliver
<1>3. PICK e : e = firehose[pos + 1]
  OBVIOUS
<1>4. PICK m : m = FollowOf(e)
  OBVIOUS
<1>5. /\ pos \in Nat /\ Len(firehose) \in Nat /\ firehose \in Seq(Event)
      /\ pos + 1 \in 1 .. Len(firehose)
  BY <1>2 DEF RInv, TypeOK
<1>6. /\ e \in Event /\ m \in Mentioned /\ m \in Row
      /\ m.table = "follow" /\ m.rkey = e.rkey /\ m.rkey \in Rkeys /\ m.rkey # None
      /\ m = [table |-> "follow", user |-> e.user, subject |-> e.subject, rkey |-> e.rkey]
  <2>1. e \in Event /\ m \in Mentioned
    BY <1>3, <1>4, <1>5 DEF Mentioned
  <2>2. m = [table |-> "follow", user |-> e.user, subject |-> e.subject, rkey |-> e.rkey]
    BY <1>4 DEF FollowOf
  <2> QED
    BY <2>1, <2>2, KeyAssumption DEF Event, Row, Tables, Rkeys
<1>7. /\ rows' = rows \/ (/\ rows' = rows \cup {m} /\ Rows("follow", m.user, m.subject) = {}
                          /\ HasRecord(m.rkey) \/ m.rkey \in excused')
      /\ excused \subseteq excused' /\ excused' \subseteq Rkeys
      /\ dropped \subseteq dropped' /\ dropped' \subseteq Rkeys
      /\ \/ e.op # "create" \/ m.rkey \in dropped' \/ m.user = m.subject
         \/ Rows("follow", m.user, m.subject)' # {}
  <2>1. excused \cup dropped \subseteq Rkeys
    BY DEF RInv, TypeOK
  <2>2. CASE e.op = "delete"
    BY <1>1, <1>3, <2>1, <2>2 DEF Ingest
  <2>3. CASE e.op = "create" /\ stored
    BY <1>1, <1>3, <1>6, <2>1, <2>3 DEF Ingest, Insert, Rows
  <2>4. CASE e.op = "create" /\ ~stored
    BY <1>1, <1>3, <1>6, <2>1, <2>4 DEF Ingest
  <2> QED
    BY <1>6, <2>2, <2>3, <2>4 DEF Event
<1>8. /\ firehose' \in Seq(Event) /\ pos' \in 0 .. Len(firehose')
      /\ \A i \in 1 .. Len(firehose') : \E j \in 1 .. Len(firehose) : firehose'[i] = firehose[j]
      /\ \A j \in pos + 2 .. Len(firehose) : \E i \in pos' + 1 .. Len(firehose') : firehose'[i] = firehose[j]
  <2>1. CASE kept
    <3>1. /\ firehose' = SubSeq(firehose, pos + 2, Len(firehose)) /\ pos' = 0
          /\ firehose' \in Seq(Event) /\ Len(firehose') = Len(firehose) - (pos + 1)
          /\ \A i \in 1 .. Len(firehose) - (pos + 1) : firehose'[i] = firehose[i + (pos + 1)]
      <4>1. PICK n : n = pos + 2
        OBVIOUS
      <4>2. /\ firehose' = SubSeq(firehose, n, Len(firehose)) /\ pos' = 0
            /\ n \in Int /\ Len(firehose) \in Int /\ n <= Len(firehose) + 1
            /\ \A i \in n .. Len(firehose) : firehose[i] \in Event
        BY <1>1, <1>5, <2>1, <4>1
      <4>3. /\ firehose' \in Seq(Event)
            /\ Len(firehose') = IF n <= Len(firehose) THEN Len(firehose) - n + 1 ELSE 0
            /\ \A i \in 1 .. Len(firehose) - n + 1 : firehose'[i] = firehose[n + i - 1]
        BY <4>2, SubSeqProperties
      <4>4. \A i \in 1 .. Len(firehose) - (pos + 1) : i \in 1 .. Len(firehose) - n + 1 /\ n + i - 1 = i + (pos + 1)
        BY <1>5, <4>1
      <4> QED
        BY <1>1, <1>5, <2>1, <4>1, <4>2, <4>3, <4>4
    <3>2. \A i \in 1 .. Len(firehose') : i + (pos + 1) \in 1 .. Len(firehose)
      BY <1>5, <3>1
    <3>3. ASSUME NEW j \in pos + 2 .. Len(firehose)
          PROVE  j - (pos + 1) \in pos' + 1 .. Len(firehose') /\ firehose'[j - (pos + 1)] = firehose[j]
      BY <1>5, <3>1
    <3>4. pos' \in 0 .. Len(firehose')
      BY <1>5, <3>1
    <3> QED
      BY <1>5, <3>1, <3>2, <3>3, <3>4
  <2>2. CASE ~kept
    <3>1. firehose' = firehose /\ pos' = pos + 1
      BY <1>1, <2>2
    <3> QED
      BY <1>5, <3>1
  <2> QED
    BY <2>1, <2>2
<1>9. AllFacts' /\ Alone' /\ Older /\ \A x \in Requests : Holds(x)' => RecordOf(x, req'[x]) \in Mentioned
  BY <1>2, OutsideKeeps
<1>10. TypeOK'
  <2>1. failures' \in 0 .. MaxFailures
    BY <1>1, <1>2, BoundAssumption DEF RInv, TypeOK
  <2> QED
    BY <1>2, <1>6, <1>7, <1>8, <2>1 DEF RInv, TypeOK
<1>11. Agree' /\ Drawn'
  <2>1. records' \subseteq Mentioned /\ \A r \in rows' : r.rkey # None => r \in Mentioned
    BY <1>2, <1>6, <1>7 DEF Mentioned
  <2>2. \A i \in 1 .. Len(firehose') : FollowOf(firehose'[i]) \in Mentioned
    BY <1>8 DEF Mentioned
  <2> QED
    BY <1>2, <1>6, <1>9, <2>1, <2>2, AgreeKeeps
<1>12. Unique' /\ Shapes'
  BY <1>2, <1>6, <1>7 DEF RInv, Unique, Shapes, Rows
<1>13. \A k : HasRecord(k)' <=> HasRecord(k)
  BY <1>2 DEF HasRecord
<1>14. Undisturbed'
  <2> SUFFICES ASSUME NEW x \in Requests, req'[x] # None, x \notin disturbed'
               PROVE  Progress(x)'
    BY DEF Undisturbed
  <2>1. PICK d : d = req[x]
    OBVIOUS
  <2>2. /\ Progress(x) /\ Facts(x, d, pc[x]) /\ d \in Call /\ req'[x] = d /\ pc'[x] = pc[x]
        /\ x \notin disturbed /\ d # None
    BY <1>2, <2>1 DEF RInv, Undisturbed, AllFacts, TypeOK
  <2>3. CASE rows' = rows \/ ~SameTarget(d, m)
    <3>1. Rows(d.table, d.user, d.subject)' = Rows(d.table, d.user, d.subject)
      BY <1>7, <2>3 DEF Rows, SameTarget
    <3> QED
      BY <1>2, <1>7, <1>13, <2>1, <2>2, <3>1, ProgressKeeps
  <2>4. CASE rows' # rows /\ SameTarget(d, m)
    <3>1. /\ d.table = "follow" /\ d.user = m.user /\ d.subject = m.subject
          /\ d.op # "describe"
          /\ Rows(d.table, d.user, d.subject)' = Rows(d.table, d.user, d.subject) \cup {m}
      BY <1>6, <1>7, <2>2, <2>4 DEF Rows, SameTarget, Facts
    <3>2. ~HasRecord(d.found) /\ m.rkey = d.found => m.rkey \in excused'
      BY <1>7, <2>4
    <3>3. CASE d.op = "put"
      BY <1>13, <2>1, <2>2, <3>1, <3>3 DEF Progress, Stands, Facts
    <3>4. CASE d.op = "delete"
      <4>1. pc[x] \in {"remove", "delete"} \/ pc[x] = "answered" \/ pc[x] \notin InFlight \cup {"answered"}
        BY <2>2, <3>4 DEF Facts, InFlight
      <4>2. pc[x] = "answered" => Stands(x)'
        BY <1>7, <1>13, <2>1, <2>2, <3>1, <3>2, <3>4 DEF Progress, Stands
      <4> QED
        BY <1>13, <2>1, <2>2, <3>1, <3>4, <4>2 DEF Progress, Facts
    <3> QED
      BY <2>2, <3>1, <3>3, <3>4 DEF Call
  <2> QED
    BY <1>7, <2>3, <2>4
<1>15. NoGhost'
  BY <1>2, <1>7, <1>13 DEF RInv, NoGhost
<1>16. FollowsArrive'
  <2> SUFFICES ASSUME NEW r \in records', r.table = "follow", r.user # r.subject
               PROVE  \/ Rows("follow", r.user, r.subject)' # {}
                      \/ \E i \in pos' + 1 .. Len(firehose') :
                            firehose'[i].op = "create" /\ firehose'[i].rkey = r.rkey
                      \/ <<r.user, r.subject>> \in unfollowed'
                      \/ r.rkey \in dropped'
    BY DEF FollowsArrive, Rows
  <2>1. Rows("follow", r.user, r.subject) \subseteq Rows("follow", r.user, r.subject)'
    BY <1>7 DEF Rows
  <2>2. CASE \E j \in pos + 1 .. Len(firehose) : firehose[j].op = "create" /\ firehose[j].rkey = r.rkey
    <3>1. PICK j \in pos + 1 .. Len(firehose) : firehose[j].op = "create" /\ firehose[j].rkey = r.rkey
      BY <2>2
    <3>2. CASE j = pos + 1
      <4>1. r \in Mentioned /\ r.rkey = m.rkey /\ e.op = "create"
        BY <1>2, <1>3, <1>6, <3>1, <3>2 DEF Mentioned
      <4>2. r = m
        BY <1>6, <4>1 DEF RInv, Agree
      <4> QED
        BY <1>7, <4>1, <4>2
    <3>3. CASE j # pos + 1
      <4>1. j \in pos + 2 .. Len(firehose)
        BY <1>5, <3>3
      <4> QED
        BY <1>8, <3>1, <4>1
    <3> QED
      BY <3>2, <3>3
  <2>3. CASE Rows("follow", r.user, r.subject) # {} \/ <<r.user, r.subject>> \in unfollowed \/ r.rkey \in dropped
    BY <1>2, <1>7, <2>1, <2>3
  <2> QED
    BY <1>2, <2>2, <2>3 DEF RInv, FollowsArrive
<1> QED
  BY <1>9, <1>10, <1>11, <1>12, <1>14, <1>15, <1>16 DEF RInv

LEMMA ReconnectInv ==
    ASSUME RInv, Reconnect
    PROVE  RInv'
<1>1. /\ UNCHANGED <<rows, described, records, repoRecs, pc, req>>
      /\ UNCHANGED <<disturbed, excused, unfollowed, drawn>>
  BY DEF Reconnect, tables
<1>2. /\ pos \in Nat /\ Len(firehose) \in Nat /\ firehose \in Seq(Event)
      /\ pos <= Len(firehose) /\ dropped \subseteq Rkeys
      /\ failures \in 0 .. MaxFailures /\ MaxFailures \in Nat
  BY BoundAssumption DEF RInv, TypeOK
<1>3. /\ firehose' \in {firehose, <<>>}
      /\ pos' \in 0 .. Len(firehose')
      /\ failures' \in 0 .. MaxFailures
      /\ dropped \subseteq dropped' /\ dropped' \subseteq Rkeys
      /\ \A i \in pos + 1 .. Len(firehose) : firehose[i].op = "create" =>
            \/ firehose' = firehose /\ i \in pos' + 1 .. Len(firehose')
            \/ firehose[i].rkey \in dropped'
  <2>1. CASE FromCursor
    BY <1>2, <2>1 DEF FromCursor
  <2>2. CASE FromNow
    <3>1. PICK left : left = {i \in pos + 1 .. Len(firehose) : firehose[i].op = "create"}
      OBVIOUS
    <3>2. /\ dropped' = dropped \cup {firehose[i].rkey : i \in left}
          /\ failures < MaxFailures /\ failures' = failures + 1
          /\ \/ firehose' = <<>> /\ pos' = 0
             \/ firehose' = firehose /\ pos' = Len(firehose)
      BY <2>2, <3>1 DEF FromNow
    <3>3. \A i \in left : firehose[i].rkey \in Rkeys
      <4>1. \A i \in left : i \in 1 .. Len(firehose)
        BY <1>2, <3>1
      <4>2. \A i \in left : firehose[i] \in Event
        BY <1>2, <4>1
      <4>3. \A e \in Event : e.rkey \in Rkeys
        BY DEF Event
      <4> QED
        BY <4>2, <4>3
    <3>4. \A i \in pos + 1 .. Len(firehose) : firehose[i].op = "create" => firehose[i].rkey \in dropped'
      BY <3>1, <3>2
    <3>5. dropped \subseteq dropped' /\ dropped' \subseteq Rkeys
      BY <1>2, <3>2, <3>3
    <3>6. pos' \in 0 .. Len(firehose')
      BY <1>2, <3>2
    <3> QED
      BY <1>2, <3>2, <3>4, <3>5, <3>6
  <2> QED
    BY <2>1, <2>2 DEF Reconnect
<1>4. TypeOK'
  <2>1. firehose' \in Seq(Event)
    <3>1. <<>> \in Seq(Event)
      OBVIOUS
    <3> QED
      BY <1>2, <1>3, <3>1, Zenon
  <2>2. excused' \cup dropped' \subseteq Rkeys
    BY <1>1, <1>3 DEF RInv, TypeOK
  <2> QED
    BY <1>1, <1>3, <2>1, <2>2 DEF RInv, TypeOK
<1>5. AllFacts' /\ Alone' /\ Unique' /\ Shapes' /\ NoGhost'
  BY <1>1 DEF RInv, AllFacts, Facts, Alone, Unique, Shapes, NoGhost, HasRecord
<1>6. Mentioned' \subseteq Mentioned
  <2>1. CASE firehose' = firehose
    BY <1>1, <2>1 DEF Mentioned, Holds
  <2>2. CASE firehose' = <<>>
    <3>1. {FollowOf(firehose'[i]) : i \in 1 .. Len(firehose')} = {}
      BY <2>2
    <3> QED
      BY <1>1, <3>1 DEF Mentioned, Holds
  <2> QED
    BY <1>3, <2>1, <2>2
<1>7. Agree' /\ Drawn'
  BY <1>1, <1>6 DEF RInv, Agree, Drawn
<1>8. Undisturbed'
  BY <1>1 DEF RInv, Undisturbed, Progress, Stands, HasRecord, Rows
<1>9. FollowsArrive'
  BY <1>1, <1>3 DEF RInv, FollowsArrive, Rows
<1> QED
  BY <1>4, <1>5, <1>7, <1>8, <1>9 DEF RInv

LEMMA CrashInv ==
    ASSUME RInv, Crash
    PROVE  RInv'
<1>1. PICK dying : dying = {t \in Requests : pc[t] \in InFlight}
  OBVIOUS
<1>2. /\ pc' = [t \in Requests |-> IF t \in dying THEN "failed" ELSE pc[t]]
      /\ req' = [t \in Requests |-> IF t \in dying THEN None ELSE req[t]]
      /\ pos' = 0
      /\ excused' = excused \cup {req[t].found : t \in {u \in dying : pc[u] = "delete"}}
      /\ UNCHANGED <<rows, described, records, repoRecs, firehose, failures>>
      /\ UNCHANGED <<disturbed, dropped, unfollowed, drawn>>
  BY <1>1 DEF Crash, tables, pds
<1>3. \A t \in Requests : pc[t] = "delete" => t \in dying
  BY <1>1 DEF InFlight
<1>4. /\ \A t \in dying : req[t] # None /\ pc'[t] = "failed" /\ req'[t] = None
      /\ \A t \in Requests \ dying : pc'[t] = pc[t] /\ req'[t] = req[t] /\ pc[t] \notin InFlight
  BY <1>1, <1>2 DEF RInv, TypeOK, InFlight
<1>5. \A t \in Requests : pc[t] = "delete" => req[t].found \in Rkeys /\ req[t].found \in excused'
  BY <1>2, <1>3, <1>4 DEF RInv, TypeOK, Call
<1>6. TypeOK'
  <2>1. excused' \subseteq Rkeys
    BY <1>1, <1>2, <1>5 DEF RInv, TypeOK
  <2>2. /\ pc' \in [Requests -> {"new"} \cup InFlight \cup Ended]
        /\ req' \in [Requests -> Call \cup {None}]
    BY <1>2 DEF RInv, TypeOK, Ended
  <2>3. pos' \in 0 .. Len(firehose')
    BY <1>2 DEF RInv, TypeOK
  <2>4. /\ \A t \in Requests : req'[t] = None <=> pc'[t] \in {"new", "failed"}
        /\ \A t \in Requests : pc'[t] \in {"remove", "delete"} => req'[t].found # None
    BY <1>4 DEF RInv, TypeOK
  <2> QED
    BY <1>2, <2>1, <2>2, <2>3, <2>4 DEF RInv, TypeOK
<1>7. AllFacts' /\ Alone'
  BY <1>2, <1>4 DEF RInv, AllFacts, Facts, Alone
<1>8. Mentioned' \subseteq Mentioned
  BY <1>2, <1>4 DEF Mentioned, Holds
<1>9. Agree' /\ Drawn'
  BY <1>2, <1>4, <1>8 DEF RInv, Agree, Drawn
<1>10. Unique' /\ Shapes'
  BY <1>2 DEF RInv, Unique, Shapes
<1>11. Undisturbed'
  <2> SUFFICES ASSUME NEW x \in Requests, req'[x] # None, x \notin disturbed'
               PROVE  Progress(x)'
    BY DEF Undisturbed
  <2>1. x \notin dying /\ pc'[x] = pc[x] /\ req'[x] = req[x] /\ x \notin disturbed
    BY <1>2, <1>4
  <2>2. PICK d : d = req[x]
    OBVIOUS
  <2> QED
    BY <1>2, <2>1, <2>2, ProgressKeeps DEF HasRecord, Rows
<1>12. NoGhost'
  BY <1>2, <1>5 DEF RInv, NoGhost, HasRecord
<1>13. FollowsArrive'
  <2>1. \A i \in pos + 1 .. Len(firehose) : i \in pos' + 1 .. Len(firehose')
    BY <1>2 DEF RInv, TypeOK
  <2> QED
    BY <1>2, <2>1 DEF RInv, FollowsArrive, Rows
<1> QED
  BY <1>6, <1>7, <1>9, <1>10, <1>11, <1>12, <1>13 DEF RInv

LEMMA RInvStutters == ASSUME RInv, UNCHANGED vars PROVE RInv'
<1>1. /\ UNCHANGED <<rows, described, records, repoRecs, firehose, pos, failures, pc, req>>
      /\ UNCHANGED <<disturbed, excused, dropped, unfollowed, drawn>>
  BY DEF vars, tables, pds, cursor, history
<1>2. TypeOK' /\ AllFacts' /\ Alone' /\ Unique' /\ Shapes' /\ NoGhost'
  BY <1>1 DEF RInv, TypeOK, AllFacts, Facts, Alone, Unique, Shapes, NoGhost, HasRecord
<1>3. Mentioned' = Mentioned
  BY <1>1 DEF Mentioned, Holds
<1>4. Agree' /\ Drawn'
  BY <1>1, <1>3 DEF RInv, Agree, Drawn
<1>5. Undisturbed' /\ FollowsArrive'
  BY <1>1 DEF RInv, Undisturbed, Progress, Stands, HasRecord, Rows, FollowsArrive
<1> QED
  BY <1>2, <1>4, <1>5 DEF RInv

-----------------------------------------------------------------------------
LEMMA RInvInit == Init => RInv
<1> SUFFICES ASSUME Init PROVE RInv
  OBVIOUS
<1>1. \A t \in Requests : pc[t] = "new" /\ req[t] = None
  BY DEF Init
<1>2. TypeOK
  <2>1. /\ described \in [Repos -> Requests \cup {None}] /\ repoRecs \in [Repos -> Requests \cup {None}]
        /\ pc \in [Requests -> {"new"} \cup InFlight \cup Ended]
        /\ req \in [Requests -> Call \cup {None}]
    BY DEF Init
  <2>2. firehose \in Seq(Event) /\ pos \in 0 .. Len(firehose) /\ failures \in 0 .. MaxFailures
    BY BoundAssumption DEF Init
  <2> QED
    BY <1>1, <2>1, <2>2 DEF Init, TypeOK
<1>3. Mentioned = {}
  BY <1>1 DEF Init, Mentioned, Holds
<1>4. AllFacts /\ Agree /\ Drawn /\ Alone /\ Undisturbed
  BY <1>1, <1>3 DEF AllFacts, Agree, Drawn, Alone, Undisturbed
<1>5. Unique /\ Shapes /\ NoGhost /\ FollowsArrive
  BY DEF Init, Unique, Shapes, NoGhost, FollowsArrive
<1> QED
  BY <1>2, <1>4, <1>5 DEF RInv

LEMMA ArrivalInv ==
    ASSUME RInv, NEW t \in Requests, Arrival(t)
    PROVE  RInv'
<1>1. PICK u \in Users :
        \/ \E s \in Dids : Follow(t, u, s) \/ Unfollow(t, u, s)
        \/ \E r \in Repos : Star(t, u, r) \/ Unstar(t, u, r) \/ UpdateDescription(t, u, r)
        \/ \E k \in Keys : SettingsKeys(t, u, k)
  BY DEF Arrival
<1>2. ASSUME NEW s \in Dids, Follow(t, u, s) \/ Unfollow(t, u, s) PROVE RInv'
  BY <1>2, PostInv, FindRowInv DEF Follow, Unfollow
<1>3. ASSUME NEW r \in Repos, Star(t, u, r) \/ Unstar(t, u, r) \/ UpdateDescription(t, u, r) PROVE RInv'
  BY <1>3, PostInv, FindRowInv, UpdateDescriptionInv DEF Star, Unstar
<1> QED
  BY <1>1, <1>2, <1>3, SettingsKeysInv

LEMMA RInvNext == RInv /\ [Next]_vars => RInv'
BY ArrivalInv, PutRecordInv, AddRowInv, DeleteRecordInv, DeleteRowInv, PutKeyInv, GetRecordInv,
   SwapRecordInv, FailsInv, ElsewhereFollowInv, ElsewhereDeleteInv, DeliverInv, ReconnectInv,
   CrashInv, RInvStutters
   DEF Next, Elsewhere, Served

LEMMA RInvAlways == Spec => []RInv
BY RInvInit, RInvNext, PTL DEF Spec

\* The tables, the records and the handlers have their types.
THEOREM TypeCorrect == Spec => []TypeOK
<1>1. RInv => TypeOK
  BY DEF RInv
<1> QED
  BY <1>1, RInvAlways, PTL

\* A row without a record is excused, or about to be deleted (NoGhost).
THEOREM GhostsExcused == Spec => []NoGhost
<1>1. RInv => NoGhost
  BY DEF RInv
<1> QED
  BY <1>1, RInvAlways, PTL

\* What an answer told the user stays true while nobody is about the same thing
\* (AnswerStands).
THEOREM AnswersStand == Spec => []AnswerStands
<1>1. RInv => AnswerStands
  BY DEF RInv, TypeOK, Undisturbed, Progress, AnswerStands
<1> QED
  BY <1>1, RInvAlways, PTL

\* A follow made anywhere is in the table or on its way there, unless it was
\* unfollowed, its insert failed, or the cursor was given up (FollowsArrive).
THEOREM EveryFollowArrives == Spec => []FollowsArrive
<1>1. RInv => FollowsArrive
  BY DEF RInv
<1> QED
  BY <1>1, RInvAlways, PTL
=============================================================================
