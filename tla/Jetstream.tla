------------------------------ MODULE Jetstream ------------------------------
(***************************************************************************)
(* The Jetstream client both servers use (jetstream/jetstream.go), with    *)
(* its cursor (knotserver/db/jetstream.go, appview/db/jetstream.go) and    *)
(* what an event's handler does to it.                                     *)
(*                                                                         *)
(* One goroutine runs connectAndRead; the scheduler is sequential, so the  *)
(* events are handled by that goroutine too.  Other goroutines call AddDid *)
(* and UpdateDids.  The firehose is a sequence of events, and an event's   *)
(* time is its index in it.  ConnectAndRead of the library is external: it *)
(* asks for the DIDs wanted when it dials, delivers their events from the  *)
(* cursor on, and looks at its context only before it reads: once it waits *)
(* for an event, closing the context does not wake it.  When it returns no *)
(* error, connectAndRead waits until the context is done, and nobody need  *)
(* ever close it.  These two waits are Idle.                               *)
(***************************************************************************)
EXTENDS Naturals, Sequences, FiniteSetsExt

CONSTANTS
    Dids,
    Callers,       \* the goroutines that call UpdateDids
    Setup,         \* of these, the one that starts the server
    Window,        \* the age at which a cursor is discarded
    MaxEvents,     \* bound: events on the firehose
    MaxFailures,   \* bound: failures of the database and of connections
    MaxRestarts,   \* bound: deaths of the process
    None

ASSUME SetupAssumption == Setup \in Callers
ASSUME BoundsAssumption == {Window, MaxEvents, MaxFailures, MaxRestarts} \subseteq Nat

VARIABLES
    waitForDid,   \* TRUE for a knot, FALSE for the appview
    known,        \* known_dids of a knot
    row,          \* last_time_us of the table's first row, None without one
    wanted,       \* cfg.WantedDids
    calls,        \* each caller's UpdateDids: what is to be appended, and all of it
    pc,           \* the client's goroutine
    cancelled,    \* whether connCtx is done
    subs, pos,    \* the connection: its DIDs, the next event it looks at
    cur,          \* the event that is handled
    feed,         \* the DIDs of the events so far
    failures, restarts,
    updated,      \* history: DIDs whose UpdateDids has returned since the start
    delivered,    \* history: events whose handler did its work
    twice,        \* ... more than once
    unsaved,      \* history: events whose handler ended without a saved cursor
    jumped,       \* history: events that a reset of the cursor left out
    excused,      \* history: events of DIDs not known, or not in the open connection
    overtaken     \* history: events of others that a connection which was being
                  \* closed passed over

client == <<pc, cancelled, subs, pos, cur>>
history == <<updated, delivered, twice, unsaved, jumped, excused, overtaken>>
vars == <<waitForDid, known, row, wanted, calls, client, feed, failures, restarts, history>>

Call == [todo : SUBSET Dids, dids : SUBSET Dids]
Reading == {"check", "read", "handle", "save", "touch"}
Steps == Reading \cup {"waiting", "cursor", "register", "dial", "returned"}
Events == 1 .. MaxEvents

ASSUME NoneAssumption == None \notin Dids \cup Nat \cup Call

TypeOK ==
    /\ waitForDid \in BOOLEAN
    /\ known \subseteq Dids
    /\ row \in 1 .. MaxEvents + 1 \cup {None}
    /\ wanted \subseteq Dids
    /\ calls \in [Callers -> Call \cup {None}]
    /\ pc \in Steps
    /\ cancelled \in BOOLEAN
    /\ subs \subseteq Dids
    /\ pos \in 1 .. MaxEvents + 1
    /\ cur \in Events \cup {None}
    /\ cur # None <=> pc \in {"handle", "save", "touch"}
    /\ feed \in Seq(Dids) /\ Len(feed) <= MaxEvents
    /\ failures \in 0 .. MaxFailures
    /\ restarts \in 0 .. MaxRestarts
    /\ updated \subseteq wanted
    /\ UNION {delivered, twice, unsaved, jumped, excused, overtaken} \subseteq Events

\* mutant: the subscriptions are not repopulated
SetupCall_None(dids) == None

\* Setup gives the DIDs of the table, if there are any
SetupCall(dids) == IF dids = {} THEN None ELSE [todo |-> dids, dids |-> dids]

Started(dids) == [c \in Callers |-> IF c = Setup THEN SetupCall(dids) ELSE None]

Init ==
    /\ waitForDid \in BOOLEAN
    /\ known \in SUBSET Dids
    /\ ~waitForDid => known = {}
    /\ row = None
    /\ wanted = {}
    /\ calls = Started(known)
    /\ pc = "waiting"
    /\ cancelled = FALSE
    /\ subs = {}
    /\ pos = 1
    /\ cur = None
    /\ feed = <<>>
    /\ failures = 0
    /\ restarts = 0
    /\ updated = {} /\ delivered = {} /\ twice = {} /\ unsaved = {}
    /\ jumped = {} /\ excused = {} /\ overtaken = {}

Now == Len(feed) + 1

Connected == pc \in Reading

\* without a list of DIDs everybody's events are delivered
Carries(d) == d \in subs \/ subs = {}

Due == {i \in pos .. Len(feed) : Carries(feed[i])}

\* the bound on failures
Fails == failures < MaxFailures /\ failures' = failures + 1
Works == UNCHANGED failures

-----------------------------------------------------------------------------
(* The firehose, and its other end.                                         *)

Post(d) ==
    /\ Len(feed) < MaxEvents
    /\ feed' = Append(feed, d)
    /\ excused' = IF (waitForDid /\ d \notin known) \/ (Connected /\ ~Carries(d))
                  THEN excused \cup {Now} ELSE excused
    /\ UNCHANGED <<waitForDid, known, row, wanted, calls, client, failures, restarts,
                   updated, delivered, twice, unsaved, jumped, overtaken>>

-----------------------------------------------------------------------------
(* Other goroutines.  mu is held while DIDs are appended; the client's      *)
(* goroutine reads the list without it.                                     *)

MuFree == \A c \in Callers : calls[c] # None => calls[c].todo = {}

\* mutant: the open connection is taken to follow the list
AddDid_Live(d) ==
    /\ waitForDid
    /\ MuFree
    /\ d \notin known
    /\ known' = known \cup {d}
    /\ wanted' = wanted \cup {d}
    /\ subs' = IF Connected THEN subs \cup {d} ELSE subs
    /\ UNCHANGED <<waitForDid, row, calls, pc, cancelled, pos, cur, feed, failures, restarts,
                   history>>

\* known_dids, then the list; the open connection stays as it is
AddDid(d) ==
    /\ waitForDid
    /\ MuFree
    /\ d \notin known
    /\ known' = known \cup {d}
    /\ wanted' = wanted \cup {d}
    /\ UNCHANGED <<waitForDid, row, calls, client, feed, failures, restarts, history>>

\* bound: each DID is told to the client once
UpdateDids(c, d) ==
    /\ waitForDid
    /\ MuFree
    /\ c # Setup
    /\ calls[c] = None
    /\ d \notin known
    /\ known' = known \cup {d}
    /\ calls' = [calls EXCEPT ![c] = [todo |-> {d}, dids |-> {d}]]
    /\ UNCHANGED <<waitForDid, row, wanted, client, feed, failures, restarts, history>>

\* mutant: the check for the empty DID is inverted
UpdateAppend_Empty(c) ==
    /\ calls[c] # None
    /\ \E d \in calls[c].todo : calls' = [calls EXCEPT ![c].todo = @ \ {d}]
    /\ UNCHANGED <<waitForDid, known, row, wanted, client, feed, failures, restarts, history>>

UpdateAppend(c) ==
    /\ calls[c] # None
    /\ \E d \in calls[c].todo :
          /\ wanted' = wanted \cup {d}
          /\ calls' = [calls EXCEPT ![c].todo = @ \ {d}]
    /\ UNCHANGED <<waitForDid, known, row, client, feed, failures, restarts, history>>

\* mutant: the connection is not told
UpdateCancel_Missing(c) ==
    /\ calls[c] # None
    /\ calls[c].todo = {}
    /\ calls' = [calls EXCEPT ![c] = None]
    /\ updated' = updated \cup calls[c].dids
    /\ UNCHANGED <<waitForDid, known, row, wanted, client, feed, failures, restarts,
                   delivered, twice, unsaved, jumped, excused, overtaken>>

\* j.cancel belongs to the latest context that was registered; before the
\* first one it is nil
UpdateCancel(c) ==
    /\ calls[c] # None
    /\ calls[c].todo = {}
    /\ cancelled' = TRUE
    /\ calls' = [calls EXCEPT ![c] = None]
    /\ updated' = updated \cup calls[c].dids
    /\ UNCHANGED <<waitForDid, known, row, wanted, pc, subs, pos, cur, feed, failures,
                   restarts, delivered, twice, unsaved, jumped, excused, overtaken>>

-----------------------------------------------------------------------------
(* connectAndRead.                                                          *)

Wait ==
    /\ pc = "waiting"
    /\ waitForDid => wanted # {}
    /\ pc' = "cursor"
    /\ UNCHANGED <<waitForDid, known, row, wanted, calls, cancelled, subs, pos, cur,
                   feed, failures, restarts, history>>

StartFrom(time) ==
    /\ pc = "cursor"
    /\ pos' = time
    /\ pc' = "register"
    /\ UNCHANGED <<waitForDid, known, wanted, calls, cancelled, subs, cur, feed, restarts,
                   updated, delivered, twice, unsaved, excused, overtaken>>

Discard == jumped' = jumped \cup (1 .. Len(feed))

TooOld == Now - row > Window

\* mutant: a cursor that cannot be read is taken for zero
GetLastTimeUs_Zero ==
    \/ row # None /\ Works /\ StartFrom(row) /\ UNCHANGED <<row, jumped>>
    \/ row # None /\ Fails /\ StartFrom(1) /\ UNCHANGED <<row, jumped>>
    \/ row = None /\ Works /\ StartFrom(1) /\ row' = 1 /\ UNCHANGED jumped

\* A cursor that cannot be read, or is too old, is now.  SaveLastTimeUs inserts
\* the first row, or one that is never read.
GetLastTimeUs ==
    \/ /\ row # None /\ ~TooOld /\ Works
       /\ StartFrom(row)
       /\ UNCHANGED <<row, jumped>>
    \/ /\ row # None /\ TooOld
       /\ StartFrom(Now) /\ Discard
       /\ (row' = Now /\ Works) \/ (UNCHANGED row /\ Fails)
    \/ /\ row = None
       /\ StartFrom(Now) /\ Discard
       /\ (row' = Now /\ Works) \/ (UNCHANGED row /\ Fails)
    \/ /\ row # None /\ Fails
       /\ StartFrom(Now) /\ Discard
       /\ UNCHANGED row

\* a new context, whose cancel function UpdateDids will call
Register ==
    /\ pc = "register"
    /\ cancelled' = FALSE
    /\ pc' = "dial"
    /\ UNCHANGED <<waitForDid, known, row, wanted, calls, subs, pos, cur, feed, failures,
                   restarts, history>>

Goto(step) ==
    /\ pc' = step
    /\ UNCHANGED <<waitForDid, known, row, wanted, calls, cancelled, pos, feed, restarts,
                   updated, delivered, twice, jumped, excused>>

Dial ==
    /\ pc = "dial"
    /\ subs' = wanted
    /\ Goto("check")
    /\ UNCHANGED <<cur, failures, unsaved, overtaken>>

DialFails ==
    /\ pc = "dial"
    /\ (cancelled /\ Works) \/ Fails
    /\ Goto("cursor")
    /\ UNCHANGED <<subs, cur, unsaved, overtaken>>

\* readLoop looks at its context, and returns no error when it is done
Check ==
    /\ pc = "check"
    /\ Goto(IF cancelled THEN "returned" ELSE "read")
    /\ UNCHANGED <<subs, cur, failures, unsaved, overtaken>>

\* ConnectAndRead returned: with an error, or without one
Ends == {"cursor", "returned"}

Lost ==
    /\ pc = "read"
    /\ Fails
    /\ \E step \in Ends : Goto(step)
    /\ UNCHANGED <<subs, cur, unsaved, overtaken>>

\* the wait for the context of a connection that ended without an error
Reconnect ==
    /\ pc = "returned"
    /\ cancelled
    /\ Goto("cursor")
    /\ UNCHANGED <<subs, cur, failures, unsaved, overtaken>>

Closing == cancelled \/ \E c \in Callers : calls[c] # None

Receive ==
    /\ pc = "read"
    /\ Due # {}
    /\ cur' = Min(Due)
    /\ pos' = Min(Due) + 1
    /\ overtaken' = IF Closing THEN overtaken \cup (pos .. Min(Due) - 1) ELSE overtaken
    /\ pc' = "handle"
    /\ UNCHANGED <<waitForDid, known, row, wanted, calls, cancelled, subs, feed, failures,
                   restarts, updated, delivered, twice, unsaved, jumped, excused>>

-----------------------------------------------------------------------------
(* An event's handler: its work, and its deferred function.                 *)

\* done, or failed: what follows is the same
Handle ==
    /\ pc = "handle"
    /\ delivered' = delivered \cup {cur}
    /\ twice' = twice \cup ({cur} \cap delivered)
    /\ pc' = "save"
    /\ UNCHANGED <<waitForDid, known, row, wanted, calls, cancelled, subs, pos, cur, feed,
                   failures, restarts, updated, unsaved, jumped, excused, overtaken>>

\* a knot's handler goes on; the appview's ends, and its error may end the
\* connection
AfterSave ==
    /\ \/ waitForDid /\ pc' = "touch" /\ UNCHANGED cur
       \/ ~waitForDid /\ pc' \in {"check"} \cup Ends /\ cur' = None
    /\ UNCHANGED <<waitForDid, known, wanted, calls, cancelled, subs, pos, feed, restarts,
                   updated, delivered, twice, jumped, excused, overtaken>>

\* an update of no row is no error
Saved(time) == row' = IF row = None THEN None ELSE time

\* mutants: the event's own time is saved; the time of the save is saved
UpdateLastTimeUs_Same == pc = "save" /\ Saved(cur) /\ AfterSave /\ UNCHANGED <<failures, unsaved>>

UpdateLastTimeUs_Now == pc = "save" /\ Saved(Now) /\ AfterSave /\ UNCHANGED <<failures, unsaved>>

UpdateLastTimeUs ==
    /\ pc = "save"
    /\ \/ Saved(cur + 1) /\ Works
       \/ UNCHANGED row /\ Fails
    /\ unsaved' = IF row' = cur + 1 THEN unsaved ELSE unsaved \cup {cur}
    /\ AfterSave

\* a knot's handler: UpdateDids with the event's DID
Touch ==
    /\ pc = "touch"
    /\ MuFree
    /\ wanted' = wanted \cup {feed[cur]}
    /\ cancelled' = TRUE
    /\ cur' = None
    /\ pc' \in {"check"} \cup Ends
    /\ UNCHANGED <<waitForDid, known, row, calls, subs, pos, feed, failures, restarts, history>>

-----------------------------------------------------------------------------
Restart ==
    /\ restarts < MaxRestarts
    /\ restarts' = restarts + 1
    /\ wanted' = {}
    /\ calls' = Started(known)
    /\ pc' = "waiting"
    /\ cancelled' = FALSE
    /\ subs' = {}
    /\ pos' = 1
    /\ cur' = None
    /\ updated' = {}
    /\ unsaved' = IF pc = "save" THEN unsaved \cup {cur} ELSE unsaved
    /\ UNCHANGED <<waitForDid, known, row, feed, failures, delivered, twice, jumped, excused,
                   overtaken>>

Client ==
    \/ Wait
    \/ GetLastTimeUs
    \/ Register
    \/ Dial
    \/ DialFails
    \/ Check
    \/ Reconnect
    \/ Receive
    \/ Handle
    \/ UpdateLastTimeUs
    \/ Touch

Update(c) == UpdateAppend(c) \/ UpdateCancel(c)

Next ==
    \/ Client
    \/ \E c \in Callers : Update(c)
    \/ \E c \in Callers, d \in Dids : UpdateDids(c, d)
    \/ \E d \in Dids : AddDid(d)
    \/ \E d \in Dids : Post(d)
    \/ Lost
    \/ Restart

\* The goroutines run.  A failure is never owed: Lost has no fairness, and the
\* other failures are choices of a step, bounded by MaxFailures.
Fairness == WF_vars(Client) /\ \A c \in Callers : WF_vars(Update(c))

Spec == Init /\ [][Next]_vars /\ Fairness

-----------------------------------------------------------------------------
(* Properties.                                                              *)

\* When no UpdateDids is under way and nobody has told the connection to close,
\* it carries every DID that an UpdateDids has given: the list is appended to
\* before the latest context is cancelled, and read after it is registered.
FreshSubscription ==
    Connected /\ ~Closing => updated \subseteq subs \/ subs = {}

\* An event is handled again only if its handler ended without a saved cursor.
HandledOnce == twice \subseteq unsaved

\* An event before the saved cursor, which no connection will ask for again, was
\* handled, or left out when the cursor was reset, or came from a DID that was
\* not known or that the connection had not asked for, or was passed over by a
\* connection that was being closed.
NothingSkipped ==
    row # None =>
        \A i \in 1 .. row - 1 : i \in UNION {delivered, jumped, excused, overtaken}

\* The saved cursor never moves back, though events are handled again.
CursorAdvances == [][row # None => row' >= row]_row

\* What no step of the client ends: a read of a connection that is to be closed
\* and on which nothing is due, and a connection that ended by itself and that
\* nobody has told to close.
Idle ==
    \/ pc = "read" /\ cancelled /\ Due = {}
    \/ pc = "returned" /\ ~cancelled

\* Unless the client is left idle for good, a DID an UpdateDids has given is in
\* a connection at last.
CatchesUp ==
    <>[]Idle \/ \A d \in Dids : d \in updated ~> Connected /\ Carries(d)

\* Unless the client is left idle for good, an event of a DID that was known and
\* not missing from the connection when it was sent is handled at last, or left
\* out by a reset of the cursor or by a connection being closed: whatever is
\* lost, replayed or cancelled meanwhile.
Delivery ==
    \/ <>[]Idle
    \/ \A i \in Events :
          i \in (1 .. Len(feed)) \ excused ~> i \in UNION {delivered, jumped, overtaken}

\* What Knot relies on.
Server == INSTANCE Subscription WITH
    subscribed <- IF ~Connected THEN {} ELSE IF subs = {} THEN Dids ELSE subs,
    serving <- IF cur = None THEN None ELSE feed[cur]

ServesInOrder == Server!Spec
=============================================================================
