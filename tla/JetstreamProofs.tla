--------------------------- MODULE JetstreamProofs ---------------------------
(***************************************************************************)
(* The client of the firehose, for every set of DIDs and callers and every *)
(* number of events, failures and deaths of the process.                   *)
(*                                                                         *)
(* Three facts carry the properties: what UpdateDids has still to append   *)
(* (Told), what the connection was opened with (Opened), and how the       *)
(* position of the connection, the event in hand and the row of the cursor *)
(* stand to each other (Placed).                                           *)
(***************************************************************************)
EXTENDS Jetstream, WellFoundedInduction, TLAPS

\* The position means something once a cursor was read.
HasPosition == pc \in Reading \cup {"register", "dial"}

Covered == UNION {delivered, jumped, excused, overtaken}

\* The appview wants nobody in particular; whom a knot knows is wanted, or is
\* about to be.
Told ==
    /\ ~waitForDid => known = {} /\ wanted = {} /\ pc # "touch" /\ \A c \in Callers : calls[c] = None
    /\ \A c \in Callers : calls[c] # None => calls[c].dids \ calls[c].todo \subseteq wanted
    /\ \A d \in known : d \in wanted \/ \E c \in Callers : calls[c] # None /\ d \in calls[c].todo

\* An event that nobody excuses came from a DID that a knot knows.
Excused == \A i \in 1 .. Len(feed) : waitForDid /\ i \notin excused => feed[i] \in known

\* A connection that nobody has told to close has what was updated, and what it
\* does not carry is excused.
Opened ==
    /\ Connected /\ ~cancelled => updated \subseteq subs
    /\ Connected /\ ~Closing =>
          \A i \in pos .. Len(feed) : ~Carries(feed[i]) => i \in excused

\* Everything before the position was looked at, but for the event in hand; the
\* row is not ahead of the position, nor of the event whose cursor it awaits.
Placed ==
    /\ pos <= Len(feed) + 1
    /\ row # None => row <= Len(feed) + 1
    /\ HasPosition => \A i \in 1 .. pos - 1 : i \in Covered \/ (pc = "handle" /\ i = cur)
    /\ HasPosition /\ row # None => row <= pos
    /\ cur # None => cur \in 1 .. Len(feed) /\ pos = cur + 1
    /\ pc \in {"handle", "save"} /\ row # None => row <= cur

\* The work that was done and not marked unsaved is before the row.
Marked ==
    \A i \in delivered :
        i \in unsaved \/ (pc = "save" /\ i = cur) \/ (row # None /\ i < row)

JInv == TypeOK /\ Told /\ Excused /\ Opened /\ Placed /\ Marked /\ HandledOnce /\ NothingSkipped

-----------------------------------------------------------------------------
(* Each step keeps the invariant.                                          *)

\* A set of numbers has a least member, which Min names.
LEMMA LeastMember ==
    ASSUME NEW S \in SUBSET Nat, S # {}
    PROVE  Min(S) \in S /\ \A i \in S : Min(S) <= i
<1>1. PICK x \in S : \A y \in S : ~(<<y, x>> \in OpToRel(<, Nat))
  BY NatLessThanWellFounded, WFMin
<1>2. \A y \in S : ~(y < x)
  BY <1>1, Zenon DEF OpToRel
<1>3. \A y \in S : x <= y
  BY <1>2
<1> QED
  BY <1>3 DEF Min

LEMMA PostInv ==
    ASSUME JInv, NEW d \in Dids, Post(d)
    PROVE  JInv'
<1>1. TypeOK'
  BY BoundsAssumption
     DEF Post, Now, history, client, JInv, TypeOK, Call, Steps, Reading, Events
<1>2. Opened'
  BY DEF Post, Now, history, client, JInv, TypeOK, Opened, Connected, Closing, Carries, Reading
<1>3. Placed'
  BY DEF Post, Now, history, client, JInv, TypeOK, Placed, HasPosition, Covered, Reading
<1>4. Told' /\ Excused' /\ Marked' /\ HandledOnce' /\ NothingSkipped'
  BY DEF Post, Now, history, client, JInv, TypeOK, Told, Excused, Marked, HandledOnce,
         NothingSkipped
<1> QED
  BY <1>1, <1>2, <1>3, <1>4 DEF JInv

LEMMA AddDidInv ==
    ASSUME JInv, NEW d \in Dids, AddDid(d)
    PROVE  JInv'
<1>1. TypeOK'
  BY DEF AddDid, MuFree, client, history, JInv, TypeOK, Call, Steps, Reading, Events
<1>2. Opened'
  BY DEF AddDid, MuFree, client, history, JInv, TypeOK, Opened, Connected, Closing,
         Carries, Reading
<1>3. Placed'
  BY DEF AddDid, MuFree, client, history, JInv, TypeOK, Placed, HasPosition, Covered, Reading
<1>4. Told' /\ Excused' /\ Marked' /\ HandledOnce' /\ NothingSkipped'
  BY DEF AddDid, MuFree, client, history, JInv, TypeOK, Told, Excused, Marked, HandledOnce,
         NothingSkipped
<1> QED
  BY <1>1, <1>2, <1>3, <1>4 DEF JInv

LEMMA UpdateDidsInv ==
    ASSUME JInv, NEW c \in Callers, NEW d \in Dids, UpdateDids(c, d)
    PROVE  JInv'
<1>1. TypeOK'
  BY DEF UpdateDids, MuFree, client, history, JInv, TypeOK, Call, Steps, Reading, Events
<1>2. Told'
  <2> DEFINE new == [todo |-> {d}, dids |-> {d}]
  <2>1. new # None
    BY NoneAssumption DEF Call
  <2>2. \A x \in Callers : calls'[x] = IF x = c THEN new ELSE calls[x]
    BY DEF UpdateDids, JInv, TypeOK
  <2>3. \A e \in known' : e \in wanted' \/ \E x \in Callers : calls'[x] # None /\ e \in calls'[x].todo
    <3> SUFFICES ASSUME NEW e \in known'
                 PROVE  e \in wanted' \/ \E x \in Callers : calls'[x] # None /\ e \in calls'[x].todo
      OBVIOUS
    <3>1. CASE e = d
      BY <2>1, <2>2, <3>1
    <3>2. CASE e # d
      BY <2>2, <3>2 DEF UpdateDids, JInv, Told
    <3> QED
      BY <3>1, <3>2
  <2> QED
    BY <2>2, <2>3 DEF UpdateDids, JInv, Told, client
<1>3. Opened'
  BY DEF UpdateDids, MuFree, client, history, JInv, TypeOK, Opened, Connected, Closing,
         Carries, Reading
<1>4. Placed'
  BY DEF UpdateDids, MuFree, client, history, JInv, TypeOK, Placed, HasPosition, Covered,
         Reading
<1>5. Excused' /\ Marked' /\ HandledOnce' /\ NothingSkipped'
  BY DEF UpdateDids, MuFree, client, history, JInv, TypeOK, Excused, Marked, HandledOnce,
         NothingSkipped
<1> QED
  BY <1>1, <1>2, <1>3, <1>4, <1>5 DEF JInv

LEMMA UpdateAppendInv ==
    ASSUME JInv, NEW c \in Callers, UpdateAppend(c)
    PROVE  JInv'
<1>0. PICK d \in calls[c].todo : wanted' = wanted \cup {d} /\ calls' = [calls EXCEPT ![c].todo = @ \ {d}]
  BY DEF UpdateAppend
<1>a. calls[c] \in Call /\ calls'[c] = [todo |-> calls[c].todo \ {d}, dids |-> calls[c].dids]
  BY <1>0 DEF UpdateAppend, JInv, TypeOK, Call
<1>b. /\ calls'[c] # None /\ calls'[c] \in Call
      /\ \A x \in Callers : x # c => calls'[x] = calls[x]
  BY <1>0, <1>a, NoneAssumption DEF JInv, TypeOK, Call
<1>1. TypeOK'
  BY DEF UpdateAppend, client, history, JInv, TypeOK, Call, Steps, Reading, Events
<1>2. Told'
  <2>1. \A x \in Callers : calls'[x] # None => calls'[x].dids \ calls'[x].todo \subseteq wanted'
    BY <1>0, <1>a, <1>b DEF UpdateAppend, JInv, Told
  <2>2. \A e \in known' : e \in wanted' \/ \E x \in Callers : calls'[x] # None /\ e \in calls'[x].todo
    BY <1>0, <1>a, <1>b DEF UpdateAppend, JInv, Told
  <2>3. waitForDid
    BY DEF UpdateAppend, JInv, Told
  <2> QED
    BY <2>1, <2>2, <2>3 DEF UpdateAppend, Told
<1>3. Opened'
  <2>1. Closing /\ Closing' /\ (Connected' <=> Connected)
    BY <1>b DEF UpdateAppend, Closing, Connected, client
  <2> QED
    BY <2>1 DEF UpdateAppend, JInv, Opened, client, history
<1>4. Placed'
  BY DEF UpdateAppend, client, history, JInv, TypeOK, Placed, HasPosition, Covered, Reading
<1>5. Excused' /\ Marked' /\ HandledOnce' /\ NothingSkipped'
  BY DEF UpdateAppend, client, history, JInv, TypeOK, Excused, Marked, HandledOnce,
         NothingSkipped
<1> QED
  BY <1>1, <1>2, <1>3, <1>4, <1>5 DEF JInv

LEMMA UpdateCancelInv ==
    ASSUME JInv, NEW c \in Callers, UpdateCancel(c)
    PROVE  JInv'
<1>1. TypeOK'
  <2>1. updated' \subseteq wanted'
    BY DEF UpdateCancel, JInv, TypeOK, Told
  <2> QED
    BY <2>1, NoneAssumption DEF UpdateCancel, JInv, TypeOK
<1>2. Opened'
  BY DEF UpdateCancel, client, history, JInv, TypeOK, Opened, Connected, Closing, Carries,
         Reading
<1>3. Placed'
  BY DEF UpdateCancel, client, history, JInv, TypeOK, Placed, HasPosition, Covered, Reading
<1>4. Told' /\ Excused' /\ Marked' /\ HandledOnce' /\ NothingSkipped'
  BY DEF UpdateCancel, client, history, JInv, TypeOK, Told, Excused, Marked, HandledOnce,
         NothingSkipped
<1> QED
  BY <1>1, <1>2, <1>3, <1>4 DEF JInv

LEMMA WaitInv ==
    ASSUME JInv, Wait
    PROVE  JInv'
<1>1. TypeOK'
  BY DEF Wait, history, JInv, TypeOK, Call, Steps, Reading, Events
<1>2. Opened'
  BY DEF Wait, history, JInv, TypeOK, Opened, Connected, Closing, Carries, Reading
<1>3. Placed'
  BY DEF Wait, history, JInv, TypeOK, Placed, HasPosition, Covered, Reading
<1>4. Told' /\ Excused' /\ Marked' /\ HandledOnce' /\ NothingSkipped'
  BY DEF Wait, history, JInv, TypeOK, Told, Excused, Marked, HandledOnce, NothingSkipped
<1> QED
  BY <1>1, <1>2, <1>3, <1>4 DEF JInv

LEMMA GetLastTimeUsInv ==
    ASSUME JInv, GetLastTimeUs
    PROVE  JInv'
<1>0. /\ UNCHANGED <<waitForDid, known, wanted, calls, cancelled, subs, cur, feed, restarts, updated,
                      delivered, twice, unsaved, excused, overtaken>>
      /\ pc = "cursor" /\ pc' = "register"
  BY DEF GetLastTimeUs, StartFrom
<1>a. Now \in 1 .. MaxEvents + 1 /\ MaxEvents \in Nat /\ Len(feed) \in Nat /\ Now = Len(feed) + 1
  BY BoundsAssumption DEF JInv, TypeOK, Now
<1>b. /\ pos' \in {row, Now} \ {None} /\ row' \in {row, Now}
      /\ row' # None => row' <= pos'
      /\ row # None => row' # None /\ row <= row'
      /\ jumped' \in {jumped, jumped \cup (1 .. Len(feed))}
      /\ pos' = row \/ jumped' = jumped \cup (1 .. Len(feed))
      /\ row' = row \/ jumped' = jumped \cup (1 .. Len(feed))
  BY <1>a, NoneAssumption
     DEF GetLastTimeUs, StartFrom, Discard, Works, Fails, JInv, TypeOK, Placed
<1>c. pos' \in 1 .. MaxEvents + 1 /\ row' \in 1 .. MaxEvents + 1 \cup {None} /\ failures' \in 0 .. MaxFailures
  <2>1. failures' \in 0 .. MaxFailures
    BY BoundsAssumption DEF GetLastTimeUs, StartFrom, Works, Fails, JInv, TypeOK
  <2> QED
    BY <1>a, <1>b, <2>1 DEF JInv, TypeOK
<1>1. TypeOK'
  <2>1. 1 .. Len(feed) \subseteq Events
    BY <1>a, BoundsAssumption DEF JInv, TypeOK, Events
  <2>2. UNION {delivered, twice, unsaved, jumped, excused, overtaken}' \subseteq Events
    BY <1>0, <1>b, <2>1 DEF JInv, TypeOK
  <2> QED
    BY <1>0, <1>c, <2>2 DEF JInv, TypeOK, Steps, Reading
<1>2. Told'
  BY <1>0 DEF JInv, Told
<1>3. Excused'
  BY <1>0 DEF JInv, Excused
<1>4. Opened'
  BY <1>0 DEF JInv, Opened, Connected, Reading
<1>5. Placed'
  <2>1. pos' <= Len(feed') + 1 /\ (row' # None => row' <= Len(feed') + 1)
    BY <1>0, <1>a, <1>b DEF JInv, Placed
  <2>2. \A i \in 1 .. pos' - 1 : i \in Covered'
    <3>1. CASE pos' = row
      BY <1>0, <1>b, <3>1 DEF JInv, NothingSkipped, Covered
    <3>2. CASE jumped' = jumped \cup (1 .. Len(feed))
      <4>1. \A n, p \in Nat : p <= n + 1 => \A i \in 1 .. p - 1 : i \in 1 .. n
        OBVIOUS
      <4>2. pos' \in Nat /\ pos' <= Len(feed) + 1
        BY <1>0, <1>a, <1>c, <2>1
      <4> QED
        BY <1>a, <3>2, <4>1, <4>2 DEF Covered
    <3> QED
      BY <1>b, <3>1, <3>2
  <2> QED
    BY <1>0, <1>b, <2>1, <2>2 DEF JInv, TypeOK, Placed
<1>6. Marked'
  BY <1>0, <1>a, <1>b, <1>c DEF JInv, TypeOK, Marked, Events
<1>7. HandledOnce'
  BY <1>0 DEF JInv, HandledOnce
<1>8. NothingSkipped'
  <2>1. CASE row' = row
    BY <1>0, <1>b, <2>1 DEF JInv, NothingSkipped
  <2>2. CASE jumped' = jumped \cup (1 .. Len(feed))
    <3>1. row' # None => row' \in Nat /\ row' <= Len(feed) + 1
      BY <1>a, <1>b, <1>c DEF JInv, Placed
    <3>2. row' # None => \A i \in 1 .. row' - 1 : i \in 1 .. Len(feed)
      BY <1>a, <3>1
    <3> QED
      BY <2>2, <3>2 DEF NothingSkipped
  <2> QED
    BY <1>b, <2>1, <2>2
<1> QED
  BY <1>1, <1>2, <1>3, <1>4, <1>5, <1>6, <1>7, <1>8 DEF JInv

LEMMA RegisterInv ==
    ASSUME JInv, Register
    PROVE  JInv'
<1>1. TypeOK'
  BY DEF Register, history, JInv, TypeOK, Call, Steps, Reading, Events
<1>2. Opened'
  BY DEF Register, history, JInv, TypeOK, Opened, Connected, Closing, Carries, Reading
<1>3. Placed'
  BY DEF Register, history, JInv, TypeOK, Placed, HasPosition, Covered, Reading
<1>4. Told' /\ Excused' /\ Marked' /\ HandledOnce' /\ NothingSkipped'
  BY DEF Register, history, JInv, TypeOK, Told, Excused, Marked, HandledOnce, NothingSkipped
<1> QED
  BY <1>1, <1>2, <1>3, <1>4 DEF JInv

LEMMA DialInv ==
    ASSUME JInv, Dial
    PROVE  JInv'
<1>1. TypeOK'
  BY DEF Dial, Goto, JInv, TypeOK, Call, Steps, Reading, Events
<1>2. Opened'
  <2>1. updated' \subseteq subs'
    BY DEF Dial, Goto, JInv, TypeOK
  <2>2. ASSUME ~Closing', NEW i \in pos' .. Len(feed'), ~Carries(feed[i])'
        PROVE  i \in excused'
    <3>1. \A c \in Callers : calls[c] = None
      BY <2>2 DEF Dial, Goto, Closing
    <3>2. feed[i] \notin wanted /\ wanted # {} /\ i \in 1 .. Len(feed)
      BY <2>2 DEF Dial, Goto, Carries, JInv, TypeOK
    <3>3. waitForDid /\ feed[i] \notin known
      BY <3>1, <3>2 DEF JInv, Told
    <3> QED
      BY <3>2, <3>3 DEF JInv, Excused, Dial, Goto
  <2> QED
    BY <2>1, <2>2 DEF Opened
<1>3. Placed'
  BY DEF Dial, Goto, JInv, TypeOK, Placed, HasPosition, Covered, Reading
<1>4. Told' /\ Excused' /\ Marked' /\ HandledOnce' /\ NothingSkipped'
  BY DEF Dial, Goto, JInv, TypeOK, Told, Excused, Marked, HandledOnce, NothingSkipped
<1> QED
  BY <1>1, <1>2, <1>3, <1>4 DEF JInv

LEMMA DialFailsInv ==
    ASSUME JInv, DialFails
    PROVE  JInv'
<1>1. TypeOK'
  BY BoundsAssumption
     DEF DialFails, Goto, Works, Fails, JInv, TypeOK, Call, Steps, Reading, Events
<1>2. Opened'
  BY DEF DialFails, Goto, Works, Fails, JInv, TypeOK, Opened, Connected, Closing, Carries,
         Reading
<1>3. Placed'
  BY DEF DialFails, Goto, Works, Fails, JInv, TypeOK, Placed, HasPosition, Covered, Reading
<1>4. Told' /\ Excused' /\ Marked' /\ HandledOnce' /\ NothingSkipped'
  BY DEF DialFails, Goto, Works, Fails, JInv, TypeOK, Told, Excused, Marked, HandledOnce,
         NothingSkipped
<1> QED
  BY <1>1, <1>2, <1>3, <1>4 DEF JInv

LEMMA CheckInv ==
    ASSUME JInv, Check
    PROVE  JInv'
<1>1. TypeOK'
  BY DEF Check, Goto, JInv, TypeOK, Call, Steps, Reading, Events
<1>2. Opened'
  BY DEF Check, Goto, JInv, TypeOK, Opened, Connected, Closing, Carries, Reading
<1>3. Placed'
  BY DEF Check, Goto, JInv, TypeOK, Placed, HasPosition, Covered, Reading
<1>4. Told' /\ Excused' /\ Marked' /\ HandledOnce' /\ NothingSkipped'
  BY DEF Check, Goto, JInv, TypeOK, Told, Excused, Marked, HandledOnce, NothingSkipped
<1> QED
  BY <1>1, <1>2, <1>3, <1>4 DEF JInv

LEMMA LostInv ==
    ASSUME JInv, Lost
    PROVE  JInv'
<1>1. TypeOK'
  BY BoundsAssumption DEF Lost, Ends, Goto, Fails, JInv, TypeOK, Call, Steps, Reading, Events
<1>2. Opened'
  BY DEF Lost, Ends, Goto, Fails, JInv, TypeOK, Opened, Connected, Closing, Carries, Reading
<1>3. Placed'
  BY DEF Lost, Ends, Goto, Fails, JInv, TypeOK, Placed, HasPosition, Covered, Reading
<1>4. Told' /\ Excused' /\ Marked' /\ HandledOnce' /\ NothingSkipped'
  BY DEF Lost, Ends, Goto, Fails, JInv, TypeOK, Told, Excused, Marked, HandledOnce, NothingSkipped
<1> QED
  BY <1>1, <1>2, <1>3, <1>4 DEF JInv

LEMMA ReconnectInv ==
    ASSUME JInv, Reconnect
    PROVE  JInv'
<1>1. TypeOK'
  BY DEF Reconnect, Goto, JInv, TypeOK, Call, Steps, Reading, Events
<1>2. Opened'
  BY DEF Reconnect, Goto, JInv, TypeOK, Opened, Connected, Closing, Carries, Reading
<1>3. Placed'
  BY DEF Reconnect, Goto, JInv, TypeOK, Placed, HasPosition, Covered, Reading
<1>4. Told' /\ Excused' /\ Marked' /\ HandledOnce' /\ NothingSkipped'
  BY DEF Reconnect, Goto, JInv, TypeOK, Told, Excused, Marked, HandledOnce, NothingSkipped
<1> QED
  BY <1>1, <1>2, <1>3, <1>4 DEF JInv

LEMMA ReceiveInv ==
    ASSUME JInv, Receive
    PROVE  JInv'
<1>0. PICK due : due = Due
  OBVIOUS
<1>m. PICK m : m = Min(due)
  OBVIOUS
<1>a. /\ cur' = m /\ pos' = m + 1 /\ pc' = "handle" /\ pc = "read"
      /\ overtaken' = IF Closing THEN overtaken \cup (pos .. m - 1) ELSE overtaken
      /\ due # {}
  BY <1>0, <1>m DEF Receive
<1>b. /\ UNCHANGED <<waitForDid, known, row, wanted, calls, cancelled, subs, feed, failures, restarts,
                      updated, delivered, twice, unsaved, jumped, excused>>
  BY DEF Receive
<1>c. pos \in Nat \ {0} /\ Len(feed) \in 0 .. MaxEvents /\ MaxEvents \in Nat
  BY BoundsAssumption DEF JInv, TypeOK
<1>d. m \in pos .. Len(feed) /\ \A i \in pos .. m - 1 : ~Carries(feed[i])
  <2>1. m \in due /\ \A i \in due : m <= i
    <3>1. due \in SUBSET Nat
      BY <1>0, <1>c DEF Due
    <3> QED
      BY <1>m, <1>a, <3>1, LeastMember
  <2> QED
    BY <1>0, <1>c, <2>1 DEF Due
<1>e. Connected
  BY <1>a DEF Connected, Reading
<1>1. TypeOK'
  <2>1. pos .. m - 1 \subseteq Events
    BY <1>c, <1>d DEF Events
  <2>2. UNION {delivered, twice, unsaved, jumped, excused, overtaken}' \subseteq Events
    BY <1>a, <1>b, <2>1 DEF JInv, TypeOK
  <2>3. pos' \in 1 .. MaxEvents + 1 /\ cur' \in Events /\ cur' # None
    BY <1>a, <1>c, <1>d, NoneAssumption DEF Events
  <2> QED
    BY <1>a, <1>b, <2>2, <2>3 DEF JInv, TypeOK, Steps, Reading
<1>2. Told'
  BY <1>a, <1>b DEF JInv, Told
<1>3. Excused'
  BY <1>b DEF JInv, Excused
<1>4. Opened'
  <2>1. (Closing' <=> Closing) /\ \A i \in pos' .. Len(feed') : Carries(feed[i])' <=> Carries(feed[i])
    BY <1>b DEF Closing, Carries
  <2>2. pos' .. Len(feed') \subseteq pos .. Len(feed)
    BY <1>a, <1>b, <1>c, <1>d
  <2> QED
    BY <1>b, <1>e, <2>1, <2>2 DEF JInv, Opened
<1>5. Placed'
  <2>1. \A i \in pos .. m - 1 : i \in Covered'
    <3>1. CASE Closing
      BY <1>a, <3>1 DEF Covered
    <3>2. CASE ~Closing
      <4>1. \A i \in pos .. m - 1 : i \in pos .. Len(feed)
        BY <1>c, <1>d
      <4> QED
        BY <1>b, <1>d, <1>e, <3>2, <4>1 DEF JInv, Opened, Covered
    <3> QED
      BY <3>1, <3>2
  <2>2. \A i \in 1 .. pos - 1 : i \in Covered'
    BY <1>a, <1>b DEF JInv, Placed, HasPosition, Reading, Covered
  <2>3. \A i \in 1 .. pos' - 1 : i \in Covered' \/ i = cur'
    BY <1>a, <1>c, <1>d, <2>1, <2>2
  <2>4. row # None => row <= pos /\ row \in Nat
    BY <1>a DEF JInv, TypeOK, Placed, HasPosition, Reading
  <2> QED
    BY <1>a, <1>b, <1>c, <1>d, <2>3, <2>4 DEF Placed
<1>6. Marked'
  BY <1>a, <1>b DEF JInv, Marked
<1>7. HandledOnce'
  BY <1>b DEF JInv, HandledOnce
<1>8. NothingSkipped'
  BY <1>a, <1>b DEF JInv, NothingSkipped
<1> QED
  BY <1>1, <1>2, <1>3, <1>4, <1>5, <1>6, <1>7, <1>8 DEF JInv

LEMMA HandleInv ==
    ASSUME JInv, Handle
    PROVE  JInv'
<1>1. TypeOK'
  BY DEF Handle, JInv, TypeOK, Call, Steps, Reading, Events
<1>2. Opened'
  BY DEF Handle, JInv, TypeOK, Opened, Connected, Closing, Carries, Reading
<1>3. Placed'
  BY DEF Handle, JInv, TypeOK, Placed, HasPosition, Covered, Reading
<1>4. HandledOnce'
  <2>1. cur \in delivered => cur \in unsaved
    <3>1. row # None => ~(cur < row)
      BY DEF Handle, JInv, TypeOK, Placed, Events
    <3> QED
      BY <3>1 DEF Handle, JInv, Marked
  <2> QED
    BY <2>1 DEF Handle, JInv, HandledOnce
<1>5. Told' /\ Excused' /\ Marked' /\ NothingSkipped'
  BY DEF Handle, JInv, TypeOK, Told, Excused, Marked, NothingSkipped
<1> QED
  BY <1>1, <1>2, <1>3, <1>4, <1>5 DEF JInv

LEMMA SaveInv ==
    ASSUME JInv, UpdateLastTimeUs
    PROVE  JInv'
<1>1. TypeOK'
  BY NoneAssumption, BoundsAssumption
     DEF UpdateLastTimeUs, Saved, AfterSave, Ends, Works, Fails, JInv, TypeOK, Call, Steps,
         Reading, Events
<1>2. Opened'
  BY DEF UpdateLastTimeUs, Saved, AfterSave, Ends, Works, Fails, JInv, TypeOK, Opened, Connected,
         Closing, Carries, Reading
<1>3. Placed'
  BY DEF UpdateLastTimeUs, Saved, AfterSave, Ends, Works, Fails, JInv, TypeOK, Placed,
         HasPosition, Covered, Reading
<1>4. Marked'
  <2>1. cur \in Events /\ pc' # "save" /\ UNCHANGED delivered
    BY DEF UpdateLastTimeUs, AfterSave, Ends, JInv, TypeOK
  <2>2. row # None => row <= cur /\ row' \in {row, cur + 1}
    BY DEF UpdateLastTimeUs, Saved, JInv, Placed
  <2>3. ASSUME NEW i \in delivered, i # cur
        PROVE  i \in unsaved' \/ (row' # None /\ i < row')
    <3>1. i \in unsaved \/ (row # None /\ i < row)
      BY <2>3 DEF JInv, Marked
    <3>2. unsaved \subseteq unsaved' /\ i \in Nat
      BY DEF UpdateLastTimeUs, JInv, TypeOK, Events
    <3> QED
      BY <2>1, <2>2, <3>1, <3>2, NoneAssumption DEF JInv, TypeOK, Events
  <2>4. cur \in unsaved' \/ (row' # None /\ cur < row')
    BY <2>1, NoneAssumption DEF UpdateLastTimeUs, Events
  <2> QED
    BY <2>1, <2>3, <2>4 DEF Marked
<1>5. NothingSkipped'
  <2>1. UNCHANGED <<delivered, jumped, excused, overtaken>> /\ (row' = row \/ row' = cur + 1)
    BY DEF UpdateLastTimeUs, Saved, AfterSave
  <2>2. pos = cur + 1 /\ pos \in Nat /\ \A i \in 1 .. pos - 1 : i \in Covered
    BY DEF UpdateLastTimeUs, JInv, TypeOK, Placed, HasPosition, Reading
  <2>3. row' = cur + 1 => \A i \in 1 .. row' - 1 : i \in Covered
    BY <2>2
  <2> QED
    BY <2>1, <2>3 DEF JInv, NothingSkipped, Covered
<1>6. Told' /\ Excused' /\ HandledOnce'
  BY DEF UpdateLastTimeUs, Saved, AfterSave, Ends, Works, Fails, JInv, TypeOK, Told, Excused,
         HandledOnce
<1> QED
  BY <1>1, <1>2, <1>3, <1>4, <1>5, <1>6 DEF JInv

LEMMA TouchInv ==
    ASSUME JInv, Touch
    PROVE  JInv'
<1>1. TypeOK'
  <2>1. feed[cur] \in Dids
    BY DEF Touch, JInv, TypeOK, Placed
  <2> QED
    BY <2>1 DEF Touch, Ends, history, JInv, TypeOK, Steps, Reading
<1>2. Opened'
  BY DEF Touch, Ends, history, JInv, TypeOK, Opened, Connected, Closing, Carries, Reading
<1>3. Placed'
  BY DEF Touch, Ends, history, JInv, TypeOK, Placed, HasPosition, Covered, Reading
<1>4. Told' /\ Excused' /\ Marked' /\ HandledOnce' /\ NothingSkipped'
  BY DEF Touch, Ends, history, JInv, TypeOK, Told, Excused, Marked, HandledOnce, NothingSkipped
<1> QED
  BY <1>1, <1>2, <1>3, <1>4 DEF JInv

LEMMA RestartInv ==
    ASSUME JInv, Restart
    PROVE  JInv'
<1>0. \A c \in Callers : calls'[c] = IF c = Setup /\ known # {} THEN [todo |-> known, dids |-> known] ELSE None
  BY DEF Restart, Started, SetupCall
<1>a. known # {} => calls'[Setup] # None
  BY <1>0, SetupAssumption, NoneAssumption DEF JInv, TypeOK, Call
<1>1. TypeOK'
  <2>1. calls' \in [Callers -> Call \cup {None}]
    BY DEF Restart, Started, SetupCall, JInv, TypeOK, Call
  <2>2. pc = "save" => cur \in Events
    BY DEF JInv, TypeOK
  <2>3. UNION {delivered, twice, unsaved, jumped, excused, overtaken}' \subseteq Events
    BY <2>2 DEF Restart, JInv, TypeOK
  <2>4. restarts' \in 0 .. MaxRestarts /\ pos' \in 1 .. MaxEvents + 1
    BY BoundsAssumption DEF Restart, JInv, TypeOK
  <2>5. pc' \in Steps /\ (cur' # None <=> pc' \in {"handle", "save", "touch"}) /\ updated' \subseteq wanted'
    BY DEF Restart, Steps
  <2> QED
    BY <2>1, <2>3, <2>4, <2>5 DEF Restart, JInv, TypeOK
<1>2. Told'
  <2>1. \A d \in known' : \E c \in Callers : calls'[c] # None /\ d \in calls'[c].todo
    BY <1>0, <1>a, SetupAssumption DEF Restart
  <2> QED
    BY <1>0, <2>1 DEF Restart, JInv, Told
<1>3. Opened'
  BY DEF Restart, Started, SetupCall, JInv, TypeOK, Opened, Connected, Closing, Carries,
         Reading
<1>4. Placed'
  BY DEF Restart, Started, SetupCall, JInv, TypeOK, Placed, HasPosition, Covered, Reading
<1>5. Excused' /\ Marked' /\ HandledOnce' /\ NothingSkipped'
  BY DEF Restart, Started, SetupCall, JInv, TypeOK, Excused, Marked, HandledOnce,
         NothingSkipped
<1> QED
  BY <1>1, <1>2, <1>3, <1>4, <1>5 DEF JInv

-----------------------------------------------------------------------------
LEMMA JInvInit == Init => JInv
<1> SUFFICES ASSUME Init PROVE JInv
  OBVIOUS
<1>0. \A c \in Callers : calls[c] = IF c = Setup /\ known # {} THEN [todo |-> known, dids |-> known] ELSE None
  BY DEF Init, Started, SetupCall
<1>1. TypeOK
  <2>1. calls \in [Callers -> Call \cup {None}]
    BY DEF Init, Started, SetupCall, Call
  <2>2. pos \in 1 .. MaxEvents + 1 /\ failures \in 0 .. MaxFailures /\ restarts \in 0 .. MaxRestarts
    BY BoundsAssumption DEF Init
  <2>3. feed \in Seq(Dids) /\ Len(feed) <= MaxEvents
    BY BoundsAssumption DEF Init
  <2> QED
    BY <2>1, <2>2, <2>3 DEF Init, TypeOK, Steps
<1>2. Told
  <2>1. known # {} => calls[Setup] # None
    BY <1>0, SetupAssumption, NoneAssumption DEF Init, Call
  <2>2. \A d \in known : \E c \in Callers : calls[c] # None /\ d \in calls[c].todo
    BY <1>0, <2>1, SetupAssumption
  <2> QED
    BY <1>0, <2>2 DEF Init, Told
<1>3. Excused /\ Opened /\ Placed /\ Marked
  BY DEF Init, Excused, Opened, Placed, Marked, Connected, Reading, HasPosition
<1>4. HandledOnce /\ NothingSkipped
  BY DEF Init, HandledOnce, NothingSkipped
<1> QED
  BY <1>1, <1>2, <1>3, <1>4 DEF JInv

LEMMA JInvStutters == ASSUME JInv, UNCHANGED vars PROVE JInv'
<1>1. TypeOK' /\ Told' /\ Excused'
  BY DEF JInv, TypeOK, Told, Excused, vars, client, history
<1>2. Opened' /\ Placed' /\ Marked'
  BY DEF JInv, Opened, Placed, Marked, Connected, Closing, Carries, HasPosition, Covered,
         vars, client, history
<1>3. HandledOnce' /\ NothingSkipped'
  BY DEF JInv, HandledOnce, NothingSkipped, vars, history
<1> QED
  BY <1>1, <1>2, <1>3 DEF JInv

LEMMA JInvNext == JInv /\ [Next]_vars => JInv'
BY PostInv, AddDidInv, UpdateDidsInv, UpdateAppendInv, UpdateCancelInv, WaitInv,
   GetLastTimeUsInv,
   RegisterInv, DialInv, DialFailsInv, CheckInv, LostInv, ReconnectInv, ReceiveInv, HandleInv, SaveInv,
   TouchInv, RestartInv, JInvStutters DEF Next, Client, Update

LEMMA JInvAlways == Spec => []JInv
BY JInvInit, JInvNext, PTL DEF Spec

\* The client's state has its types; an event is in hand in its handler only,
\* and what was updated is wanted.
THEOREM TypeCorrect == Spec => []TypeOK
<1>1. JInv => TypeOK
  BY DEF JInv
<1> QED
  BY <1>1, JInvAlways, PTL

\* A connection that nobody tells to close carries every DID that an UpdateDids
\* has given (FreshSubscription).
THEOREM FreshSubscriptions == Spec => []FreshSubscription
<1>1. JInv => FreshSubscription
  BY DEF JInv, Opened, Closing, FreshSubscription
<1> QED
  BY <1>1, JInvAlways, PTL

\* Only what was not saved is handled again (HandledOnce).
THEOREM HandledOnlyOnce == Spec => []HandledOnce
<1>1. JInv => HandledOnce
  BY DEF JInv
<1> QED
  BY <1>1, JInvAlways, PTL

\* The saved cursor leaves nothing behind that was not handled, reset, excused or
\* overtaken (NothingSkipped).
THEOREM NothingIsSkipped == Spec => []NothingSkipped
<1>1. JInv => NothingSkipped
  BY DEF JInv
<1> QED
  BY <1>1, JInvAlways, PTL

-----------------------------------------------------------------------------
(* The cursor, and the abstract specification.                              *)

LEMMA RowAdvances ==
    ASSUME JInv, Next, row # None
    PROVE  row' >= row
<1>0. row \in Nat
  BY DEF JInv, TypeOK
<1>1. CASE GetLastTimeUs
  BY <1>0, <1>1 DEF GetLastTimeUs, Now, JInv, Placed
<1>2. CASE UpdateLastTimeUs
  <2>1. row <= cur /\ cur \in Nat /\ row' \in {row, cur + 1}
    BY <1>2 DEF UpdateLastTimeUs, Saved, JInv, TypeOK, Placed, Events
  <2> QED
    BY <1>0, <2>1
<1>3. CASE ~GetLastTimeUs /\ ~UpdateLastTimeUs
  <2>1. UNCHANGED row
    BY <1>3
       DEF Next, Client, Update, Post, AddDid, UpdateDids, UpdateAppend, UpdateCancel,
           Wait,
                Register, Goto, Dial, DialFails, Check, Lost, Ends, Reconnect, Receive, Handle, Touch, Restart
  <2> QED
    BY <1>0, <2>1
<1> QED
  BY <1>1, <1>2, <1>3

\* The saved cursor never moves back (CursorAdvances).
THEOREM CursorNeverBack == Spec => CursorAdvances
<1>1. JInv /\ [Next]_vars => [row # None => row' >= row]_row
  BY RowAdvances DEF vars
<1> QED
  BY <1>1, JInvAlways, PTL DEF Spec, CursorAdvances

\* Goroutines other than the client's want more, or nothing changes that
\* Subscription speaks of.
LEMMA OthersImplement ==
    ASSUME JInv,
           \/ \E d \in Dids : Post(d) \/ AddDid(d)
           \/ \E c \in Callers, d \in Dids : UpdateDids(c, d)
           \/ \E c \in Callers : Update(c)
    PROVE  Server!Want \/ UNCHANGED Server!svars
<1>1. ASSUME NEW d \in Dids, Post(d) PROVE UNCHANGED Server!svars
  <2>1. cur # None => feed'[cur] = feed[cur]
    BY <1>1 DEF Post, JInv, TypeOK, Placed
  <2> QED
    BY <1>1, <2>1 DEF Post, client, Server!svars, Connected
<1>2. ASSUME NEW d \in Dids, AddDid(d) PROVE Server!Want
  BY <1>2 DEF AddDid, client, Server!Want, Connected, JInv, TypeOK
<1>3. ASSUME NEW c \in Callers, NEW d \in Dids, UpdateDids(c, d) PROVE UNCHANGED Server!svars
  BY <1>3 DEF UpdateDids, client, Server!svars, Connected
<1>4. ASSUME NEW c \in Callers, UpdateAppend(c) PROVE Server!Want
  <2>1. calls[c].todo \subseteq Dids
    BY <1>4 DEF UpdateAppend, JInv, TypeOK, Call
  <2> QED
    BY <1>4, <2>1 DEF UpdateAppend, client, Server!Want, Connected, JInv, TypeOK
<1>5. ASSUME NEW c \in Callers, UpdateCancel(c) PROVE UNCHANGED Server!svars
  BY <1>5 DEF UpdateCancel, client, Server!svars, Connected
<1> QED
  BY <1>1, <1>2, <1>3, <1>4, <1>5 DEF Update

\* The client's goroutine opens and closes connections between two events.
LEMMA ConnectionImplements ==
    ASSUME JInv, Wait \/ GetLastTimeUs \/ Register \/ Dial \/ DialFails \/ Check \/ Lost \/ Reconnect
    PROVE  Server!Want \/ Server!Subscribe \/ UNCHANGED Server!svars
<1>1. CASE Wait \/ GetLastTimeUs \/ Register \/ DialFails \/ Reconnect
  <2>1. UNCHANGED <<wanted, cur, feed>> /\ ~Connected /\ ~Connected'
    BY <1>1 DEF Wait, GetLastTimeUs, StartFrom, Register, DialFails, Reconnect, Goto, Connected, Reading
  <2> QED
    BY <2>1 DEF Server!svars
<1>2. CASE Dial
  <2>1. UNCHANGED <<wanted, cur, feed>> /\ Connected' /\ subs' = wanted /\ cur = None
    BY <1>2 DEF Dial, Goto, Connected, Reading, JInv, TypeOK
  <2> QED
    BY <2>1 DEF Server!Subscribe
<1>3. CASE Check \/ Lost
  <2>1. UNCHANGED <<wanted, subs, cur, feed>> /\ cur = None /\ wanted \in SUBSET Dids /\ Connected
    BY <1>3 DEF Check, Lost, Goto, JInv, TypeOK, Connected, Reading
  <2>2. CASE Connected'
    BY <2>1, <2>2 DEF Server!Want
  <2>3. CASE ~Connected'
    BY <2>1, <2>3 DEF Server!Want
  <2> QED
    BY <2>2, <2>3
<1> QED
  BY <1>1, <1>2, <1>3

\* An event is received, and done with.
LEMMA EventImplements ==
    ASSUME JInv, Receive \/ Handle \/ UpdateLastTimeUs \/ Touch
    PROVE  (\E d \in Dids : Server!Receive(d)) \/ Server!Done \/ UNCHANGED Server!svars
<1>1. CASE Receive
  <2>1. PICK due : due = Due
    OBVIOUS
  <2>2. due \in SUBSET Nat /\ due # {} /\ cur' = Min(due)
    BY <1>1, <2>1 DEF Receive, Due, JInv, TypeOK
  <2>3. cur' \in pos .. Len(feed) /\ Carries(feed[cur'])
    BY <2>1, <2>2, LeastMember DEF Due
  <2>4. feed[cur'] \in Dids /\ cur' # None
    BY <2>3, NoneAssumption DEF JInv, TypeOK
  <2>5. UNCHANGED <<wanted, subs, feed>> /\ Connected /\ Connected' /\ cur = None
    BY <1>1 DEF Receive, Connected, Reading, JInv, TypeOK
  <2> QED
    BY <2>3, <2>4, <2>5 DEF Server!Receive, Carries
<1>2. CASE Handle
  BY <1>2 DEF Handle, Server!svars, Connected, Reading
<1>3. CASE UpdateLastTimeUs \/ Touch
  <2>1. cur # None /\ feed[cur] \in Dids /\ feed[cur] # None /\ Connected
    BY <1>3, NoneAssumption
       DEF UpdateLastTimeUs, Touch, JInv, TypeOK, Placed, Connected, Reading
  <2>2. /\ UNCHANGED <<feed, subs>>
        /\ wanted' \in {wanted, wanted \cup {feed[cur]}}
        /\ (cur' = cur /\ pc' = "touch" /\ wanted' = wanted) \/ cur' = None
    BY <1>3 DEF UpdateLastTimeUs, AfterSave, Ends, Touch
  <2>3. CASE cur' = None
    BY <2>1, <2>2, <2>3 DEF Server!Done, Connected, JInv, TypeOK
  <2>4. CASE cur' # None
    BY <2>1, <2>2, <2>4 DEF Server!svars, Connected, Reading
  <2> QED
    BY <2>3, <2>4
<1> QED
  BY <1>1, <1>2, <1>3

LEMMA RestartImplements == Restart => Server!Restart
BY DEF Restart, Server!Restart, Connected, Reading

\* The client gives a server what Subscription promises, on which Knot relies
\* (ServesInOrder): one event at a time, from a DID of the open connection, and
\* connections opened and closed between two events.
THEOREM ClientServes == Spec => ServesInOrder
<1>1. Init => Server!Init
  BY DEF Init, Server!Init, Connected, Reading
<1>2. JInv /\ [Next]_vars => [Server!Next]_(Server!svars)
  <2>1. JInv /\ UNCHANGED vars => UNCHANGED Server!svars
    BY DEF vars, client, Server!svars, Connected
  <2>2. JInv /\ Next => Server!Next \/ UNCHANGED Server!svars
    BY OthersImplement, ConnectionImplements, EventImplements, RestartImplements
       DEF Next, Client, Server!Next
  <2> QED
    BY <2>1, <2>2
<1> QED
  BY <1>1, <1>2, JInvAlways, PTL DEF Spec, ServesInOrder, Server!Spec
=============================================================================
