---------------------------- MODULE Subscription ----------------------------
(***************************************************************************)
(* What a server may rely on about its subscription to the firehose, the   *)
(* specification that Jetstream (the client) implements and that Knot (the *)
(* server) assumes: events come one at a time, from the DIDs that were     *)
(* wanted when the connection was opened, and a connection is opened and   *)
(* closed between two events.                                              *)
(***************************************************************************)
CONSTANTS Dids, None

VARIABLES
    wanted,       \* WantedDids
    subscribed,   \* the DIDs of the connection, {} when there is none
    serving       \* the DID whose event is being handled, or None

svars == <<wanted, subscribed, serving>>

Init ==
    /\ wanted \in SUBSET Dids
    /\ subscribed = {}
    /\ serving = None

\* a caller adds DIDs, and may have the connection closed
Want ==
    /\ wanted' \in SUBSET Dids
    /\ wanted \subseteq wanted'
    /\ subscribed' = subscribed \/ (subscribed' = {} /\ serving = None)
    /\ UNCHANGED serving

\* without a list of DIDs the firehose sends everybody's events
Subscribe ==
    /\ serving = None
    /\ subscribed' = IF wanted = {} THEN Dids ELSE wanted
    /\ UNCHANGED <<wanted, serving>>

Receive(d) ==
    /\ serving = None
    /\ d \in subscribed
    /\ serving' = d
    /\ UNCHANGED <<wanted, subscribed>>

\* the handler may add a DID, and may close its connection
Done ==
    /\ serving # None
    /\ serving' = None
    /\ wanted' \in SUBSET Dids
    /\ wanted \subseteq wanted'
    /\ subscribed' \in {subscribed, {}}

\* the process dies; what it wanted is given again
Restart ==
    /\ wanted' \in SUBSET Dids
    /\ subscribed' = {}
    /\ serving' = None

Next == Want \/ Subscribe \/ (\E d \in Dids : Receive(d)) \/ Done \/ Restart

Spec == Init /\ [][Next]_svars
=============================================================================
