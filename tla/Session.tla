------------------------------ MODULE Session ------------------------------
(***************************************************************************)
(* How a browser's requests come to be served by the appview (state/       *)
(* middleware.go, auth/auth.go, and Login and Logout of state/state.go).   *)
(*                                                                         *)
(* A session is nothing but the browser's cookie: the tokens of the user's *)
(* PDS and when the appview thinks they expire.  The browser sends what it *)
(* has; the answer may bring another cookie, and answers come in any       *)
(* order.  A request obtains one pair of tokens at most, so it stands for  *)
(* that pair.                                                              *)
(***************************************************************************)
EXTENDS Naturals

CONSTANTS
    Requests,    \* the requests of a behaviour, in the order they are sent
    Life,        \* how long StoreSession gives a pair of tokens
    MaxTime,     \* bound: the clock
    None

ASSUME TimeAssumption == Life \in Nat /\ MaxTime \in Nat
ASSUME RequestAssumption == Requests \subseteq Nat /\ None \notin Requests

VARIABLES
    now,
    cookie,      \* the browser's, None when it has none
    spent,       \* the pairs whose refresh token the PDS has taken
    pc, req,     \* each request's next step, and what its handler holds
    lost,        \* history: pairs spent for an answer that did not arrive
    out,         \* history: the browser was logged out, and not in since
    lingering    \* history: requests under way then, and those that used
                 \* what they brought

session == <<cookie, spent>>
history == <<lost, out, lingering>>
vars == <<now, session, pc, req, history>>

Cookie == [pair : Requests, expiry : Nat]
Cleared == [pair |-> None, expiry |-> 0]

Handler == [op : {"page", "logout", "login"}, cookie : Cookie \cup {None},
            spends : Requests \cup {None}, set : Cookie \cup {None, Cleared}]

ASSUME NoneAssumption == None \notin Cookie \cup Handler \cup {Cleared}

UnderWay == {"arrived", "refresh", "store", "serve", "answered"}

TypeOK ==
    /\ now \in 0 .. MaxTime
    /\ cookie \in Cookie \cup {None}
    /\ spent \cup lost \cup lingering \subseteq Requests
    /\ pc \in [Requests -> {"new", "ended"} \cup UnderWay]
    /\ req \in [Requests -> Handler \cup {None}]
    /\ \A t \in Requests : req[t] = None <=> pc[t] \in {"new", "ended"}
    /\ \A t \in Requests :
          pc[t] \in {"refresh", "serve"} /\ req[t].op # "login" => req[t].cookie # None
    /\ out \in BOOLEAN

Init ==
    /\ now = 0
    /\ cookie = None
    /\ spent = {}
    /\ pc = [t \in Requests |-> "new"]
    /\ req = [t \in Requests |-> None]
    /\ lost = {}
    /\ out = FALSE
    /\ lingering = {}

Goto(t, step) == pc' = [pc EXCEPT ![t] = step]

End(t) == pc' = [pc EXCEPT ![t] = "ended"] /\ req' = [req EXCEPT ![t] = None]

\* what is lost when the answer to t does not arrive
Lose(t) == lost' = lost \cup ({req[t].spends} \ {None})

-----------------------------------------------------------------------------
(* The browser.                                                             *)

Send(t) ==
    /\ pc[t] = "new"
    /\ \A o \in Requests : o < t => pc[o] # "new"
    /\ \E op \in {"page", "logout", "login"} :
          req' = [req EXCEPT ![t] = [op |-> op, cookie |-> cookie, spends |-> None, set |-> None]]
    /\ Goto(t, "arrived")
    /\ lingering' = IF cookie # None /\ cookie.pair \in lingering THEN lingering \cup {t}
                    ELSE lingering
    /\ UNCHANGED <<now, session, lost, out>>

\* the answer arrives, and with it what it sets
Deliver(t) ==
    /\ pc[t] = "answered"
    /\ cookie' = CASE req[t].set = None -> cookie
                   [] req[t].set = Cleared -> None
                   [] OTHER -> req[t].set
    /\ CASE req[t].op = "logout" ->
              /\ out' = TRUE
              /\ lingering' = {o \in Requests \ {t} : pc[o] \in UnderWay}
         [] req[t].op = "login" -> out' = FALSE /\ UNCHANGED lingering
         [] OTHER -> UNCHANGED <<out, lingering>>
    /\ End(t)
    /\ UNCHANGED <<now, spent, lost>>

DeliveryFails(t) ==
    /\ pc[t] = "answered"
    /\ End(t)
    /\ Lose(t)
    /\ UNCHANGED <<now, session, out, lingering>>

-----------------------------------------------------------------------------
(* AuthMiddleware.                                                          *)

\* mutant: whoever has no session is served
AuthMiddleware_Open(t) ==
    /\ pc[t] = "arrived" /\ req[t].op # "login"
    /\ Goto(t, IF req[t].cookie # None /\ now > req[t].cookie.expiry THEN "refresh" ELSE "serve")
    /\ UNCHANGED <<now, session, req, history>>

\* no session: to /login; an expired one: "token expired, refreshing ..."
AuthMiddleware(t) ==
    /\ pc[t] = "arrived" /\ req[t].op # "login"
    /\ \/ req[t].cookie = None /\ End(t)
       \/ /\ req[t].cookie # None
          /\ Goto(t, IF now > req[t].cookie.expiry THEN "refresh" ELSE "serve")
          /\ UNCHANGED req
    /\ UNCHANGED <<now, session, history>>

\* A refresh token that is spent may be refused or honoured.
ServerRefreshSession(t) ==
    LET pair == req[t].cookie.pair
    IN  /\ pc[t] = "refresh"
        /\ spent' = spent \cup {pair}
        /\ req' = [req EXCEPT ![t].spends = pair]
        /\ Goto(t, "store")
        /\ UNCHANGED <<now, cookie, history>>

\* the PDS refuses, or does not answer, or its answer is lost
RefreshFails(t) ==
    /\ pc[t] = "refresh"
    /\ spent' \in {spent, spent \cup {req[t].cookie.pair}}
    /\ lost' = lost \cup (spent' \ spent)
    /\ End(t)
    /\ UNCHANGED <<now, cookie, out, lingering>>

\* mutant: the refresh token that was used is kept beside the new access token
StoreSession_OldRefresh(t) ==
    /\ pc[t] = "store"
    /\ LET pair == IF req[t].op = "login" THEN t ELSE req[t].cookie.pair
           new == [pair |-> pair, expiry |-> now + Life]
       IN  req' = [req EXCEPT ![t].cookie = new, ![t].set = new]
    /\ Goto(t, IF req[t].op = "login" THEN "answered" ELSE "serve")
    /\ UNCHANGED <<now, session, history>>

\* The session that the rest of the request sees is the new one.
StoreSession(t) ==
    /\ pc[t] = "store"
    /\ LET new == [pair |-> t, expiry |-> now + Life]
       IN  req' = [req EXCEPT ![t].cookie = new, ![t].set = new]
    /\ Goto(t, IF req[t].op = "login" THEN "answered" ELSE "serve")
    /\ UNCHANGED <<now, session, history>>

StoreFails(t) ==
    /\ pc[t] = "store"
    /\ End(t)
    /\ Lose(t)
    /\ UNCHANGED <<now, session, out, lingering>>

-----------------------------------------------------------------------------
(* Handlers.                                                                *)

\* CreateInitialSession: a pair of tokens, or "Invalid handle or password."
Login(t) ==
    /\ pc[t] = "arrived" /\ req[t].op = "login"
    /\ \/ Goto(t, "store") /\ UNCHANGED req
       \/ End(t)
    /\ UNCHANGED <<now, session, history>>

\* whom a handler acts for, and with which tokens
AuthorizedClient(t) == req[t].cookie

Page(t) ==
    /\ pc[t] = "serve" /\ req[t].op = "page" /\ AuthorizedClient(t) # None
    /\ Goto(t, "answered")
    /\ UNCHANGED <<now, session, req, history>>

\* mutant: the cookie is left as it is
ClearSession_Kept(t) ==
    /\ pc[t] = "serve" /\ req[t].op = "logout"
    /\ Goto(t, "answered")
    /\ UNCHANGED <<now, session, req, history>>

\* Logout: the cookie goes, also one that the request itself has renewed
ClearSession(t) ==
    /\ pc[t] = "serve" /\ req[t].op = "logout"
    /\ req' = [req EXCEPT ![t].set = Cleared]
    /\ Goto(t, "answered")
    /\ UNCHANGED <<now, session, history>>

Tick ==
    /\ now < MaxTime
    /\ now' = now + 1
    /\ UNCHANGED <<session, pc, req, history>>

-----------------------------------------------------------------------------
Served ==
    /\ now = MaxTime
    /\ \A t \in Requests : pc[t] = "ended"
    /\ UNCHANGED vars

Next ==
    \/ \E t \in Requests :
          \/ Send(t)
          \/ AuthMiddleware(t)
          \/ ServerRefreshSession(t)
          \/ RefreshFails(t)
          \/ StoreSession(t)
          \/ StoreFails(t)
          \/ Login(t)
          \/ Page(t)
          \/ ClearSession(t)
          \/ Deliver(t)
          \/ DeliveryFails(t)
    \/ Tick
    \/ Served

Spec == Init /\ [][Next]_vars

-----------------------------------------------------------------------------
(* Properties.                                                              *)

\* The browser can go on with the cookie it has (middleware.go:68): its refresh
\* token has not been used, or the request that used it is still under way, or
\* the answer that would have brought the next one was lost.  So the PDS refuses a
\* session for one of two reasons, an overlapping request or a lost answer.
CookieIsLive ==
    cookie # None /\ cookie.pair \in spent =>
        \/ cookie.pair \in lost
        \/ \E t \in Requests : pc[t] \in UnderWay /\ req[t].spends = cookie.pair

\* A browser that was logged out (state.go:167) has no session until it logs in,
\* but one that a request under way at the time renewed.
LogoutHolds == out /\ cookie # None => cookie.pair \in lingering
=============================================================================
