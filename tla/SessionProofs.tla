---------------------------- MODULE SessionProofs ----------------------------
(***************************************************************************)
(* Theorems about Session, for any number of requests and any lifetime of  *)
(* a pair of tokens.                                                       *)
(*                                                                         *)
(* A pair is nobody's but its request's until the answer arrives, and      *)
(* comes to the browser once: what the browser has was never spent before  *)
(* it had it.  From then on the pair is spent by requests that will bring  *)
(* another one, or lose it.                                                *)
(***************************************************************************)
EXTENDS Session, TLAPS

\* What is known of handler h of request t when its next step is s.
Facts(t, h, s) ==
    /\ s \in {"refresh", "serve"} => h.op # "login" /\ h.cookie # None
    /\ s = "store" /\ h.op # "login" => h.cookie # None
    /\ s \in {"arrived", "refresh"} => h.spends = None
    /\ s \in {"arrived", "refresh"} /\ h.cookie # None => pc[h.cookie.pair] = "ended"
    /\ s \in {"arrived", "refresh", "store"} => h.set = None
    /\ s \in {"serve", "answered"} /\ h.spends # None => h.set # None
    /\ s = "answered" /\ h.op = "logout" => h.set = Cleared
    /\ h.set \in Cookie => h.set.pair = t /\ h.cookie # None
    /\ out /\ h.op # "login" /\ h.cookie # None => t \in lingering

AllFacts == \A t \in Requests : pc[t] \in UnderWay => Facts(t, req[t], pc[t])

\* The pairs the browser has, or had, are those of requests that ended.
Arrived ==
    /\ cookie # None => pc[cookie.pair] = "ended"
    /\ \A p \in spent : pc[p] = "ended"

SInv == TypeOK /\ AllFacts /\ Arrived /\ CookieIsLive /\ LogoutHolds

\* The step of a request that brings the browser nothing: what it spends is
\* lost or is still being spent, and what it holds keeps the facts.
LEMMA StepInv ==
    ASSUME SInv, NEW t \in Requests, pc[t] # "ended", NEW s, NEW h,
           pc' = [pc EXCEPT ![t] = s], req' = [req EXCEPT ![t] = h],
           \/ s = "ended" /\ h = None
           \/ s \in UnderWay /\ h \in Handler /\ Facts(t, h, s)',
           UNCHANGED <<now, cookie, out>>,
           lingering \subseteq lingering', lingering' \subseteq Requests,
           lost \subseteq lost', lost' \subseteq Requests,
           spent' \subseteq Requests,
           \A p \in spent' \ spent :
               pc[p] = "ended" /\ (p \in lost' \/ (s \in UnderWay /\ h.spends = p)),
           pc[t] \in UnderWay /\ req[t].spends # None =>
               req[t].spends \in lost' \/ (s \in UnderWay /\ h.spends = req[t].spends)
    PROVE  SInv'
<1>t. TypeOK
  BY DEF SInv
<1>1. \A x \in Requests : /\ pc'[x] = IF x = t THEN s ELSE pc[x]
                          /\ req'[x] = IF x = t THEN h ELSE req[x]
  BY <1>t DEF TypeOK
<1>2. s \in {"new", "ended"} \cup UnderWay /\ h \in Handler \cup {None}
  OBVIOUS
<1>3. s = "ended" <=> h = None
  BY NoneAssumption DEF UnderWay
<1>4. s \in {"refresh", "serve"} => h.op # "login" /\ h.cookie # None
  BY DEF Facts, UnderWay
<1>5. TypeOK'
  <2>1. pc' \in [Requests -> {"new", "ended"} \cup UnderWay] /\ req' \in [Requests -> Handler \cup {None}]
    BY <1>t, <1>2 DEF TypeOK
  <2>2. \A x \in Requests : /\ req'[x] = None <=> pc'[x] \in {"new", "ended"}
                            /\ pc'[x] \in {"refresh", "serve"} /\ req'[x].op # "login"
                                   => req'[x].cookie # None
    BY <1>t, <1>1, <1>3, <1>4, NoneAssumption DEF TypeOK, UnderWay
  <2> QED
    BY <1>t, <2>1, <2>2 DEF TypeOK
<1>6. AllFacts'
  <2>1. SUFFICES ASSUME NEW x \in Requests, pc'[x] \in UnderWay PROVE Facts(x, req[x], pc[x])'
    BY DEF AllFacts
  <2>2. CASE x = t
    <3>1. req'[x] = h /\ pc'[x] = s /\ Facts(t, h, s)'
      BY <1>1, <2>1, <2>2 DEF UnderWay
    <3> QED
      BY <2>2, <3>1 DEF Facts
  <2>3. CASE x # t
    <3>1. req'[x] = req[x] /\ pc'[x] = pc[x] /\ req[x] \in Handler
      BY <1>t, <1>1, <2>1, <2>3 DEF TypeOK, UnderWay
    <3>2. Facts(x, req[x], pc[x])
      BY <2>1, <3>1 DEF SInv, AllFacts
    <3>3. \A y \in Requests : pc[y] = "ended" => pc'[y] = "ended"
      BY <1>1
    <3>4. req[x].cookie # None => req[x].cookie.pair \in Requests
      BY <3>1 DEF Handler, Cookie
    <3> QED
      BY <3>1, <3>2, <3>3, <3>4 DEF Facts
  <2> QED
    BY <2>2, <2>3
<1>7. Arrived'
  <2>1. \A y \in Requests : pc[y] = "ended" => pc'[y] = "ended"
    BY <1>1
  <2>2. cookie # None => cookie.pair \in Requests
    BY <1>t DEF TypeOK, Cookie
  <2> QED
    BY <2>1, <2>2 DEF SInv, Arrived
<1>8. CookieIsLive'
  <2>1. SUFFICES ASSUME cookie # None, cookie.pair \in spent', cookie.pair \notin lost'
                 PROVE  \E x \in Requests : pc'[x] \in UnderWay /\ req'[x].spends = cookie.pair
    BY DEF CookieIsLive
  <2>2. cookie.pair \in Requests /\ cookie.pair # None
    BY <1>t, <2>1, RequestAssumption DEF TypeOK, Cookie
  <2>3. CASE cookie.pair \in spent
    <3>1. PICK x \in Requests : pc[x] \in UnderWay /\ req[x].spends = cookie.pair
      BY <2>1, <2>3 DEF SInv, CookieIsLive
    <3> QED
      BY <1>1, <2>1, <2>2, <3>1
  <2>4. CASE cookie.pair \notin spent
    BY <1>1, <2>1, <2>4
  <2> QED
    BY <2>3, <2>4
<1>9. LogoutHolds'
  BY DEF SInv, LogoutHolds
<1> QED
  BY <1>5, <1>6, <1>7, <1>8, <1>9 DEF SInv

LEMMA SendInv == ASSUME SInv, NEW t \in Requests, Send(t) PROVE SInv'
<1>t. TypeOK
  BY DEF SInv
<1>1. PICK op \in {"page", "logout", "login"} :
          req' = [req EXCEPT ![t] = [op |-> op, cookie |-> cookie, spends |-> None, set |-> None]]
  BY DEF Send
<1>0. PICK h : h = [op |-> op, cookie |-> cookie, spends |-> None, set |-> None]
  OBVIOUS
<1>2. /\ pc[t] = "new" /\ pc' = [pc EXCEPT ![t] = "arrived"]
      /\ UNCHANGED <<now, cookie, spent, lost, out>>
      /\ lingering' = IF cookie # None /\ cookie.pair \in lingering THEN lingering \cup {t}
                      ELSE lingering
  BY DEF Send, Goto, session
<1>3. /\ h \in Handler
      /\ h.op = op /\ h.cookie = cookie /\ h.spends = None /\ h.set = None
  BY <1>0, <1>t DEF Handler, TypeOK
<1>4. pc'[cookie.pair] = pc[cookie.pair] \/ cookie.pair = t
  BY <1>2, <1>t DEF TypeOK
<1>5. Facts(t, h, "arrived")'
  <2>1. cookie # None => pc'[cookie.pair] = "ended"
    BY <1>2, <1>4 DEF SInv, Arrived
  <2>2. out' /\ cookie # None => t \in lingering'
    BY <1>2 DEF SInv, LogoutHolds
  <2>3. None \notin Cookie
    BY NoneAssumption
  <2> QED
    BY <1>2, <1>3, <2>1, <2>2, <2>3 DEF Facts
<1>6. lingering \subseteq lingering' /\ lingering' \subseteq Requests /\ lost \subseteq Requests
      /\ spent \subseteq Requests
  BY <1>2, <1>t DEF TypeOK
<1>7. "arrived" \in UnderWay /\ pc[t] # "ended" /\ pc[t] \notin UnderWay
  BY <1>2 DEF UnderWay
<1> QED
  BY <1>0, <1>1, <1>2, <1>3, <1>5, <1>6, <1>7, StepInv

\* What TypeOK says of a request under way.
LEMMA HandlerTyped ==
    ASSUME SInv, NEW t \in Requests, pc[t] \in UnderWay
    PROVE  /\ req[t] \in Handler /\ Facts(t, req[t], pc[t])
           /\ req[t].cookie # None => req[t].cookie \in Cookie /\ req[t].cookie.pair \in Requests
           /\ req[t].spends \in Requests \cup {None}
           /\ req[t].set \in Cookie \cup {None, Cleared}
  BY DEF SInv, TypeOK, AllFacts, UnderWay, Handler, Cookie

\* A request that ends without an answer.
LEMMA EndInv ==
    ASSUME SInv, NEW t \in Requests, pc[t] \in UnderWay, End(t),
           UNCHANGED <<now, cookie, out, lingering>>,
           spent' \subseteq Requests, lost \subseteq lost', lost' \subseteq Requests,
           \A p \in spent' \ spent : pc[p] = "ended" /\ p \in lost',
           req[t].spends \in lost' \cup {None}
    PROVE  SInv'
<1>1. pc[t] # "ended" /\ lingering \subseteq Requests
  BY DEF UnderWay, SInv, TypeOK
<1>2. PICK s, h : s = "ended" /\ h = None
  OBVIOUS
<1>3. pc' = [pc EXCEPT ![t] = s] /\ req' = [req EXCEPT ![t] = h]
  BY <1>2 DEF End
<1>4. \A p \in spent' \ spent :
          pc[p] = "ended" /\ (p \in lost' \/ (s \in UnderWay /\ h.spends = p))
  OBVIOUS
<1> QED
  BY <1>1, <1>2, <1>3, <1>4, StepInv

LEMMA LoseLoses ==
    ASSUME SInv, NEW t \in Requests, pc[t] \in UnderWay, Lose(t)
    PROVE  lost \subseteq lost' /\ lost' \subseteq Requests /\ req[t].spends \in lost' \cup {None}
BY HandlerTyped DEF Lose, SInv, TypeOK

\* A request that goes on, spending nothing new.
LEMMA GoOnInv ==
    ASSUME SInv, NEW t \in Requests, pc[t] \in UnderWay, NEW s \in UnderWay, NEW h \in Handler,
           pc' = [pc EXCEPT ![t] = s], req' = [req EXCEPT ![t] = h],
           h.spends = req[t].spends, Facts(t, h, s)',
           UNCHANGED <<now, session, history>>
    PROVE  SInv'
<1>1. pc[t] # "ended" /\ lingering \subseteq Requests /\ lost \subseteq Requests
      /\ spent \subseteq Requests
  BY DEF UnderWay, SInv, TypeOK
<1> QED
  BY <1>1, StepInv DEF session, history

LEMMA MiddlewareInv == ASSUME SInv, NEW t \in Requests, AuthMiddleware(t) PROVE SInv'
<1>1. pc[t] = "arrived" /\ req[t].op # "login" /\ pc[t] \in UnderWay
  BY DEF AuthMiddleware, UnderWay
<1>2. PICK h : h = req[t]
  OBVIOUS
<1>3. h \in Handler /\ Facts(t, h, "arrived") /\ h.spends = None
  BY <1>1, <1>2, HandlerTyped DEF Facts
<1>4. CASE End(t)
  <2>1. UNCHANGED <<now, cookie, spent, lost, out, lingering>>
    BY <1>1, <1>4 DEF AuthMiddleware, session, history
  <2>2. spent' \subseteq Requests /\ lost' \subseteq Requests
    BY <2>1 DEF SInv, TypeOK
  <2> QED
    BY <1>1, <1>2, <1>3, <1>4, <2>1, <2>2, EndInv
<1>5. CASE ~End(t)
  <2>1. PICK s \in {"refresh", "serve"} : pc' = [pc EXCEPT ![t] = s]
    BY <1>5 DEF AuthMiddleware, Goto
  <2>2. /\ req' = req /\ h.cookie # None /\ UNCHANGED <<now, session, history>>
    BY <1>2, <1>5 DEF AuthMiddleware
  <2>3. req' = [req EXCEPT ![t] = h]
    BY <1>2, <2>2 DEF SInv, TypeOK
  <2>4. h.cookie.pair \in Requests /\ pc[h.cookie.pair] = "ended"
    BY <1>1, <1>2, <1>3, <2>2, HandlerTyped DEF Facts
  <2>5. pc'[h.cookie.pair] = "ended"
    BY <1>1, <2>1, <2>4 DEF SInv, TypeOK
  <2>6. Facts(t, h, s)'
    BY <1>1, <1>2, <1>3, <2>1, <2>2, <2>5 DEF Facts, history
  <2> QED
    BY <1>1, <1>2, <1>3, <2>1, <2>2, <2>3, <2>6, GoOnInv DEF UnderWay
<1> QED
  BY <1>4, <1>5

\* The handler's pair is spent by it, and not by its own pair's request.
LEMMA RefreshInv == ASSUME SInv, NEW t \in Requests, ServerRefreshSession(t) PROVE SInv'
<1>1. pc[t] = "refresh" /\ pc[t] \in UnderWay /\ pc[t] # "ended"
  BY DEF ServerRefreshSession, UnderWay
<1>2. PICK h : h = req[t]
  OBVIOUS
<1>3. h \in Handler /\ Facts(t, h, "refresh")
  BY <1>1, <1>2, HandlerTyped
<1>4. PICK p : p = h.cookie.pair
  OBVIOUS
<1>5. p \in Requests /\ pc[p] = "ended" /\ h.cookie # None
  BY <1>1, <1>2, <1>3, <1>4, HandlerTyped DEF Facts
<1> DEFINE k == [h EXCEPT !.spends = p]
<1>6. /\ k \in Handler /\ k.op = h.op /\ k.cookie = h.cookie /\ k.set = h.set /\ k.spends = p
  BY <1>3, <1>5 DEF Handler
<1> HIDE DEF k
<1>7. /\ spent' = spent \cup {p} /\ UNCHANGED <<now, cookie, lost, out, lingering>>
      /\ pc' = [pc EXCEPT ![t] = "store"] /\ req' = [req EXCEPT ![t] = k]
  BY <1>2, <1>4 DEF ServerRefreshSession, Goto, history, k
<1>8. Facts(t, k, "store")'
  BY <1>3, <1>5, <1>6, <1>7 DEF Facts
<1>9. /\ lingering \subseteq Requests /\ lost \subseteq Requests /\ spent' \subseteq Requests
      /\ "store" \in UnderWay /\ req[t].spends = None
  BY <1>2, <1>3, <1>5, <1>7 DEF SInv, TypeOK, UnderWay, Facts
<1> QED
  BY <1>1, <1>5, <1>6, <1>7, <1>8, <1>9, StepInv

LEMMA RefreshFailsInv == ASSUME SInv, NEW t \in Requests, RefreshFails(t) PROVE SInv'
<1>1. pc[t] = "refresh" /\ pc[t] \in UnderWay
  BY DEF RefreshFails, UnderWay
<1>2. PICK p : p = req[t].cookie.pair
  OBVIOUS
<1>3. p \in Requests /\ pc[p] = "ended" /\ req[t].spends = None
  BY <1>1, <1>2, HandlerTyped DEF Facts
<1>4. /\ spent' \in {spent, spent \cup {p}} /\ lost' = lost \cup (spent' \ spent)
      /\ UNCHANGED <<now, cookie, out, lingering>> /\ End(t)
  BY <1>2 DEF RefreshFails
<1>5. lost' \subseteq Requests /\ spent' \subseteq Requests
  BY <1>3, <1>4 DEF SInv, TypeOK
<1> QED
  BY <1>1, <1>3, <1>4, <1>5, EndInv

LEMMA StoreInv == ASSUME SInv, NEW t \in Requests, StoreSession(t) PROVE SInv'
<1>1. pc[t] = "store" /\ pc[t] \in UnderWay
  BY DEF StoreSession, UnderWay
<1>2. PICK h : h = req[t]
  OBVIOUS
<1>3. h \in Handler /\ Facts(t, h, "store")
  BY <1>1, <1>2, HandlerTyped
<1>0. PICK new : new = [pair |-> t, expiry |-> now + Life]
  OBVIOUS
<1>4. new \in Cookie /\ new.pair = t
  BY <1>0, TimeAssumption DEF Cookie, SInv, TypeOK
<1> DEFINE k == [h EXCEPT !.cookie = new, !.set = new]
<1>5. k \in Handler /\ k.op = h.op /\ k.cookie = new /\ k.set = new /\ k.spends = h.spends
  BY <1>3, <1>4 DEF Handler
<1>6. new # None /\ new # Cleared
  BY <1>4, NoneAssumption, RequestAssumption DEF Cookie, Cleared
<1> HIDE DEF k
<1>8. PICK s \in {"answered", "serve"} :
          pc' = [pc EXCEPT ![t] = s] /\ (s = "answered" <=> h.op = "login")
  BY <1>2 DEF StoreSession, Goto
<1>9. req' = [req EXCEPT ![t] = k] /\ UNCHANGED <<now, session, history>>
  BY <1>0, <1>2 DEF StoreSession, k
<1>10. Facts(t, k, s)'
  BY <1>3, <1>4, <1>5, <1>6, <1>8, <1>9 DEF Facts, history
<1> QED
  BY <1>1, <1>2, <1>5, <1>8, <1>9, <1>10, GoOnInv DEF UnderWay

LEMMA StoreFailsInv ==
    ASSUME SInv, NEW t \in Requests, StoreFails(t) \/ DeliveryFails(t)
    PROVE  SInv'
<1>1. /\ pc[t] \in UnderWay /\ End(t) /\ Lose(t)
      /\ UNCHANGED <<now, cookie, spent, out, lingering>>
  BY DEF StoreFails, DeliveryFails, UnderWay, session
<1>2. spent' \subseteq Requests
  BY <1>1 DEF SInv, TypeOK
<1> QED
  BY <1>1, <1>2, LoseLoses, EndInv

LEMMA LoginInv == ASSUME SInv, NEW t \in Requests, Login(t) PROVE SInv'
<1>1. pc[t] = "arrived" /\ pc[t] \in UnderWay /\ req[t].op = "login"
  BY DEF Login, UnderWay
<1>2. PICK h : h = req[t]
  OBVIOUS
<1>3. h \in Handler /\ Facts(t, h, "arrived") /\ h.spends = None
  BY <1>1, <1>2, HandlerTyped DEF Facts
<1>4. CASE End(t)
  <2>1. UNCHANGED <<now, cookie, spent, lost, out, lingering>>
    BY DEF Login, session, history
  <2>2. spent' \subseteq Requests /\ lost' \subseteq Requests
    BY <2>1 DEF SInv, TypeOK
  <2> QED
    BY <1>1, <1>2, <1>3, <1>4, <2>1, <2>2, EndInv
<1>5. CASE ~End(t)
  <2>1. /\ pc' = [pc EXCEPT ![t] = "store"] /\ req' = req /\ UNCHANGED <<now, session, history>>
    BY <1>5 DEF Login, Goto
  <2>2. req' = [req EXCEPT ![t] = h]
    BY <1>2, <2>1 DEF SInv, TypeOK
  <2>3. Facts(t, h, "store")'
    BY <1>1, <1>2, <1>3 DEF Facts
  <2> QED
    BY <1>1, <1>2, <1>3, <2>1, <2>2, <2>3, GoOnInv DEF UnderWay
<1> QED
  BY <1>4, <1>5

LEMMA PageInv == ASSUME SInv, NEW t \in Requests, Page(t) PROVE SInv'
<1>1. pc[t] = "serve" /\ pc[t] \in UnderWay /\ req[t].op = "page"
  BY DEF Page, UnderWay
<1>2. PICK h : h = req[t]
  OBVIOUS
<1>3. h \in Handler /\ Facts(t, h, "serve")
  BY <1>1, <1>2, HandlerTyped
<1>4. /\ pc' = [pc EXCEPT ![t] = "answered"] /\ req' = req /\ UNCHANGED <<now, session, history>>
  BY DEF Page, Goto
<1>5. req' = [req EXCEPT ![t] = h]
  BY <1>2, <1>4 DEF SInv, TypeOK
<1>6. Facts(t, h, "answered")'
  BY <1>1, <1>2, <1>3, <1>4 DEF Facts, history
<1> QED
  BY <1>1, <1>2, <1>3, <1>4, <1>5, <1>6, GoOnInv DEF UnderWay

LEMMA ClearInv == ASSUME SInv, NEW t \in Requests, ClearSession(t) PROVE SInv'
<1>1. pc[t] = "serve" /\ pc[t] \in UnderWay /\ req[t].op = "logout"
  BY DEF ClearSession, UnderWay
<1>2. PICK h : h = req[t]
  OBVIOUS
<1>3. h \in Handler /\ Facts(t, h, "serve")
  BY <1>1, <1>2, HandlerTyped
<1> DEFINE k == [h EXCEPT !.set = Cleared]
<1>4. k \in Handler /\ k.op = h.op /\ k.cookie = h.cookie /\ k.spends = h.spends /\ k.set = Cleared
  BY <1>3 DEF Handler
<1>5. Cleared # None /\ Cleared \notin Cookie
  BY NoneAssumption, RequestAssumption DEF Cookie, Cleared
<1> HIDE DEF k
<1>6. /\ pc' = [pc EXCEPT ![t] = "answered"] /\ req' = [req EXCEPT ![t] = k]
      /\ UNCHANGED <<now, session, history>>
  BY <1>2 DEF ClearSession, Goto, k
<1>7. Facts(t, k, "answered")'
  BY <1>3, <1>4, <1>5, <1>6 DEF Facts, history
<1> QED
  BY <1>1, <1>2, <1>4, <1>6, <1>7, GoOnInv DEF UnderWay

LEMMA TickInv == ASSUME SInv, Tick \/ UNCHANGED vars PROVE SInv'
<1>1. /\ UNCHANGED <<cookie, spent, pc, req, lost, out, lingering>>
      /\ now' \in 0 .. MaxTime
  BY TimeAssumption DEF Tick, vars, session, history, SInv, TypeOK
<1> QED
  BY <1>1 DEF SInv, TypeOK, AllFacts, Facts, Arrived, CookieIsLive, LogoutHolds

\* An answer: the cookie it brings is of a pair nobody else has, so nobody has
\* spent it, and takes the place of the one that the request spent.
LEMMA DeliverInv == ASSUME SInv, NEW t \in Requests, Deliver(t) PROVE SInv'
<1>t. TypeOK
  BY DEF SInv
<1>1. pc[t] = "answered" /\ pc[t] \in UnderWay
  BY DEF Deliver, UnderWay
<1>2. PICK h : h = req[t]
  OBVIOUS
<1>3. h \in Handler /\ Facts(t, h, "answered") /\ h.set \in Cookie \cup {None, Cleared}
  BY <1>1, <1>2, HandlerTyped
<1>4. Cleared # None /\ Cleared \notin Cookie /\ None \notin Cookie
  BY NoneAssumption, RequestAssumption DEF Cookie, Cleared
<1>5. /\ h.set = None => cookie' = cookie
      /\ h.set = Cleared => cookie' = None
      /\ h.set \in Cookie => cookie' = h.set
  BY <1>2, <1>4 DEF Deliver
<1>6. /\ h.op = "logout" => out' = TRUE /\ lingering' = {o \in Requests \ {t} : pc[o] \in UnderWay}
      /\ h.op = "login" => out' = FALSE /\ lingering' = lingering
      /\ h.op = "page" => out' = out /\ lingering' = lingering
      /\ h.op \in {"page", "logout", "login"}
  BY <1>2, <1>3 DEF Deliver, Handler
<1>7. /\ \A x \in Requests : pc'[x] = IF x = t THEN "ended" ELSE pc[x]
      /\ \A x \in Requests : req'[x] = IF x = t THEN None ELSE req[x]
      /\ UNCHANGED <<now, spent, lost>>
  BY <1>t DEF Deliver, End, TypeOK
<1>8. TypeOK'
  <2>1. pc' \in [Requests -> {"new", "ended"} \cup UnderWay] /\ req' \in [Requests -> Handler \cup {None}]
    BY <1>t DEF Deliver, End, TypeOK
  <2>2. \A x \in Requests : /\ req'[x] = None <=> pc'[x] \in {"new", "ended"}
                            /\ pc'[x] \in {"refresh", "serve"} /\ req'[x].op # "login"
                                   => req'[x].cookie # None
    BY <1>t, <1>7 DEF TypeOK
  <2>3. cookie' \in Cookie \cup {None}
    BY <1>t, <1>3, <1>5 DEF TypeOK
  <2>4. lingering' \subseteq Requests /\ out' \in BOOLEAN
    BY <1>t, <1>6 DEF TypeOK
  <2> QED
    BY <1>t, <1>7, <2>1, <2>2, <2>3, <2>4 DEF TypeOK
<1>9. AllFacts'
  <2>1. SUFFICES ASSUME NEW x \in Requests, pc'[x] \in UnderWay PROVE Facts(x, req[x], pc[x])'
    BY DEF AllFacts
  <2>2. x # t /\ req'[x] = req[x] /\ pc'[x] = pc[x]
    BY <1>7, <2>1 DEF UnderWay
  <2>3. Facts(x, req[x], pc[x]) /\ (req[x].cookie # None => req[x].cookie.pair \in Requests)
    BY <2>1, <2>2, HandlerTyped
  <2>4. \A y \in Requests : pc[y] = "ended" => pc'[y] = "ended"
    BY <1>7
  <2>5. out' => x \in lingering' \/ (out /\ lingering' = lingering)
    BY <1>6, <2>1, <2>2
  <2> QED
    BY <2>2, <2>3, <2>4, <2>5 DEF Facts
<1>10. h.set \in Cookie => cookie'.pair = t /\ t \notin spent
  BY <1>1, <1>3, <1>5 DEF Facts, SInv, Arrived
<1>11. cookie # None => cookie.pair \in Requests
  BY <1>t DEF TypeOK, Cookie
<1>12. Arrived'
  BY <1>3, <1>5, <1>7, <1>10, <1>11, <1>t DEF SInv, Arrived, TypeOK
<1>13. CookieIsLive'
  <2>1. CASE h.set = None
    <3>1. h.spends = None
      BY <1>3, <2>1 DEF Facts
    <3> QED
      BY <1>2, <1>5, <1>7, <1>11, <2>1, <3>1, RequestAssumption DEF SInv, CookieIsLive
  <2>2. CASE h.set # None
    BY <1>3, <1>5, <1>7, <1>10, <2>2 DEF CookieIsLive
  <2> QED
    BY <2>1, <2>2
<1>14. LogoutHolds'
  <2>1. CASE h.op = "logout"
    BY <1>3, <1>4, <1>5, <2>1 DEF Facts, LogoutHolds
  <2>2. CASE h.op = "login"
    BY <1>6, <2>2 DEF LogoutHolds
  <2>3. CASE h.op = "page" /\ h.set \in Cookie
    BY <1>3, <1>6, <1>10, <2>3 DEF Facts, LogoutHolds
  <2>4. CASE h.op = "page" /\ h.set \notin Cookie
    BY <1>3, <1>5, <1>6, <2>4 DEF SInv, LogoutHolds
  <2> QED
    BY <1>6, <2>1, <2>2, <2>3, <2>4
<1> QED
  BY <1>8, <1>9, <1>12, <1>13, <1>14 DEF SInv

LEMMA SInvInit == Init => SInv
<1> SUFFICES ASSUME Init PROVE SInv
  OBVIOUS
<1>1. \A t \in Requests : pc[t] = "new" /\ req[t] = None /\ pc[t] \notin UnderWay
  BY DEF Init, UnderWay
<1>2. TypeOK
  <2>1. pc \in [Requests -> {"new", "ended"} \cup UnderWay] /\ req \in [Requests -> Handler \cup {None}]
    BY ZenonT(30) DEF Init
  <2>2. now \in 0 .. MaxTime
    BY TimeAssumption DEF Init
  <2>3. cookie \in Cookie \cup {None} /\ spent \cup lost \cup lingering \subseteq Requests /\ out \in BOOLEAN
    BY DEF Init
  <2>4. \A t \in Requests :
           /\ req[t] = None <=> pc[t] \in {"new", "ended"}
           /\ pc[t] \in {"refresh", "serve"} /\ req[t].op # "login" => req[t].cookie # None
    BY <1>1
  <2> QED
    BY <2>1, <2>2, <2>3, <2>4 DEF TypeOK
<1>3. AllFacts /\ Arrived
  BY <1>1 DEF Init, AllFacts, Arrived
<1>4. CookieIsLive /\ LogoutHolds
  BY DEF Init, CookieIsLive, LogoutHolds
<1> QED
  BY <1>2, <1>3, <1>4 DEF SInv

LEMMA SInvNext == SInv /\ [Next]_vars => SInv'
BY SendInv, MiddlewareInv, RefreshInv, RefreshFailsInv, StoreInv, StoreFailsInv, LoginInv,
   PageInv, ClearInv, DeliverInv, TickInv DEF Next, Served

LEMMA SInvAlways == Spec => []SInv
BY SInvInit, SInvNext, PTL DEF Spec

-----------------------------------------------------------------------------

\* The cookie, the handlers and what they hold have their types; a handler that
\* refreshes or serves has a session to do it with.
THEOREM TypeCorrect == Spec => []TypeOK
<1>1. SInv => TypeOK
  BY DEF SInv
<1> QED
  BY <1>1, SInvAlways, PTL

\* However requests overlap and whatever answers are lost, the browser holds a
\* spent pair for one of two reasons only: an answer that was lost, or a request
\* that is still under way.
THEOREM LiveCookies == Spec => []CookieIsLive
<1>1. SInv => CookieIsLive
  BY DEF SInv
<1> QED
  BY <1>1, SInvAlways, PTL

\* After a logout, a session comes back by a login or by a request that was
\* under way at the logout, and by nothing else.
THEOREM LogoutsHold == Spec => []LogoutHolds
<1>1. SInv => LogoutHolds
  BY DEF SInv
<1> QED
  BY <1>1, SInvAlways, PTL
=============================================================================
