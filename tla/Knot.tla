-------------------------------- MODULE Knot --------------------------------
(***************************************************************************)
(* A knot server (knotserver/handler.go, routes.go, internal.go,           *)
(* jetstream.go, knotserver/db) with the two programs that sshd runs on    *)
(* it, keyfetch and repoguard.                                             *)
(*                                                                         *)
(* Three tables and the repository directories survive a restart.  The     *)
(* enforcer's auto-save is on: every operation of rbac.go writes the acl   *)
(* table and then the model, so one value, policy, stands for both.        *)
(*                                                                         *)
(* The processes are those of Http, each serving one request or one ssh    *)
(* session, and Firehose, the sequential scheduler of the Jetstream        *)
(* client, which handles one event after the other.  A handler             *)
(* takes one step for each call that writes a table or asks the appview    *)
(* for keys, and any of these calls may fail, which ends the handler and   *)
(* leaves what was done before.                                            *)
(***************************************************************************)
EXTENDS Rbac

CONSTANTS
    ThisServer,    \* the only domain of a knot's policy
    Http,          \* the requests and ssh sessions of a behaviour
    Firehose,      \* the goroutine that handles Jetstream events
    None

ASSUME ThisServerAssumption == Domains = {ThisServer}
ASSUME FirehoseAssumption == Firehose \notin Http

Processes == Http \cup {Firehose}

HttpOps == {"Init", "AddMember", "AddRepoCollaborator", "NewRepo", "Push"}
FirehoseOps == {"KnotMember", "PublicKey"}

\* who: the DID the handler is about; by: who asked for it, as far as it knows
Call == [op : HttpOps \cup FirehoseOps, who : Dids, by : Dids, repo : Repos \cup {None}]
ASSUME NoneAssumption == None \notin Dids \cup Repos \cup Call

ActiveSteps == {"did", "grant", "fetch", "close", "create", "key", "push", "deferred"}
Steps == ActiveSteps \cup {"idle", "done"}

VARIABLES
    known,            \* known_dids
    keys,             \* the DIDs with rows in public_keys
    policy,           \* the acl table, and the model
    dirs,             \* the repositories with a directory
    knotInitialized,  \* set by Setup only
    initClosed,       \* whether the channel init is closed
    wanted,           \* WantedDids of the Jetstream client
    subscribed,       \* the DIDs of the live subscription, {} when it is cancelled
    pc, req,          \* each process: next step, arguments
    appointed,        \* history: the DIDs Init was asked to make owner
    enlisted,         \* history: <<who, by>>, whom PUT /member/add (by = who) or a
                      \* record of by on the firehose was to make a member
    invited,          \* history: <<who, repo>>, whom a collaborator/add named
    broken            \* history: repositories whose NewRepo stopped half-way

tables == <<known, keys, policy, dirs>>
setup == <<knotInitialized, initClosed>>
jetstream == <<wanted, subscribed>>
history == <<appointed, enlisted, invited, broken>>
vars == <<tables, setup, jetstream, pc, req, history>>

TypeOK ==
    /\ known \subseteq Dids
    /\ keys \subseteq Dids
    /\ policy \in Policy
    /\ dirs \subseteq Repos
    /\ knotInitialized \in BOOLEAN
    /\ initClosed \in BOOLEAN
    /\ wanted \subseteq Dids
    /\ subscribed \subseteq Dids
    /\ pc \in [Processes -> Steps]
    /\ req \in [Processes -> Call \cup {None}]
    /\ appointed \subseteq Dids
    /\ enlisted \subseteq Dids \X Dids
    /\ invited \subseteq Dids \X Repos
    /\ broken \subseteq Repos
    /\ \A t \in Processes : req[t] = None <=> pc[t] \in {"idle", "done"}

\* Setup on an empty database
Init ==
    /\ known = {}
    /\ keys = {}
    /\ policy = AddDomain(EmptyPolicy, ThisServer)
    /\ dirs = {}
    /\ knotInitialized = FALSE
    /\ initClosed = FALSE
    /\ wanted = {}
    /\ subscribed = {}
    /\ pc = [t \in Processes |-> "idle"]
    /\ req = [t \in Processes |-> None]
    /\ appointed = {}
    /\ enlisted = {}
    /\ invited = {}
    /\ broken = {}

-----------------------------------------------------------------------------
(* Control of a handler.                                                    *)

Arrive(t, op, who, by, repo, step) ==
    /\ pc[t] = "idle"
    /\ pc' = [pc EXCEPT ![t] = step]
    /\ req' = [req EXCEPT ![t] = [op |-> op, who |-> who, by |-> by, repo |-> repo]]

At(t, op, step) == pc[t] = step /\ req[t].op = op

Goto(t, step) ==
    /\ pc' = [pc EXCEPT ![t] = step]
    /\ UNCHANGED req

\* an event's handler ends with its deferred function, a request's at once
Finish(t) ==
    IF t = Firehose
    THEN Goto(t, "deferred")
    ELSE /\ pc' = [pc EXCEPT ![t] = "done"]
         /\ req' = [req EXCEPT ![t] = None]

Fails(t) ==
    /\ Finish(t)
    /\ UNCHANGED <<tables, setup, jetstream, history>>

-----------------------------------------------------------------------------
(* POST /init: knotInitialized is read, and never set.                      *)

\* mutant: the knot that is initialised already is not refused
InitKnot_Unchecked(t, u) ==
    /\ Arrive(t, "Init", u, u, None, "did")
    /\ appointed' = appointed \cup {u}
    /\ UNCHANGED <<tables, setup, jetstream, enlisted, invited, broken>>

InitKnot(t, u) ==
    /\ ~knotInitialized
    /\ Arrive(t, "Init", u, u, None, "did")
    /\ appointed' = appointed \cup {u}
    /\ UNCHANGED <<tables, setup, jetstream, enlisted, invited, broken>>

\* UpdateDids, which has the subscription closed after the event that is
\* handled, and AddOwner
InitKnotGrant(t) ==
    /\ At(t, "Init", "grant")
    /\ wanted' = wanted \cup {req[t].who}
    /\ subscribed' = subscribed \/ (subscribed' = {} /\ pc[Firehose] = "idle")
    /\ \/ /\ policy' = AddOwner(policy, ThisServer, req[t].who)
          /\ Goto(t, "fetch")
       \/ /\ UNCHANGED policy
          /\ Finish(t)
    /\ UNCHANGED <<known, keys, dirs, setup, history>>

\* closing init a second time panics, and net/http ends the request
InitKnotClose(t) ==
    /\ At(t, "Init", "close")
    /\ initClosed' = TRUE
    /\ Finish(t)
    /\ UNCHANGED <<tables, knotInitialized, jetstream, history>>

-----------------------------------------------------------------------------
(* PUT /member/add and POST /{did}/{name}/collaborator/add.                 *)

AddMemberHandler(t, u) ==
    /\ Arrive(t, "AddMember", u, u, None, "did")
    /\ enlisted' = enlisted \cup {<<u, u>>}
    /\ UNCHANGED <<tables, setup, jetstream, appointed, invited, broken>>

\* mutant: the Jetstream client is not told
AddMemberGrant_NotWanted(t) ==
    /\ At(t, "AddMember", "grant")
    /\ policy' = AddMember(policy, ThisServer, req[t].who)
    /\ Goto(t, "fetch")
    /\ UNCHANGED <<known, keys, dirs, setup, jetstream, history>>

\* mutant: the live subscription is taken to follow the list
AddMemberGrant_Live(t) ==
    /\ At(t, "AddMember", "grant")
    /\ wanted' = wanted \cup {req[t].who}
    /\ subscribed' = subscribed \cup {req[t].who}
    /\ policy' = AddMember(policy, ThisServer, req[t].who)
    /\ Goto(t, "fetch")
    /\ UNCHANGED <<known, keys, dirs, setup, history>>

\* jc.AddDid, which leaves the live subscription alone, and AddMember
AddMemberGrant(t) ==
    /\ At(t, "AddMember", "grant")
    /\ wanted' = wanted \cup {req[t].who}
    /\ \/ /\ policy' = AddMember(policy, ThisServer, req[t].who)
          /\ Goto(t, "fetch")
       \/ /\ UNCHANGED policy
          /\ Finish(t)
    /\ UNCHANGED <<known, keys, dirs, setup, subscribed, history>>

\* mutant: the repository's name is not read from the request
AddRepoCollaborator_NoRepo(t, u, repo) ==
    /\ Arrive(t, "AddRepoCollaborator", u, u, None, "did")
    /\ invited' = invited \cup {<<u, repo>>}
    /\ UNCHANGED <<tables, setup, jetstream, appointed, enlisted, broken>>

\* The route is outside of the group of VerifySignature: whoever reaches the
\* knot may ask, and nothing checks that the repository is there.
AddRepoCollaborator(t, u, repo) ==
    /\ Arrive(t, "AddRepoCollaborator", u, u, repo, "did")
    /\ invited' = invited \cup {<<u, repo>>}
    /\ UNCHANGED <<tables, setup, jetstream, appointed, enlisted, broken>>

AddRepoCollaboratorGrant(t) ==
    /\ At(t, "AddRepoCollaborator", "grant")
    /\ wanted' = wanted \cup {req[t].who}
    /\ \/ /\ policy' = AddCollaborator(policy, req[t].who, ThisServer, req[t].repo)
          /\ Goto(t, "fetch")
       \/ /\ UNCHANGED policy
          /\ Finish(t)
    /\ UNCHANGED <<known, keys, dirs, setup, subscribed, history>>

-----------------------------------------------------------------------------
(* Steps these handlers share with one another, and with an event's.        *)

\* the DID that becomes known is the event's sender, not the member it names
Subject(t) == IF t = Firehose THEN req[t].by ELSE req[t].who

\* mutant: AddDid comes after the grant, as it does for an event
AddDid_Later(t) ==
    /\ pc[t] = "did"
    /\ Goto(t, IF t = Firehose THEN "fetch" ELSE "grant")
    /\ UNCHANGED <<tables, setup, jetstream, history>>

AddDid(t) ==
    /\ pc[t] = "did"
    /\ known' = known \cup {Subject(t)}
    /\ Goto(t, IF t = Firehose THEN "fetch" ELSE "grant")
    /\ UNCHANGED <<keys, policy, dirs, setup, jetstream, history>>

AddDidFails(t) ==
    /\ pc[t] = "did"
    /\ Fails(t)

\* fetchAndAddKeys: a user without keys is no error, and an error may come
\* after some keys were added
FetchKeys(t) ==
    /\ pc[t] = "fetch"
    /\ keys' \in {keys, keys \cup {Subject(t)}}
    /\ Finish(t) \/ (req[t].op = "Init" /\ Goto(t, "close"))
    /\ UNCHANGED <<known, policy, dirs, setup, jetstream, history>>

-----------------------------------------------------------------------------
(* PUT /repo/new and DELETE /repo.                                          *)

\* InitBare: go-git looks for HEAD, then writes it
NewRepo(t, repo) ==
    /\ repo \notin dirs
    /\ Arrive(t, "NewRepo", repo[1], repo[1], repo, "create")
    /\ UNCHANGED <<tables, setup, jetstream, history>>

NewRepoCreate(t) ==
    /\ At(t, "NewRepo", "create")
    /\ dirs' = dirs \cup {req[t].repo}
    /\ Goto(t, "grant")
    /\ UNCHANGED <<known, keys, policy, setup, jetstream, history>>

\* the directory may be there all the same: the branch is written after it
NewRepoCreateFails(t) ==
    /\ At(t, "NewRepo", "create")
    /\ dirs' \in {dirs, dirs \cup {req[t].repo}}
    /\ broken' = broken \cup {req[t].repo}
    /\ Finish(t)
    /\ UNCHANGED <<known, keys, policy, setup, jetstream, appointed, enlisted, invited>>

NewRepoGrant(t) ==
    /\ At(t, "NewRepo", "grant")
    /\ policy' = AddRepo(policy, req[t].who, ThisServer, req[t].repo)
    /\ Finish(t)
    /\ UNCHANGED <<known, keys, dirs, setup, jetstream, history>>

\* mutant: the failure is reported as a success
NewRepoGrantFails_Unseen(t) ==
    /\ At(t, "NewRepo", "grant")
    /\ Fails(t)

\* the directory stays
NewRepoGrantFails(t) ==
    /\ At(t, "NewRepo", "grant")
    /\ broken' = broken \cup {req[t].repo}
    /\ Finish(t)
    /\ UNCHANGED <<tables, setup, jetstream, appointed, enlisted, invited>>

\* the rules stay
RemoveRepo(repo) ==
    /\ dirs' = dirs \ {repo}
    /\ UNCHANGED <<known, keys, policy, setup, jetstream, pc, req, history>>

-----------------------------------------------------------------------------
(* git push over ssh: keyfetch lists the keys of the knot, each with the    *)
(* DID that repoguard will be run for; repoguard asks PushAllowed, then     *)
(* runs git-receive-pack, which fails without a directory.                  *)

\* mutant: repoguard asks whether the user may create repositories
Push_AnyMember(t, u, repo) ==
    /\ u \in keys
    /\ Enforce(policy, u, ThisServer, ThisServer, "repo:create")
    /\ Arrive(t, "Push", u, u, repo, "push")
    /\ UNCHANGED <<tables, setup, jetstream, history>>

Push(t, u, repo) ==
    /\ u \in keys
    /\ Enforce(policy, u, ThisServer, repo, "repo:push")
    /\ Arrive(t, "Push", u, u, repo, "push")
    /\ UNCHANGED <<tables, setup, jetstream, history>>

PushEnds(t) ==
    /\ At(t, "Push", "push")
    /\ Finish(t)
    /\ UNCHANGED <<tables, setup, jetstream, history>>

-----------------------------------------------------------------------------
(* Jetstream.                                                               *)

\* connectAndRead, after the connection was cancelled or lost: the
\* subscription asks for the DIDs wanted at that time
Connect ==
    /\ pc[Firehose] = "idle"
    /\ wanted # {}
    /\ subscribed' = wanted
    /\ UNCHANGED <<tables, setup, wanted, pc, req, history>>

\* mutant: whoever sends the record may add the member
KnotMember_Unchecked(u, m) ==
    /\ u \in subscribed
    /\ Arrive(Firehose, "KnotMember", m, u, None, "grant")
    /\ enlisted' = enlisted \cup {<<m, u>>}
    /\ UNCHANGED <<tables, setup, jetstream, appointed, invited, broken>>

\* a knot.member record for this knot, by somebody who may invite
KnotMember(u, m) ==
    /\ u \in subscribed
    /\ Enforce(policy, u, ThisServer, ThisServer, "server:invite")
    /\ Arrive(Firehose, "KnotMember", m, u, None, "grant")
    /\ enlisted' = enlisted \cup {<<m, u>>}
    /\ UNCHANGED <<tables, setup, jetstream, appointed, invited, broken>>

KnotMemberGrant ==
    /\ At(Firehose, "KnotMember", "grant")
    /\ \/ /\ policy' = AddMember(policy, ThisServer, req[Firehose].who)
          /\ Goto(Firehose, "did")
       \/ /\ UNCHANGED policy
          /\ Finish(Firehose)
    /\ UNCHANGED <<known, keys, dirs, setup, jetstream, history>>

\* A record that is refused (it is for another knot, it cannot be read, its
\* sender may not invite) ends as this one does when its key is not added.
PublicKey(u) ==
    /\ u \in subscribed
    /\ Arrive(Firehose, "PublicKey", u, u, None, "key")
    /\ UNCHANGED <<tables, setup, jetstream, history>>

PublicKeyAdd ==
    /\ At(Firehose, "PublicKey", "key")
    /\ keys' \in {keys, keys \cup {req[Firehose].by}}
    /\ Finish(Firehose)
    /\ UNCHANGED <<known, policy, dirs, setup, jetstream, history>>

\* UpdateDids, which cancels the subscription
Deferred ==
    /\ pc[Firehose] = "deferred"
    /\ wanted' = wanted \cup {req[Firehose].by}
    /\ subscribed' = {}
    /\ pc' = [pc EXCEPT ![Firehose] = "idle"]
    /\ req' = [req EXCEPT ![Firehose] = None]
    /\ UNCHANGED <<tables, setup, history>>

-----------------------------------------------------------------------------
(* The process dies, and Setup runs again; an ssh session is not part of it. *)

Remains(t) == t # Firehose /\ pc[t] = "push"

AfterRestart(t) ==
    CASE Remains(t) -> "push"
      [] t = Firehose -> "idle"
      [] OTHER -> IF pc[t] = "idle" THEN "idle" ELSE "done"

Restart ==
    /\ policy' = AddDomain(policy, ThisServer)
    /\ knotInitialized' = (known # {})
    /\ initClosed' = (known # {})
    /\ wanted' = known
    /\ subscribed' = {}
    /\ pc' = [t \in Processes |-> AfterRestart(t)]
    /\ req' = [t \in Processes |-> IF Remains(t) THEN req[t] ELSE None]
    /\ broken' = broken \cup {req[t].repo : t \in {x \in Processes : At(x, "NewRepo", "grant")}}
    /\ UNCHANGED <<known, keys, dirs, appointed, enlisted, invited>>

-----------------------------------------------------------------------------
Request(t) ==
    \/ \E u \in Dids : InitKnot(t, u)
    \/ \E u \in Dids : AddMemberHandler(t, u)
    \/ \E u \in Dids, repo \in Repos : AddRepoCollaborator(t, u, repo)
    \/ \E repo \in Repos : NewRepo(t, repo)
    \/ \E u \in Dids, repo \in Repos : Push(t, u, repo)

Work(t) ==
    \/ AddDid(t)
    \/ AddDidFails(t)
    \/ FetchKeys(t)
    \/ InitKnotGrant(t)
    \/ InitKnotClose(t)
    \/ AddMemberGrant(t)
    \/ AddRepoCollaboratorGrant(t)
    \/ NewRepoCreate(t)
    \/ NewRepoCreateFails(t)
    \/ NewRepoGrant(t)
    \/ NewRepoGrantFails(t)
    \/ PushEnds(t)

Event ==
    \/ \E u, m \in Dids : KnotMember(u, m)
    \/ \E u \in Dids : PublicKey(u)
    \/ KnotMemberGrant
    \/ PublicKeyAdd
    \/ Deferred

Next ==
    \/ \E t \in Http : Request(t)
    \/ \E t \in Processes : Work(t)
    \/ \E repo \in Repos : RemoveRepo(repo)
    \/ Event
    \/ Connect
    \/ Restart

Spec == Init /\ [][Next]_vars

-----------------------------------------------------------------------------
(* Properties.                                                              *)

\* Whoever repoguard lets push to a repository owns it, or a collaborator/add
\* named them for a repository of that owner whose name, as a pattern, matches
\* this one's; and the knot knows them, since their key came from it.  This
\* holds for a repository that is removed and made again, and for the session
\* that a restart finds in the middle of its push.
PushChain ==
    \A t \in Processes : pc[t] = "push" =>
        /\ \/ req[t].who = req[t].repo[1]
           \/ \E repo \in Repos : <<req[t].who, repo>> \in invited /\ keyMatch2(req[t].repo, repo)
        /\ req[t].who \in known

IsOwner(u) == HasGroupingPolicy(policy, u, Owner, ThisServer)

\* An owner was named by an init that got through; a member by the appview, or
\* by a firehose record of somebody who is an owner: processKnotMember checks
\* that before it adds.
RolesChain ==
    \A x \in policy.g : x.sub \in Dids =>
        \/ x.role = Owner /\ x.sub \in appointed \cap known
        \/ /\ x.role = Member
           /\ \E by \in Dids : /\ <<x.sub, by>> \in enlisted
                               /\ by = x.sub \/ IsOwner(by)

\* The firehose and the keys are about known DIDs only, so that no row of
\* public_keys misses its known_dids row (its foreign key is enforced on one
\* connection of the pool only).
OnlyKnown ==
    /\ subscribed \subseteq wanted
    /\ wanted \subseteq known
    /\ keys \subseteq known

\* When no handler runs, the DIDs the Jetstream client wants are the known
\* ones, before a restart and after it.
KnownIsWanted == (\A t \in Processes : pc[t] \in {"idle", "done", "push"}) => wanted = known

Handling(op, repo) ==
    \E t \in Processes : pc[t] \in ActiveSteps /\ req[t].op = op /\ req[t].repo = repo

\* A repository's owner may push to it, unless its NewRepo failed, or died,
\* between the directory and the rules, or its name holds a pattern that does
\* not match itself, as "[x]" does not.
OwnerPushes ==
    \A repo \in dirs : keyMatch2(repo, repo) =>
        \/ Enforce(policy, repo[1], ThisServer, repo, "repo:push")
        \/ Handling("NewRepo", repo)
        \/ repo \in broken

\* Once Setup has found the knot initialised, no init gives it another owner.
OwnersFixed ==
    [][knotInitialized => \A u \in Dids : IsOwner(u)' => IsOwner(u)]_vars

\* The knot does not ask more of the firehose than the client gives: it serves
\* one event after the other, from the DIDs of the connection.
Client == INSTANCE Subscription WITH
    serving <- IF req[Firehose] = None THEN None ELSE req[Firehose].by

ServesInOrder == Client!Spec

\* "closed when the knot has been initailized i.e. when the first user (knot
\* owner) has been added" (handler.go:27)
ClosedHasOwner == initClosed => \E u \in Dids : IsOwner(u)
=============================================================================
