----------------------------- MODULE AppviewAcl -----------------------------
(***************************************************************************)
(* The appview's permission store and the handlers that change it          *)
(* (appview/state/state.go, appview/state/repo.go).                        *)
(*                                                                         *)
(* The process holds one casbin model in memory (mem), shared by every     *)
(* request with no lock of its own.  NewEnforcer turns auto-save off, so a *)
(* change reaches the acl table only when a handler calls SavePolicy,      *)
(* which replaces the whole table by the whole model, and a handler that   *)
(* opened an SQL transaction ends it with a deferred Rollback and          *)
(* LoadPolicy, which replaces the whole model by the whole table.  Both    *)
(* are two steps here: copy, then replace; other requests run in between.  *)
(*                                                                         *)
(* A request is served by a goroutine of its own, once.  Between its calls *)
(* to the database, the enforcer and the knot it runs as one step.         *)
(* SQLite lets one transaction write at a time (writer).  A knot is the    *)
(* other end of the signed calls: of its state only what decides its       *)
(* answers is kept (disk, initialised).                                    *)
(***************************************************************************)
EXTENDS Rbac, Naturals, FiniteSets

CONSTANTS
    Requests,      \* the requests of a behaviour
    MaxInFlight,   \* bound: how many of them are served at the same time
    DefaultKnot,   \* the knot every login is added to (knot1.tangled.sh)
    Ops,           \* the handlers in use
    KnotCodes,     \* what a knot may answer: "204", "409", "err", "other"
    MayCrash,      \* whether the process may die
    None

ASSUME DefaultKnotAssumption == DefaultKnot \in Domains
ASSUME MaxInFlightAssumption == MaxInFlight \in Nat
ASSUME OpsAssumption ==
    Ops \subseteq {"RegistrationKey", "InitKnotServer", "AddMember", "Login",
                   "NewRepo", "AddCollaborator"}
ASSUME MayCrashAssumption == MayCrash \in BOOLEAN

Call == [op : Ops, user : Dids, dom : Domains, repo : Repos \cup {None},
         who : Dids]    \* who: the DID the handler is about to grant to
ASSUME NoneAssumption == None \notin Dids \cup Repos \cup Requests \cup Call

InFlightSteps == {"upsert", "callKnot", "insert", "register", "grant", "grantOwner",
                  "link", "commit", "snapshot", "write", "read", "swap"}
Steps == InFlightSteps \cup {"new", "done"}

VARIABLES
    mem,            \* the enforcer's model, in memory
    acl,            \* the acl table
    claimant,       \* registrations.did of each domain, None without a row
    registered,     \* the domains whose registrations.registered is set
    rows,           \* the repos table
    collaborators,  \* the collaborators table
    writer,         \* the request whose transaction has written, or None
    disk,           \* the repositories each knot has a directory for
    initialised,    \* the knots that answered an init
    pc, req, buf,   \* each request: next step, arguments, copied policy
    admissions,     \* history: who was made owner or member of a knot, by whom
    invitations,    \* history: who was made collaborator, by whom
    unsaved,        \* history: handlers that committed, and ended before they saved
    leftover        \* history: what a reload that failed has left in the model

tables == <<claimant, registered, rows, collaborators>>
knots == <<disk, initialised>>
history == <<admissions, invitations>>
vars == <<mem, acl, tables, writer, knots, pc, req, buf, history, unsaved, leftover>>

Row == [repo : Repos, dom : Domains, rkey : Requests]
Collaboration == [who : Dids, repo : Repos, dom : Domains]
Admission == [by : Dids, who : Dids, role : Roles, dom : Domains]
Invitation == [by : Dids, who : Dids, repo : Repos, dom : Domains]

TypeOK ==
    /\ mem \in Policy
    /\ acl \in Policy
    /\ claimant \in [Domains -> Dids \cup {None}]
    /\ registered \subseteq Domains
    /\ rows \subseteq Row
    /\ collaborators \subseteq Collaboration
    /\ writer \in Requests \cup {None}
    /\ disk \subseteq Repos \X Domains
    /\ initialised \subseteq Domains
    /\ pc \in [Requests -> Steps]
    /\ req \in [Requests -> Call \cup {None}]
    /\ buf \in [Requests -> Policy]
    /\ admissions \subseteq Admission
    /\ invitations \subseteq Invitation
    /\ unsaved \subseteq [op : Ops, dom : Domains]
    /\ leftover \in Policy
    /\ \A t \in Requests : req[t] # None <=> pc[t] \in InFlightSteps

Init ==
    /\ mem = EmptyPolicy
    /\ acl = EmptyPolicy
    /\ claimant = [d \in Domains |-> None]
    /\ registered = {}
    /\ rows = {}
    /\ collaborators = {}
    /\ writer = None
    /\ disk = {}
    /\ initialised = {}
    /\ pc = [t \in Requests |-> "new"]
    /\ req = [t \in Requests |-> None]
    /\ buf = [t \in Requests |-> EmptyPolicy]
    /\ admissions = {}
    /\ invitations = {}
    /\ unsaved = {}
    /\ leftover = EmptyPolicy

-----------------------------------------------------------------------------
(* Control of a request.                                                    *)

InFlight == {t \in Requests : pc[t] \in InFlightSteps}

\* a request arrives and runs up to its first step that others can interleave
Arrive(t, op, user, dom, repo, who, step) ==
    /\ op \in Ops
    /\ pc[t] = "new"
    /\ Cardinality(InFlight) < MaxInFlight
    /\ pc' = [pc EXCEPT ![t] = step]
    /\ req' = [req EXCEPT ![t] = [op |-> op, user |-> user, dom |-> dom,
                                  repo |-> repo, who |-> who]]

At(t, op, step) == pc[t] = step /\ req[t].op = op

Goto(t, step) ==
    /\ pc' = [pc EXCEPT ![t] = step]
    /\ UNCHANGED req

Finish(t) ==
    /\ pc' = [pc EXCEPT ![t] = "done"]
    /\ req' = [req EXCEPT ![t] = None]

HasKey(d) == claimant[d] # None

\* A statement that writes has the write lock, or waits until it has it.  It
\* fails when it has waited for longer than busy_timeout, when the request's
\* context is done or the disk is full: at any time, as far as can be told here.
CanWrite(t) == writer \in {None, t}

-----------------------------------------------------------------------------
(* POST /knots/key: GenerateRegistrationKey reads the row, then upserts it. *)

\* mutant: the "already registered" check is gone
RegistrationKey_Unchecked(t, user, dom) ==
    /\ Arrive(t, "RegistrationKey", user, dom, None, user, "upsert")
    /\ UNCHANGED <<mem, acl, tables, writer, knots, buf, history, unsaved, leftover>>

RegistrationKey(t, user, dom) ==
    /\ dom \notin registered
    /\ Arrive(t, "RegistrationKey", user, dom, None, user, "upsert")
    /\ UNCHANGED <<mem, acl, tables, writer, knots, buf, history, unsaved, leftover>>

\* on conflict(domain) do update set did, secret, created: registered stays
RegistrationKeyUpsert(t) ==
    /\ At(t, "RegistrationKey", "upsert")
    /\ CanWrite(t)
    /\ claimant' = [claimant EXCEPT ![req[t].dom] = req[t].user]
    /\ Finish(t)
    /\ UNCHANGED <<mem, acl, registered, rows, collaborators, writer, knots, buf,
                   history, unsaved, leftover>>

RegistrationKeyFails(t) ==
    /\ At(t, "RegistrationKey", "upsert")
    /\ Finish(t)
    /\ UNCHANGED <<mem, acl, tables, writer, knots, buf, history, unsaved, leftover>>

-----------------------------------------------------------------------------
(* POST /knots/{domain}/init: any logged-in user may ask.                   *)

\* mutant: a domain without a registration is let through
InitKnotServer_NoKey(t, user, dom) ==
    /\ Arrive(t, "InitKnotServer", user, dom, None, user, "callKnot")
    /\ UNCHANGED <<mem, acl, tables, writer, knots, buf, history, unsaved, leftover>>

InitKnotServer(t, user, dom) ==
    /\ HasKey(dom)
    /\ Arrive(t, "InitKnotServer", user, dom, None, user, "callKnot")
    /\ UNCHANGED <<mem, acl, tables, writer, knots, buf, history, unsaved, leftover>>

\* the knot says 204 once; an error or a timeout may hide that it did
InitKnotServerAnswer(t, code) ==
    /\ At(t, "InitKnotServer", "callKnot")
    /\ code \in KnotCodes
    /\ LET d == req[t].dom IN
       \/ /\ code = "204" /\ d \notin initialised
          /\ initialised' = initialised \cup {d}
          /\ Goto(t, "register")
       \/ /\ code = "409" /\ d \in initialised
          /\ Finish(t)
          /\ UNCHANGED initialised
       \/ /\ code \in {"err", "other"}
          /\ initialised' \in {initialised, initialised \cup {d}}
          /\ Finish(t)
    /\ UNCHANGED <<mem, acl, tables, writer, disk, buf, history, unsaved, leftover>>

\* db.Register, then db.RegistrationByDomain in the same transaction: the
\* owner will be the row's did, whoever asked
InitKnotServerRegister(t) ==
    /\ At(t, "InitKnotServer", "register")
    /\ CanWrite(t)
    /\ writer' = t
    /\ pc' = [pc EXCEPT ![t] = "grant"]
    /\ req' = [req EXCEPT ![t].who = claimant[req[t].dom]]
    /\ UNCHANGED <<mem, acl, tables, knots, buf, history, unsaved, leftover>>

InitKnotServerAddDomain(t) ==
    /\ At(t, "InitKnotServer", "grant")
    /\ mem' = AddDomain(mem, req[t].dom)
    /\ Goto(t, "grantOwner")
    /\ UNCHANGED <<acl, tables, writer, knots, buf, history, unsaved, leftover>>

InitKnotServerAddOwner(t) ==
    /\ At(t, "InitKnotServer", "grantOwner")
    /\ mem' = AddOwner(mem, req[t].dom, req[t].who)
    /\ admissions' = admissions \cup {[by |-> req[t].who, who |-> req[t].who,
                                       role |-> Owner, dom |-> req[t].dom]}
    /\ Goto(t, "commit")
    /\ UNCHANGED <<acl, tables, writer, knots, buf, invitations, unsaved, leftover>>

-----------------------------------------------------------------------------
(* PUT /knots/{domain}/member, behind RoleMiddleware("server:owner").       *)

\* mutant: RoleMiddleware is given the members' role
AddMemberToKnot_AnyMember(t, user, dom, who) ==
    /\ HasGroupingPolicy(mem, user, Member, dom) \/ HasGroupingPolicy(mem, user, Owner, dom)
    /\ HasKey(dom)
    /\ Arrive(t, "AddMember", user, dom, None, who, "callKnot")
    /\ UNCHANGED <<mem, acl, tables, writer, knots, buf, history, unsaved, leftover>>

AddMemberToKnot(t, user, dom, who) ==
    /\ HasGroupingPolicy(mem, user, Owner, dom)
    /\ HasKey(dom)
    /\ Arrive(t, "AddMember", user, dom, None, who, "callKnot")
    /\ UNCHANGED <<mem, acl, tables, writer, knots, buf, history, unsaved, leftover>>

AddMemberAnswer(t, code) ==
    /\ At(t, "AddMember", "callKnot")
    /\ code \in KnotCodes
    /\ IF code = "204" THEN Goto(t, "grant") ELSE Finish(t)
    /\ UNCHANGED <<mem, acl, tables, writer, knots, buf, history, unsaved, leftover>>

\* the handler ends here: no SavePolicy follows
AddMemberGrant(t) ==
    /\ At(t, "AddMember", "grant")
    /\ mem' = AddMember(mem, req[t].dom, req[t].who)
    /\ admissions' = admissions \cup {[by |-> req[t].user, who |-> req[t].who,
                                       role |-> Member, dom |-> req[t].dom]}
    /\ Finish(t)
    /\ UNCHANGED <<acl, tables, writer, knots, buf, invitations, unsaved, leftover>>

-----------------------------------------------------------------------------
(* The goroutine Login starts: every user becomes a member of DefaultKnot.  *)

Login(t, user) ==
    /\ Arrive(t, "Login", user, DefaultKnot, None, user, "grant")
    /\ UNCHANGED <<mem, acl, tables, writer, knots, buf, history, unsaved, leftover>>

LoginGrant(t) ==
    /\ At(t, "Login", "grant")
    /\ mem' = AddMember(mem, req[t].dom, req[t].who)
    /\ admissions' = admissions \cup {[by |-> req[t].who, who |-> req[t].who,
                                       role |-> Member, dom |-> req[t].dom]}
    /\ Goto(t, "snapshot")
    /\ UNCHANGED <<acl, tables, writer, knots, buf, invitations, unsaved, leftover>>

-----------------------------------------------------------------------------
(* POST /repo/new.                                                          *)

HasRow(repo) == \E row \in rows : row.repo = repo

\* mutant: repo:create is not asked for
NewRepo_Anyone(t, user, dom, name) ==
    /\ ~HasRow(<<user, name>>)
    /\ HasKey(dom)
    /\ Arrive(t, "NewRepo", user, dom, <<user, name>>, user, "callKnot")
    /\ UNCHANGED <<mem, acl, tables, writer, knots, buf, history, unsaved, leftover>>

\* the checks, and the record on the user's PDS
NewRepo(t, user, dom, name) ==
    /\ Enforce(mem, user, dom, dom, "repo:create")
    /\ ~HasRow(<<user, name>>)
    /\ HasKey(dom)
    /\ Arrive(t, "NewRepo", user, dom, <<user, name>>, user, "callKnot")
    /\ UNCHANGED <<mem, acl, tables, writer, knots, buf, history, unsaved, leftover>>

\* The knot looks for the repository before it writes it: two requests for
\* the same one at the same time can both be told that it was created.
Racing(t) ==
    \E u \in InFlight \ {t} : /\ req[u].op = "NewRepo"
                             /\ req[u].repo = req[t].repo
                             /\ req[u].dom = req[t].dom

\* 409 ends the handler, an error too; every other code goes on, though only
\* 204 means that the knot has the repository
NewRepoAnswer(t, code) ==
    /\ At(t, "NewRepo", "callKnot")
    /\ code \in KnotCodes
    /\ LET here == <<req[t].repo, req[t].dom>> IN
       \/ /\ code = "204" /\ (here \notin disk \/ Racing(t))
          /\ disk' = disk \cup {here}
          /\ Goto(t, "insert")
       \/ /\ code = "409" /\ here \in disk
          /\ Goto(t, "read")
          /\ UNCHANGED disk
       \/ /\ code = "err"
          /\ disk' \in {disk, disk \cup {here}}
          /\ Goto(t, "read")
       \/ /\ code = "other"
          /\ disk' \in {disk, disk \cup {here}}
          /\ Goto(t, "insert")
    /\ UNCHANGED <<mem, acl, tables, writer, initialised, buf, history, unsaved, leftover>>

\* db.AddRepo in the transaction; the row is in rows once it commits
NewRepoInsert(t) ==
    /\ At(t, "NewRepo", "insert")
    /\ CanWrite(t)
    /\ writer' = t
    /\ Goto(t, "grant")
    /\ UNCHANGED <<mem, acl, tables, knots, buf, history, unsaved, leftover>>

NewRepoGrant(t) ==
    /\ At(t, "NewRepo", "grant")
    /\ mem' = AddRepo(mem, req[t].user, req[t].dom, req[t].repo)
    /\ Goto(t, "commit")
    /\ UNCHANGED <<acl, tables, writer, knots, buf, history, unsaved, leftover>>

-----------------------------------------------------------------------------
(* PUT /{user}/{repo}/settings/collaborator, behind                         *)
(* RepoPermissionMiddleware("repo:settings") and ("repo:invite").           *)

\* mutant: the route is registered outside of the middleware's group
AddCollaboratorToRepo_Anyone(t, user, row, who) ==
    /\ row \in rows
    /\ HasKey(row.dom)
    /\ Arrive(t, "AddCollaborator", user, row.dom, row.repo, who, "callKnot")
    /\ UNCHANGED <<mem, acl, tables, writer, knots, buf, history, unsaved, leftover>>

AddCollaboratorToRepo(t, user, row, who) ==
    /\ row \in rows
    /\ Enforce(mem, user, row.dom, row.repo, "repo:settings")
    /\ Enforce(mem, user, row.dom, row.repo, "repo:invite")
    /\ HasKey(row.dom)
    /\ Arrive(t, "AddCollaborator", user, row.dom, row.repo, who, "callKnot")
    /\ UNCHANGED <<mem, acl, tables, writer, knots, buf, history, unsaved, leftover>>

AddCollaboratorAnswer(t, code) ==
    /\ At(t, "AddCollaborator", "callKnot")
    /\ code \in KnotCodes
    /\ IF code = "204" THEN Goto(t, "grant") ELSE Finish(t)
    /\ UNCHANGED <<mem, acl, tables, writer, knots, buf, history, unsaved, leftover>>

AddCollaboratorGrant(t) ==
    /\ At(t, "AddCollaborator", "grant")
    /\ mem' = AddCollaborator(mem, req[t].who, req[t].dom, req[t].repo)
    /\ invitations' = invitations \cup {[by |-> req[t].user, who |-> req[t].who,
                                         repo |-> req[t].repo, dom |-> req[t].dom]}
    /\ Goto(t, "link")
    /\ UNCHANGED <<acl, tables, writer, knots, buf, admissions, unsaved, leftover>>

\* db.AddCollaborator is given s.db, not the transaction: the row stays
\* whatever becomes of the transaction
AddCollaboratorLink(t) ==
    /\ At(t, "AddCollaborator", "link")
    /\ CanWrite(t)
    /\ collaborators' = collaborators \cup {[who |-> req[t].who, repo |-> req[t].repo,
                                             dom |-> req[t].dom]}
    /\ Goto(t, "commit")
    /\ UNCHANGED <<mem, acl, claimant, registered, rows, writer, knots, buf, history,
                   unsaved, leftover>>

-----------------------------------------------------------------------------
(* The end every transaction shares.                                        *)

\* the first write of a transaction, or of AddCollaborator beside its own, fails
WriteFails(t) ==
    /\ pc[t] \in {"insert", "register", "link"}
    /\ Goto(t, "read")
    /\ UNCHANGED <<mem, acl, tables, writer, knots, buf, history, unsaved, leftover>>

Handler(t) == [op |-> req[t].op, dom |-> req[t].dom]

Release(t) == writer' = IF writer = t THEN None ELSE writer

Commit(t) ==
    /\ pc[t] = "commit"
    /\ rows' = IF req[t].op = "NewRepo"
               THEN rows \cup {[repo |-> req[t].repo, dom |-> req[t].dom, rkey |-> t]}
               ELSE rows
    /\ registered' = IF req[t].op = "InitKnotServer"
                     THEN registered \cup {req[t].dom} ELSE registered
    /\ Release(t)
    /\ Goto(t, "snapshot")
    /\ UNCHANGED <<mem, acl, claimant, collaborators, knots, buf, history, unsaved, leftover>>

\* mutants: the error is ignored; the deferred function does not reload
CommitFails_Ignored(t) ==
    /\ pc[t] = "commit"
    /\ Release(t)
    /\ Goto(t, "snapshot")
    /\ UNCHANGED <<mem, acl, tables, knots, buf, history, unsaved, leftover>>

CommitFails_NoReload(t) ==
    /\ pc[t] = "commit"
    /\ Release(t)
    /\ Finish(t)
    /\ UNCHANGED <<mem, acl, tables, knots, buf, history, unsaved, leftover>>

\* the transaction is bound to the request's context: when the client has
\* gone it is rolled back and Commit returns an error
CommitFails(t) ==
    /\ pc[t] = "commit"
    /\ Release(t)
    /\ Goto(t, "read")
    /\ UNCHANGED <<mem, acl, tables, knots, buf, history, unsaved, leftover>>

\* SavePolicy, first half: the rules of the model are copied
SaveSnapshot(t) ==
    /\ pc[t] = "snapshot"
    /\ buf' = [buf EXCEPT ![t] = mem]
    /\ Goto(t, "write")
    /\ UNCHANGED <<mem, acl, tables, writer, knots, history, unsaved, leftover>>

\* after SavePolicy: a transaction's handler goes on to its deferred
\* function, Login's goroutine ends
AfterSave(t) == IF req[t].op = "Login" THEN Finish(t) ELSE Goto(t, "read")

\* second half: the table is emptied and filled in one transaction
SaveWrite(t) ==
    /\ pc[t] = "write"
    /\ CanWrite(t)
    /\ acl' = buf[t]
    /\ buf' = [buf EXCEPT ![t] = EmptyPolicy]
    /\ AfterSave(t)
    /\ UNCHANGED <<mem, tables, writer, knots, history, unsaved, leftover>>

\* ... or that transaction fails, and leaves the table as it was
SaveFails(t) ==
    /\ pc[t] = "write"
    /\ unsaved' = unsaved \cup {Handler(t)}
    /\ buf' = [buf EXCEPT ![t] = EmptyPolicy]
    /\ AfterSave(t)
    /\ UNCHANGED <<mem, acl, tables, writer, knots, history, leftover>>

\* LoadPolicy, first half: the table is read into a fresh model
ReloadRead(t) ==
    /\ pc[t] = "read"
    /\ buf' = [buf EXCEPT ![t] = acl]
    /\ Goto(t, "swap")
    /\ UNCHANGED <<mem, acl, tables, writer, knots, history, unsaved, leftover>>

\* what is left over is still there when it is in the new model too
Replace(pol) ==
    /\ mem' = pol
    /\ leftover' = [p |-> leftover.p \cap pol.p, g |-> leftover.g \cap pol.g]

\* second half: the fresh model replaces the shared one
ReloadSwap(t) ==
    /\ pc[t] = "swap"
    /\ Replace(buf[t])
    /\ buf' = [buf EXCEPT ![t] = EmptyPolicy]
    /\ Finish(t)
    /\ UNCHANGED <<acl, tables, writer, knots, history, unsaved>>

\* The table cannot be read: LoadPolicy returns an error before it replaces
\* anything, the handler logs "failed to rollback policies" and is over.  The
\* model keeps what was to be undone, and the next SavePolicy writes it.
ReloadFails(t) ==
    /\ pc[t] = "read"
    /\ leftover' = [p |-> leftover.p \cup (mem.p \ acl.p),
                    g |-> leftover.g \cup (mem.g \ acl.g)]
    /\ Finish(t)
    /\ UNCHANGED <<mem, acl, tables, writer, knots, buf, history, unsaved>>

\* The process dies and starts again: Make builds a new enforcer, which
\* loads the table; open transactions are gone.
Crash ==
    /\ MayCrash
    /\ Replace(acl)
    /\ writer' = None
    /\ pc' = [t \in Requests |-> IF t \in InFlight THEN "done" ELSE pc[t]]
    /\ req' = [t \in Requests |-> None]
    /\ buf' = [t \in Requests |-> EmptyPolicy]
    /\ unsaved' = unsaved \cup
          {Handler(t) : t \in {u \in Requests : pc[u] \in {"snapshot", "write"}}}
    /\ UNCHANGED <<acl, tables, knots, history>>

\* every request of the behaviour has been served: the server waits for more
Served ==
    /\ \A t \in Requests : pc[t] = "done"
    /\ UNCHANGED vars

-----------------------------------------------------------------------------
Arrival(t) ==
    \/ \E u \in Dids, d \in Domains : RegistrationKey(t, u, d)
    \/ \E u \in Dids, d \in Domains : InitKnotServer(t, u, d)
    \/ \E u \in Dids, d \in Domains, w \in Dids : AddMemberToKnot(t, u, d, w)
    \/ \E u \in Dids : Login(t, u)
    \/ \E u \in Dids, d \in Domains, n \in RepoNames : NewRepo(t, u, d, n)
    \/ \E u \in Dids, row \in rows, w \in Dids : AddCollaboratorToRepo(t, u, row, w)

Answer(t) ==
    \E code \in KnotCodes :
        \/ InitKnotServerAnswer(t, code)
        \/ AddMemberAnswer(t, code)
        \/ NewRepoAnswer(t, code)
        \/ AddCollaboratorAnswer(t, code)

Work(t) ==
    \/ RegistrationKeyUpsert(t)
    \/ RegistrationKeyFails(t)
    \/ InitKnotServerRegister(t)
    \/ InitKnotServerAddDomain(t)
    \/ InitKnotServerAddOwner(t)
    \/ AddMemberGrant(t)
    \/ LoginGrant(t)
    \/ NewRepoInsert(t)
    \/ NewRepoGrant(t)
    \/ AddCollaboratorGrant(t)
    \/ AddCollaboratorLink(t)

Ending(t) ==
    \/ WriteFails(t)
    \/ Commit(t)
    \/ CommitFails(t)
    \/ SaveSnapshot(t)
    \/ SaveWrite(t)
    \/ SaveFails(t)
    \/ ReloadRead(t)
    \/ ReloadSwap(t)
    \/ ReloadFails(t)

Next ==
    \/ \E t \in Requests : Arrival(t) \/ Answer(t) \/ Work(t) \/ Ending(t)
    \/ Crash
    \/ Served

Spec == Init /\ [][Next]_vars

-----------------------------------------------------------------------------
(* Authority.  Whatever the interleaving of handlers, whole-model saves,    *)
(* whole-table reloads, rollbacks and crashes, no copy of the policy holds  *)
(* a permission nobody was entitled to give.                                *)

Copies == {mem, acl} \cup {buf[t] : t \in Requests}

\* A repository's rules are for its owner, for the knot's owner when it is
\* deletion (rbac.go:111), and for those its owner, nobody else, invited.
OwnerGaveIt(r) ==
    \/ r.sub = r.obj[1]
    \/ r.sub = Owner /\ r.act = "repo:delete"
    \/ /\ r.act \in CollaboratorActs
       /\ [by |-> r.obj[1], who |-> r.sub, repo |-> r.obj, dom |-> r.dom] \in invitations

\* Only a repository's owner ever made somebody its collaborator, and a
\* collaborator gets no right to invite, delete or own.
InviteChain ==
    \A pol \in Copies : \A r \in pol.p : r.obj \in Repos => OwnerGaveIt(r)

IsFounder(u, d) == [by |-> u, who |-> u, role |-> Owner, dom |-> d] \in admissions

Admitted(u, r, d) ==
    \/ r = Owner /\ IsFounder(u, d)
    \/ /\ r = Member
       /\ \E by \in Dids :
             /\ [by |-> by, who |-> u, role |-> Member, dom |-> d] \in admissions
             /\ IsFounder(by, d) \/ (by = u /\ d = DefaultKnot)

\* The owner of a knot is the claimant its registration named; a member was
\* let in by such an owner, or by logging in when the knot is the default one.
AdmissionChain ==
    \A pol \in Copies : \A x \in pol.g : x.sub \in Dids => Admitted(x.sub, x.role, x.dom)

\* Every repository listed on a knot belongs to somebody who had been let in
\* on that knot (NewRepo's repo:create check), at whatever time.
CreatorsAdmitted ==
    \A row \in rows : \E r \in Roles : Admitted(row.repo[1], r, row.dom)

-----------------------------------------------------------------------------
(* Agreement of the tables, the acl table and the model.                    *)

Quiet == InFlight = {}

Unsaved(op, d) == [op |-> op, dom |-> d] \in unsaved

\* No repository rule, and no collaborator's rule, is saved before its row is
\* committed, and none survives a rolled-back row, unless the deferred
\* LoadPolicy itself failed: what that left in the model, the next SavePolicy
\* writes.
AclBackedByRow ==
    \A r \in acl.p \ leftover.p : r.obj \in Repos =>
        /\ \E row \in rows : row.repo = r.obj /\ row.dom = r.dom
        /\ (r.act = "repo:collaborator" =>
              [who |-> r.sub, repo |-> r.obj, dom |-> r.dom] \in collaborators)

\* When no request is in flight the model in memory is the saved one, but for
\* the members AddMember put there and what a LoadPolicy that failed has left:
\* every other LoadPolicy has undone what was not committed and saved.
RollbackIsComplete ==
    Quiet => /\ acl.p \subseteq mem.p
             /\ mem.p \ acl.p \subseteq leftover.p
             /\ acl.g \subseteq mem.g
             /\ \A x \in mem.g \ acl.g : x.role = Member \/ x \in leftover.g

\* When no request is in flight, a listed repository's owner has all of its
\* permissions in the saved table, and a registered knot's claimant may invite
\* and create there; the only exception is a request that died, or whose
\* SavePolicy failed, after its commit.
CommittedIsSaved ==
    Quiet =>
        /\ \A row \in rows :
              \/ OwnerRules(row.repo[1], row.dom, row.repo) \subseteq acl.p
              \/ Unsaved("NewRepo", row.dom)
        /\ \A d \in registered :
              \/ /\ Enforce(acl, claimant[d], d, d, "server:invite")
                 /\ Enforce(acl, claimant[d], d, d, "repo:create")
              \/ Unsaved("InitKnotServer", d)

-----------------------------------------------------------------------------
(* What the code's comments and answers say, and concurrency, a reload or a *)
(* knot's failure takes away.                                               *)

\* "all owners are also members" (rbac.go:80)
OwnersAreMembers ==
    \A x \in acl.g : x.role = Owner /\ x.sub \in Dids =>
        InRole(Owner, Member, x.dom) \in acl.g

\* "Failed to create repository on knot. Try again later." (state.go:666): a
\* listed repository exists on its knot
RowOnKnot == \A row \in rows : <<row.repo, row.dom>> \in disk

\* "added member" (state.go:543): once let in, a user is in the model whenever
\* no request is in flight
MembershipKept ==
    Quiet => \A a \in admissions : InRole(a.who, a.role, a.dom) \in mem.g
=============================================================================
