------------------------------ MODULE GitViews ------------------------------
(***************************************************************************)
(* What a knot shows of its repositories (knotserver/routes.go and         *)
(* knotserver/git), while people push to them, and how the appview asks    *)
(* for it (state/repo.go).                                                 *)
(*                                                                         *)
(* A listing names for every entry the last commit that touched it.  That  *)
(* is asked of git once per entry, answered for the HEAD of the moment,    *)
(* and kept in a cache that all repositories share and that never forgets  *)
(* by itself: the key is the commit that is viewed.  Git reads the entry's *)
(* path as a pathspec: one with * ? or [ in it selects other files too,    *)
(* and one that begins with a colon need not select the entry (Selects).   *)
(***************************************************************************)
EXTENDS Integers, Sequences, FiniteSets, Functions

CONSTANTS
    Repos,
    Commits,     \* the commits there are, numbered so that parents come first
    Parents,     \* the parents of each
    Files,
    Tree,        \* what each commit has in each file, None for no file
    Entries,     \* directory -> its entries, files and directories
    Below,       \* entry -> the files it is or holds
    Selects,     \* entry -> the files its path selects, as a pathspec
    Branches,
    TagNames,
    Default,     \* the branch that HEAD names
    Views,       \* the requests of a behaviour
    Pages,       \* the page asked for, 0 for none or one that is no number above 0
    PageSizes,
    MaxInt,      \* the largest int
    MaxPushes,   \* bound: pushes
    Root, None

ASSUME CommitAssumption ==
    /\ Commits \subseteq Nat /\ IsFiniteSet(Commits)
    /\ None \notin Commits \cup Seq(Commits)
    /\ Parents \in [Commits -> Seq(Commits)]
    /\ \A c \in Commits : \A i \in DOMAIN Parents[c] : Parents[c][i] < c
ASSUME TreeAssumption == DOMAIN Tree = Commits /\ \A c \in Commits : DOMAIN Tree[c] = Files
ASSUME DirAssumption ==
    /\ Root \in DOMAIN Entries
    /\ \A d \in DOMAIN Entries : Entries[d] \subseteq DOMAIN Below
    /\ DOMAIN Selects = DOMAIN Below
    /\ \A p \in DOMAIN Below : Below[p] \cup Selects[p] \subseteq Files
ASSUME RefAssumption == Default \in Branches /\ Branches \cap TagNames = {}
ASSUME PageAssumption ==
    MaxInt \in Nat /\ Pages \subseteq 0 .. MaxInt /\ PageSizes \subseteq 1 .. MaxInt
ASSUME PushAssumption == MaxPushes \in Nat

VARIABLES
    refs,        \* each repository's branches and tags
    objects,     \* the commits each has, referred to or not
    pushes,
    cache,       \* commitCache, a partial function
    pc, view     \* each request's next step, and what it has so far

git == <<refs, objects, pushes>>
vars == <<git, cache, pc, view>>

Refs == Branches \cup TagNames
Paths == DOMAIN Below

\* The last commit of an entry, None when the entry is left out; stray (a history
\* field) when git was not asked for the commit that is viewed, or did not answer.
Info == [last : Commits \cup {None}, stray : BOOLEAN]
Item == [path : Paths, last : Commits \cup {None}, stray : BOOLEAN]

ViewOK(v) ==
    \/ view[v] = None /\ pc[v] = "new"
    \/ /\ pc[v] # "new"
       /\ view[v].commit \in Commits \cup {None}
       /\ view[v].left \subseteq Paths
       /\ IF pc[v] \in {"lookup", "git"}
          THEN /\ view[v].left # {} /\ view[v].repo \in Repos
               /\ view[v].commit \in objects[view[v].repo]
          ELSE view[v].left = {} /\ view[v].repo = None
       /\ CASE view[v].op = "list" -> view[v].shown \in SUBSET Item
            [] view[v].op = "log" -> view[v].shown.commits \in Seq(Commits)
            [] view[v].op = "refs" -> view[v].shown \in SUBSET (Refs \X Commits)
            [] view[v].op = "commit" -> view[v].shown \in SUBSET Files
            [] OTHER -> view[v].op \in {"blob", "failed"}

TypeOK ==
    /\ refs \in [Repos -> [Refs -> Commits \cup {None}]]
    /\ objects \in [Repos -> SUBSET Commits]
    /\ \A r \in Repos, b \in Refs : refs[r][b] \in objects[r] \cup {None}
    /\ pushes \in 0 .. MaxPushes
    /\ DOMAIN cache \subseteq Commits \X Paths
    /\ \A k \in DOMAIN cache : cache[k] \in Info
    /\ pc \in [Views -> {"new", "lookup", "git", "answered"}]
    /\ \A v \in Views : ViewOK(v)

Init ==
    /\ refs = [r \in Repos |-> [b \in Refs |-> None]]
    /\ objects = [r \in Repos |-> {}]
    /\ pushes = 0
    /\ cache = <<>>
    /\ pc = [v \in Views |-> "new"]
    /\ view = [v \in Views |-> None]

-----------------------------------------------------------------------------
(* Git.                                                                     *)

\* what a commit has of some files
Content(c, files) == [f \in files |-> Tree[c][f]]
Present(c, files) == \E f \in files : Tree[c][f] # None

\* a commit and every one it comes after: the least set that holds it and the
\* parents of what it holds
Ancestors ==
    [c \in Commits |->
        {d \in Commits : \A S \in SUBSET Commits :
            c \in S /\ (\A e \in S : Range(Parents[e]) \subseteq S) => d \in S}]

\* c comes first, then always the first unseen parent of the latest commit that
\* has one
IsPreorder(s, c) ==
    /\ s[1] = c
    /\ \A i \in 2 .. Len(s) :
          LET seen == {s[j] : j \in 1 .. i - 1}
              open == {j \in 1 .. i - 1 : ~(Range(Parents[s[j]]) \subseteq seen)}
          IN  \E j \in open : \E k \in DOMAIN Parents[s[j]] :
                 /\ \A m \in open : m <= j
                 /\ s[i] = Parents[s[j]][k] /\ s[i] \notin seen
                 /\ \A m \in 1 .. k - 1 : Parents[s[j]][m] \in seen

\* Log: the ancestors of a commit, each once
History ==
    [c \in Commits |->
        CHOOSE s \in [1 .. Cardinality(Ancestors[c]) -> Ancestors[c]] : IsPreorder(s, c)]

\* the first parent that has the files as c has them
Heir(c, files) ==
    LET same == {i \in DOMAIN Parents[c] :
                    Content(Parents[c][i], files) = Content(c, files)}
    IN  IF same = {} THEN None ELSE Parents[c][CHOOSE i \in same : \A j \in same : i <= j]

\* c, its heir, that one's heir and so on
Searched(c, files) ==
    {d \in Commits : \A S \in SUBSET Commits :
        c \in S /\ (\A e \in S : Heir(e, files) \in S \cup {None}) => d \in S}

\* git log -1 -- p: a commit that has what p selects as one of its parents has it
\* is not the one, and only that parent's history is searched
LastTouch ==
    [c \in Commits |-> [p \in Paths |->
        LET last == CHOOSE d \in Searched(c, Selects[p]) : Heir(d, Selects[p]) = None
        IN  IF Parents[last] = <<>> /\ ~Present(last, Selects[p]) THEN None ELSE last]]

\* receive-pack: a branch or tag moves to any commit, forced or not, or goes, but
\* not the branch that HEAD names; what it was at stays in the repository
Push(r, b, c) ==
    /\ pushes < MaxPushes
    /\ refs[r][b] # c
    /\ c = None => b # Default
    /\ refs' = [refs EXCEPT ![r][b] = c]
    /\ objects' = [objects EXCEPT ![r] = @ \cup (IF c = None THEN {} ELSE Ancestors[c])]
    /\ pushes' = pushes + 1
    /\ UNCHANGED <<cache, pc, view>>

\* Open: no ref is HEAD; a ref is a branch, a tag or the hash of a commit
Open(r, ref) ==
    CASE ref = None -> refs[r][Default]
      [] ref \in Refs -> refs[r][ref]
      [] OTHER -> IF ref \in objects[r] THEN ref ELSE None

Wanted == {None} \cup Refs \cup Commits

-----------------------------------------------------------------------------
(* What the knot answers.  A commit that Open did not find is None.         *)

\* FileTree: the entries that the commit has in the directory; there are none in a file
FileTree(c, dir) ==
    {p \in IF dir \in DOMAIN Entries THEN Entries[dir] ELSE {} : Present(c, Below[p])}

FileContent(c, f) == Tree[c][f]

\* the bytes of the file, if it is there
Blob(c, f) == IF c = None THEN None ELSE FileContent(c, f)

\* Diff: what changed since the first parent, or since nothing
Diff(c) ==
    {f \in Files : IF Parents[c] = <<>> THEN Tree[c][f] # None
                   ELSE Tree[c][f] # Tree[Head(Parents[c])][f]}

Commit(c) == IF c = None THEN {} ELSE Diff(c)

Pointing(r, names) == {<<b, refs[r][b]>> : b \in {n \in names : refs[r][n] # None}}

\* Both open HEAD first: a repository whose default branch is unborn shows none.
ListTags(r) == IF Open(r, None) = None THEN {} ELSE Pointing(r, TagNames)

ListBranches(r) == IF Open(r, None) = None THEN {} ELSE Pointing(r, Branches)

\* an int holds -MaxInt - 1 .. MaxInt
Wrap(n) == ((n + MaxInt + 1) % (2 * (MaxInt + 1))) - MaxInt - 1

\* mutant: pages are counted from 0
Paginate_FromZero(commits, page, size) ==
    LET start == Wrap(page * size)
        end == Wrap(start + size)
    IN  IF start >= Len(commits) THEN <<>>
        ELSE IF start < 0 \/ end < start THEN None
        ELSE SubSeq(commits, start + 1, IF end > Len(commits) THEN Len(commits) ELSE end)

\* a slice of the history; a negative bound panics, and nothing is answered
Paginate(commits, page, size) ==
    LET start == Wrap((page - 1) * size)
        end == Wrap(start + size)
    IN  IF start >= Len(commits) THEN <<>>
        ELSE IF start < 0 \/ end < start THEN None
        ELSE SubSeq(commits, start + 1, IF end > Len(commits) THEN Len(commits) ELSE end)

Log(c, asked, size) ==
    LET page == IF asked = 0 THEN 1 ELSE asked
        commits == IF c = None THEN <<>> ELSE Paginate(History[c], page, size)
    IN  [page |-> page, size |-> size, answered |-> commits # None,
         commits |-> IF commits = None THEN <<>> ELSE commits]

-----------------------------------------------------------------------------
(* The appview's handlers ask the knot and show what it answers; an answer  *)
(* of 404 or 500 is shown as an empty page.                                 *)

fullyResolvedRepo(v) ==
    /\ pc[v] = "new"
    /\ \A o \in Views : o < v => pc[o] # "new"

Answer(v, op, c, shown) ==
    /\ view' = [view EXCEPT ![v] = [op |-> op, repo |-> None, commit |-> c, left |-> {},
                                    shown |-> shown]]
    /\ pc' = [pc EXCEPT ![v] = "answered"]
    /\ UNCHANGED <<git, cache>>

\* no knot, or no answer that can be read
Unreachable(v) == Answer(v, "failed", None, {})

\* a listing that is begun, unless there is nothing to list
Listing(v, r, c, dir) ==
    IF c = None \/ FileTree(c, dir) = {} THEN Answer(v, "list", c, {})
    ELSE /\ view' = [view EXCEPT ![v] = [op |-> "list", repo |-> r, commit |-> c,
                                         left |-> FileTree(c, dir), shown |-> {}]]
         /\ pc' = [pc EXCEPT ![v] = "lookup"]
         /\ UNCHANGED <<git, cache>>

\* A ref that is not there makes an "empty repository" of any repository.
Index(v, r, ref) == Listing(v, r, Open(r, ref), Root)

RepoIndex(v, r, ref) == Index(v, r, ref)

RepoTree(v, r, ref, dir) == Listing(v, r, Open(r, ref), dir)

RepoBlob(v, r, ref, f) == Answer(v, "blob", Open(r, ref), Blob(Open(r, ref), f))

RepoCommit(v, r, ref) == Answer(v, "commit", Open(r, ref), Commit(Open(r, ref)))

RepoTags(v, r) == Answer(v, "refs", Open(r, None), ListTags(r))

RepoBranches(v, r) == Answer(v, "refs", Open(r, None), ListBranches(r))

\* the page of the appview is of a fixed size, that of the knot is any
RepoLog(v, r, ref, asked, size) ==
    Answer(v, "log", Open(r, ref), Log(Open(r, ref), asked, size))

-----------------------------------------------------------------------------
(* makeNiceTree: LastCommitForPath for one entry after the other.           *)

\* mutant: the path alone is the key
CacheKey_PathOnly(c, p) == <<CHOOSE d \in Commits : TRUE, p>>

\* mutant: the commit alone is the key
CacheKey_HashOnly(c, p) == <<c, CHOOSE q \in Paths : TRUE>>

CacheKey(c, p) == <<c, p>>

\* entries come in one order
NextEntry(v) == CHOOSE p \in view[v].left : TRUE

\* the next entry, with what was found for the last one
Found(v, info) ==
    LET p == NextEntry(v)
        rest == view[v].left \ {p}
    IN  /\ view' = [view EXCEPT ![v].left = rest,
                                ![v].repo = IF rest = {} THEN None ELSE @,
                                ![v].shown = @ \cup {[path |-> p, last |-> info.last,
                                                      stray |-> info.stray]}]
        /\ pc' = [pc EXCEPT ![v] = IF rest = {} THEN "answered" ELSE "lookup"]

Lookup(v) ==
    LET key == CacheKey(view[v].commit, NextEntry(v))
    IN  /\ pc[v] = "lookup"
        /\ IF key \in DOMAIN cache THEN Found(v, cache[key])
           ELSE pc' = [pc EXCEPT ![v] = "git"] /\ UNCHANGED view
        /\ UNCHANGED <<git, cache>>

\* Without a HEAD, and when no commit is found, the entry is left out and nothing
\* is cached.  The cache takes what it is given, or drops it.
GitLog(v) ==
    LET r == view[v].repo
        c == view[v].commit
        p == NextEntry(v)
        head == refs[r][Default]
        info == [last |-> IF head = None THEN None ELSE LastTouch[head][p],
                 stray |-> head # c]
        key == CacheKey(c, p)
    IN  /\ pc[v] = "git"
        /\ Found(v, info)
        /\ \/ /\ info.last # None
              /\ cache' = [k \in DOMAIN cache \cup {key} |-> IF k = key THEN info ELSE cache[k]]
           \/ UNCHANGED cache
        /\ UNCHANGED git

\* mutant: an entry without a commit ends the listing
GitLogFails_Returns(v) ==
    /\ pc[v] = "git"
    /\ pc' = [pc EXCEPT ![v] = "answered"]
    /\ UNCHANGED <<git, cache, view>>

\* git does not run, or answers what cannot be read: the entry is left out
GitLogFails(v) ==
    /\ pc[v] = "git"
    /\ Found(v, [last |-> None, stray |-> TRUE])
    /\ UNCHANGED <<git, cache>>

\* commitCache makes room, or the knot starts again
Evict(k) ==
    /\ cache' = [j \in DOMAIN cache \ {k} |-> cache[j]]
    /\ UNCHANGED <<git, pc, view>>

-----------------------------------------------------------------------------
Arrival(v, r) ==
    /\ fullyResolvedRepo(v)
    /\ \/ Unreachable(v)
       \/ RepoTags(v, r)
       \/ RepoBranches(v, r)
       \/ \E ref \in Wanted :
             \/ RepoIndex(v, r, ref)
             \/ \E dir \in Paths : RepoTree(v, r, ref, dir)
             \/ \E f \in Files : RepoBlob(v, r, ref, f)
             \/ RepoCommit(v, r, ref)
             \/ \E page \in Pages, size \in PageSizes : RepoLog(v, r, ref, page, size)

Served ==
    /\ pushes = MaxPushes /\ cache = <<>>
    /\ \A v \in Views : pc[v] = "answered"
    /\ UNCHANGED vars

Next ==
    \/ \E r \in Repos, b \in Refs, c \in Commits \cup {None} : Push(r, b, c)
    \/ \E v \in Views, r \in Repos : Arrival(v, r)
    \/ \E v \in Views : Lookup(v) \/ GitLog(v) \/ GitLogFails(v)
    \/ \E k \in DOMAIN cache : Evict(k)
    \/ Served

Spec == Init /\ [][Next]_vars

-----------------------------------------------------------------------------
(* Properties.                                                              *)

Listed(v) == IF view[v] # None /\ view[v].op = "list" THEN view[v].shown ELSE {}

\* The last commit that a listing names for an entry (git.go:302) is part of the
\* history of the commit that is viewed and left what the entry's path selects as
\* it is there, also when the answer comes from the cache and was found for another
\* repository or before later pushes; and no entry is left out whose path selects
\* it.  But for the entries that were found while HEAD was at another commit, or
\* for which git did not answer.
ListingIsTrue ==
    \A v \in Views : \A i \in Listed(v) :
        ~i.stray =>
            IF i.last = None THEN ~(Below[i.path] \subseteq Selects[i.path])
            ELSE /\ i.last \in Ancestors[view[v].commit]
                 /\ Content(i.last, Selects[i.path]) = Content(view[v].commit, Selects[i.path])

\* The date that is shown for an entry (repo/index.html:81, repo/tree.html:47) is
\* that of a commit that changed something which the entry's path selects: also
\* after pushes, from the cache, and for entries that are stray.  The repository
\* that is viewed need not have that commit: a fork at the same commit may have
\* put it into the cache.
LastCommitExplains ==
    \A v \in Views : \A i \in Listed(v) :
        i.last # None => Diff(i.last) \cap Selects[i.path] # {}

\* The pages of a history (routes.go:304) are together the history: two pages of
\* the same commit share nothing, each is as long as it has to be, has nothing
\* twice, and nothing but ancestors.  But for pages whose place does not fit an int.
LogIsWhole ==
    LET Paged == {v \in Views : /\ view[v] # None /\ view[v].op = "log"
                                /\ view[v].commit # None
                                /\ view[v].shown.page * view[v].shown.size <= MaxInt}
    IN  \A v \in Paged :
            LET log == view[v].shown
                left == Cardinality(Ancestors[view[v].commit]) - (log.page - 1) * log.size
            IN  /\ log.answered
                /\ Len(log.commits) = CASE left <= 0 -> 0
                                        [] left > log.size -> log.size
                                        [] OTHER -> left
                /\ IsInjective(log.commits)
                /\ Range(log.commits) \subseteq Ancestors[view[v].commit]
                /\ \A w \in Paged :
                      /\ view[w].commit = view[v].commit
                      /\ view[w].shown.size = log.size
                      /\ view[w].shown.page # log.page
                      => Range(view[w].shown.commits) \cap Range(log.commits) = {}
=============================================================================
