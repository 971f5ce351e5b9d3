----------------------------- MODULE WeldrStore -----------------------------
(***************************************************************************)
(* The state store of osbuild-composer (internal/store) under the          *)
(* blueprint and source handlers of the Weldr API (internal/weldr/api.go): *)
(* committed blueprints, the workspace, the history of commits with its    *)
(* tags, and the custom package sources.  Every change is made in memory   *)
(* under one lock and the whole store is then written to one file, which   *)
(* New reads when composer starts.  Handlers run concurrently and may call *)
(* the store more than once.                                               *)
(*                                                                         *)
(* A blueprint keeps its name, its version (0.0.n is n) and its packages;  *)
(* a package name is a number, so that names have an order.                *)
(***************************************************************************)
EXTENDS Integers, Sequences, FiniteSets, SequencesExt

CONSTANTS Names,       \* valid blueprint names
          Contents,    \* package lists a client may ask for
          Versions,    \* versions a client may ask for: a number, or one of
          Unset,       \*   no version given
          Bad,         \*   not a semantic version
          NoName,      \* the empty string
          Commits,     \* commit ids, in the order randomSHA1String yields them
          SourceIDs,   \* ids of custom sources, which are also names
          SystemRepos, \* the ids among them that system repositories use
          URLs,        \* what else a source says
          Answers,     \* package lists the solver may answer with
          Now,         \* the second in which all commits of a run fall
          Legacy,      \* TRUE: the file may be one without commit order
          Faults,      \* subset of {"crash", "write"}
          MaxChanges   \* bound on the changes asked of the store

ASSUME ConstantsOK ==
    /\ Commits \in Seq(Range(Commits)) /\ IsInjective(Commits)
    /\ NoName \notin Names
    /\ Versions \subseteq Nat \cup {Unset, Bad}
    /\ Now \in Nat \ {0}
    /\ SystemRepos \subseteq SourceIDs
    /\ Faults \subseteq {"crash", "write"}
    /\ MaxChanges \in Nat
    /\ Legacy \in BOOLEAN
    /\ Legacy => Len(Commits) >= 2 /\ MaxChanges >= 2 /\ URLs # {}

\* blueprint.Package and the part of rpmmd.PackageSpec that is used of it
Package == [Name : Nat \ {0}, Version : STRING]

ASSUME PackagesOK == Contents \cup Answers \subseteq Seq(Package)

VARIABLES up,       \* composer is running
          store,    \* the Store in memory
          disk,     \* the file: storeV0
          calls,    \* handlers between two calls of the store
          asked,    \* changes asked of the store, an old file's commits included
          pushed,   \* ghost: commit -> the package list it was pushed with
          acked     \* ghost: the commits and sources clients were told are kept

vars == <<up, store, disk, calls, asked, pushed, acked>>

-----------------------------------------------------------------------------
Without(f, x) == [y \in DOMAIN f \ {x} |-> f[y]]

With(f, x, v) == [y \in DOMAIN f \cup {x} |-> IF y = x THEN v ELSE f[y]]

At(f, x, default) == IF x \in DOMAIN f THEN f[x] ELSE default

Empty == [x \in {} |-> x]

AllNames == Names \cup {NoName}

Blueprint == [Name : AllNames, Version : Nat \cup {Unset, Bad},
              Packages : Contents \cup {<<>>}]

\* blueprint.Blueprint{}
ZeroBlueprint == [Name |-> NoName, Version |-> Unset, Packages |-> <<>>]

Change(c, r, t, bp) ==
    [Commit |-> c, Revision |-> r, Timestamp |-> t, Blueprint |-> bp]

CommitIDs == Range(Commits)

EmptyStore == [blueprints |-> Empty, workspace |-> Empty, changes |-> Empty,
               commits |-> Empty, sources |-> Empty]

-----------------------------------------------------------------------------
(***************************************************************************)
(* The file.  Writing it keeps everything but the blueprints of the        *)
(* changes.  Commits was added to the format after Changes.                *)
(***************************************************************************)
toStoreV0(s) ==
    [s EXCEPT !.changes = [n \in DOMAIN s.changes |->
        [c \in DOMAIN s.changes[n] |->
            [s.changes[n][c] EXCEPT !.Blueprint = ZeroBlueprint]]]]

\* the commits of a name by timestamp, those of one second in any order
ByTimestamp(changes) ==
    {s \in SetToSeqs({changes[c].Commit : c \in DOMAIN changes}) :
        \A i, j \in DOMAIN s : i < j =>
            \E a, b \in DOMAIN changes :
                /\ changes[a].Commit = s[i]
                /\ changes[b].Commit = s[j]
                /\ changes[a].Timestamp <= changes[b].Timestamp}

\* wrong: every history is sorted by its timestamps
newCommitsFromV0_Always(v0) ==
    {com \in [DOMAIN v0.changes ->
                UNION {ByTimestamp(v0.changes[n]) : n \in DOMAIN v0.changes}] :
        \A n \in DOMAIN com : com[n] \in ByTimestamp(v0.changes[n])}

newCommitsFromV0(v0) ==
    {com \in [DOMAIN v0.commits \cup DOMAIN v0.changes ->
                UNION {ByTimestamp(v0.changes[n]) : n \in DOMAIN v0.changes}
                    \cup Range(v0.commits)] :
        \A n \in DOMAIN com :
            IF n \in DOMAIN v0.commits THEN com[n] = v0.commits[n]
            ELSE com[n] \in ByTimestamp(v0.changes[n])}

newStoreFromV0(v0) == {[v0 EXCEPT !.commits = com] : com \in newCommitsFromV0(v0)}

OldCommits(first, second) == With(With(Empty, Commits[1], first), Commits[2], second)

\* a file of an earlier composer: two commits, the first in second t, and
\* sources with ids that only now are those of system repositories
OldFile(n, t, r, packages) ==
    [EmptyStore EXCEPT
        !.sources = [k \in SystemRepos |-> [Name |-> k, URL |-> CHOOSE u \in URLs : TRUE]],
        !.blueprints = With(Empty, n, [Name |-> n, Version |-> 0, Packages |-> packages]),
        !.changes = With(Empty, n, OldCommits(Change(Commits[1], r, t, ZeroBlueprint),
                                              Change(Commits[2], 0, Now, ZeroBlueprint)))]

-----------------------------------------------------------------------------
(***************************************************************************)
(* Blueprint.Initialize and BumpVersion.                                   *)
(***************************************************************************)
Initialize(bp) == [bp EXCEPT !.Version = IF @ = Unset THEN 0 ELSE @]

Valid(bp) == bp.Version # Bad

BumpVersion(bp, old) == [bp EXCEPT !.Version = old + 1]

-----------------------------------------------------------------------------
\* wrong: the blueprint in the store is the one whose version is bumped
PushBlueprint_BumpsOld(s, bp0, commit, time) ==
    LET bp  == Initialize(bp0)
        n   == bp.Name
        new == IF n \in DOMAIN s.blueprints /\ bp.Version = s.blueprints[n].Version
               THEN BumpVersion(s.blueprints[n], bp.Version) ELSE bp
    IN  [s EXCEPT !.workspace = Without(@, n),
                  !.changes = With(@, n, With(At(@, n, Empty), commit,
                                              Change(commit, 0, time, bp))),
                  !.commits = With(@, n, Append(At(@, n, <<>>), commit)),
                  !.blueprints = With(@, n, new)]

(***************************************************************************)
(* What the functions passed to change do to the store s.                  *)
(***************************************************************************)
PushBlueprint(s, bp0, commit, time) ==
    LET bp  == Initialize(bp0)
        n   == bp.Name
        chg == Change(commit, 0, time, bp)
        new == IF n \in DOMAIN s.blueprints /\ bp.Version = s.blueprints[n].Version
               THEN BumpVersion(bp, s.blueprints[n].Version) ELSE bp
    IN  [s EXCEPT !.workspace = Without(@, n),
                  !.changes = With(@, n, With(At(@, n, Empty), commit, chg)),
                  !.commits = With(@, n, Append(At(@, n, <<>>), commit)),
                  !.blueprints = With(@, n, new)]

PushBlueprintToWorkspace(s, bp) ==
    [s EXCEPT !.workspace = With(@, bp.Name, Initialize(bp))]

\* the workspace copy goes even when the answer is an error
DeleteBlueprint(s, n) ==
    [s EXCEPT !.workspace = Without(@, n), !.blueprints = Without(@, n)]

DeleteBlueprintFromWorkspace(s, n) == [s EXCEPT !.workspace = Without(@, n)]

(***************************************************************************)
(* TagBlueprint.  The loop stops at the newest commit that has a revision  *)
(* or at the oldest commit, and the change it stopped at is stored, with   *)
(* the next revision, under the latest commit.  Revision 0 is nil.         *)
(***************************************************************************)
TagBlueprint(s, n) ==
    LET com    == s.commits[n]
        latest == Last(com)
        tagged == {i \in DOMAIN com : s.changes[n][com[i]].Revision > 0}
        stop   == IF tagged = {} THEN 1 ELSE Max(tagged)
        change == s.changes[n][com[stop]]
    IN  IF s.changes[n][latest].Revision # 0 THEN s
        ELSE [s EXCEPT !.changes[n][latest] =
                [change EXCEPT !.Revision = @ + 1]]

\* sources are kept by id; the v0 API uses the name as the id
PushSource(s, key, source) == [s EXCEPT !.sources = With(@, key, source)]

DeleteSourceByID(s, key) == [s EXCEPT !.sources = Without(@, key)]

\* the ids DeleteSourceByName may delete: the first that the map yields
DeleteSourceByName(s, name) ==
    LET found == {k \in DOMAIN s.sources : s.sources[k].Name = name}
    IN  IF found = {} THEN {NoName} ELSE found

-----------------------------------------------------------------------------
GetBlueprint(s, n) ==
    IF n \in DOMAIN s.workspace THEN s.workspace[n] ELSE s.blueprints[n]

GetBlueprintChange(s, n, c) == s.changes[n][c]

ListBlueprints(s) == SetToSeq(DOMAIN s.blueprints)

GetBlueprintChanges(s, n) ==
    [i \in DOMAIN At(s.commits, n, <<>>) |-> s.changes[n][s.commits[n][i]]]

-----------------------------------------------------------------------------
(***************************************************************************)
(* Read-only answers, as functions of the store.                           *)
(*                                                                         *)
(* blueprintsListHandler, modulesListHandler, projectsListHandler: the     *)
(* part of the list a page holds.                                          *)
(***************************************************************************)
Lesser(a, b) == IF a < b THEN a ELSE b

Page(list, offset, limit) ==
    LET start == Lesser(offset, Len(list))
        n     == Lesser(limit, Len(list) - start)
    IN  SubSeq(list, start + 1, start + n)

\* blueprintsDiffHandler: from NEWEST to WORKSPACE; None is a nil entry
None == [Name |-> 0, Version |-> "none"]

\* wrong: a package that was found stays among the old ones
Diff_KeepsFound(old, new) ==
    {[Old |-> None, New |-> p] : p \in {q \in Range(new) :
        \A o \in Range(old) : o.Name # q.Name}}
    \cup {[Old |-> p, New |-> None] : p \in Range(old)}

\* oldMap has the last package of a name, until the first new one takes it
Diff(old, new) ==
    LET of(name)    == {i \in DOMAIN old : old[i].Name = name}
        oldMap(name) == old[Max(of(name))]
        found       == {i \in DOMAIN new : /\ of(new[i].Name) # {}
                                           /\ \A j \in 1 .. i - 1 : new[j].Name # new[i].Name}
        left        == {i \in DOMAIN old : \A j \in DOMAIN new : new[j].Name # old[i].Name}
    IN  {[Old |-> oldMap(new[i].Name), New |-> new[i]] : i \in
            {k \in found : oldMap(new[k].Name).Version # new[k].Version}}
        \cup {[Old |-> None, New |-> new[i]] : i \in DOMAIN new \ found}
        \cup {[Old |-> oldMap(old[i].Name), New |-> None] : i \in left}

(***************************************************************************)
(* getSourceConfigs for "*": the stored sources by id, and over them the   *)
(* system repositories.  sourceInfoHandlerV1 answers by id and             *)
(* sourceInfoHandlerV0 by name, where one of those with the same name, the *)
(* last that the map yields, stays.                                        *)
(***************************************************************************)
System == [r \in SystemRepos |-> [Name |-> r, URL |-> "system"]]

getSourceConfigs(s) ==
    [k \in DOMAIN s.sources \cup SystemRepos |->
        IF k \in SystemRepos THEN System[k] ELSE s.sources[k]]

sourceInfoV1(s) == {[ID |-> k, Source |-> getSourceConfigs(s)[k]] : k \in DOMAIN getSourceConfigs(s)}

sourceInfoV0(s) ==
    LET all == Range(getSourceConfigs(s))
    IN  {v0 \in [{x.Name : x \in all} -> all] : \A n \in DOMAIN v0 : v0[n].Name = n}

(***************************************************************************)
(* setPkgEVRA: a binary search for each package in the dependencies, which *)
(* blueprintsFreezeHandler sorted.  sort.Search halves [i, j) at h and     *)
(* returns the first index whose name is not smaller.                      *)
(***************************************************************************)
Halve(deps, name, bounds) ==
    LET i == bounds[1]
        j == bounds[2]
        h == (i + j) \div 2
    IN  IF i >= j THEN <<i, j>>
        ELSE IF deps[h + 1].Name < name THEN <<h + 1, j>> ELSE <<i, h>>

Search(deps, name) ==
    LET bounds[k \in 0..Len(deps)] ==
            IF k = 0 THEN <<0, Len(deps)>> ELSE Halve(deps, name, bounds[k - 1])
    IN  bounds[Len(deps)][1] + 1

\* what sort.Slice may leave: those of one name in any order
SortByName(deps) ==
    {[i \in DOMAIN deps |-> deps[p[i]]] : p \in
        {q \in Bijection(DOMAIN deps, DOMAIN deps) :
            \A i, j \in DOMAIN deps : i < j => deps[q[i]].Name <= deps[q[j]].Name}}

\* the packages with the versions found, or None where one is missing
setPkgEVRA(deps, packages) ==
    [k \in DOMAIN packages |->
        LET i == Search(deps, packages[k].Name)
        IN  IF i <= Len(deps) /\ deps[i].Name = packages[k].Name
            THEN [packages[k] EXCEPT !.Version = deps[i].Version] ELSE None]

Freeze(deps, packages) == {setPkgEVRA(sorted, packages) : sorted \in SortByName(deps)}

-----------------------------------------------------------------------------
\* wrong: the file is written before the change is made
change_WritesFirst(new, promise, key) ==
    /\ up
    /\ asked < MaxChanges
    /\ asked' = asked + 1
    /\ store' = new
    /\ disk' = toStoreV0(store)
    /\ acked' = promise
    /\ UNCHANGED up

(***************************************************************************)
(* Store.change: the change is made and then everything is written, also   *)
(* when the answer is an error.  If the write fails the handler panics:    *)
(* the lock is released, the client gets no answer, and the change stays   *)
(* in memory.  promise is what the client may rely on once it is answered; *)
(* key is the source whose fate is open until then.                        *)
(***************************************************************************)
change(new, promise, key) ==
    /\ up
    /\ asked < MaxChanges
    /\ asked' = asked + 1
    /\ store' = new
    /\ \/ /\ disk' = toStoreV0(new)
          /\ acked' = promise
       \/ /\ "write" \in Faults
          /\ disk' = disk
          /\ acked' = [acked EXCEPT !.sources = Without(@, key)]
    /\ UNCHANGED up

\* a change that promises nothing new
plainly(new) == change(new, acked, NoName)

\* PushBlueprint with a new commit id; an invalid version only writes
commits(bp) ==
    LET c == Commits[Cardinality(DOMAIN pushed) + 1]
    IN  /\ Cardinality(DOMAIN pushed) < Len(Commits)
        /\ IF Valid(bp)
           THEN /\ change(PushBlueprint(store, bp, c, Now),
                          [acked EXCEPT !.commits = @ \cup {<<bp.Name, c>>}], NoName)
                /\ pushed' = With(pushed, c, bp.Packages)
           ELSE plainly(store) /\ UNCHANGED pushed

Requested == [Name : Names, Version : Versions, Packages : Contents]

blueprintsNew == \E bp \in Requested : commits(bp) /\ UNCHANGED calls

blueprintsWorkspace ==
    \E bp \in Requested :
        /\ plainly(IF Valid(bp) THEN PushBlueprintToWorkspace(store, bp) ELSE store)
        /\ UNCHANGED <<calls, pushed>>

blueprintDelete ==
    \E n \in Names : plainly(DeleteBlueprint(store, n)) /\ UNCHANGED <<calls, pushed>>

blueprintDeleteWorkspace ==
    \E n \in Names :
        plainly(DeleteBlueprintFromWorkspace(store, n)) /\ UNCHANGED <<calls, pushed>>

blueprintsTag ==
    \E n \in Names :
        /\ plainly(IF n \in DOMAIN store.blueprints /\ At(store.commits, n, <<>>) # <<>>
                   THEN TagBlueprint(store, n) ELSE store)
        /\ UNCHANGED <<calls, pushed>>

\* blueprintUndoHandler reads the change, then pushes the blueprint it holds
undoRead ==
    /\ up
    /\ \E n \in Names : \E c \in DOMAIN At(store.changes, n, Empty) :
        calls' = With(calls, "undo", GetBlueprintChange(store, n, c).Blueprint)
    /\ "undo" \notin DOMAIN calls
    /\ UNCHANGED <<up, store, disk, asked, pushed, acked>>

undoPush ==
    /\ "undo" \in DOMAIN calls
    /\ commits(calls.undo)
    /\ calls' = Without(calls, "undo")

(***************************************************************************)
(* Sources.  The v0 API sends a name, which is also the id; v1 sends both. *)
(***************************************************************************)
sourceNew ==
    \E key \in SourceIDs \ SystemRepos, name \in SourceIDs, url \in URLs :
        LET source == [Name |-> name, URL |-> url]
        IN  /\ change(PushSource(store, key, source),
                      [acked EXCEPT !.sources = With(@, key, source)], key)
            /\ UNCHANGED <<calls, pushed>>

\* sourceDeleteHandler looks the id up, then deletes by id (v1) or name (v0)
sourceLookup ==
    /\ up
    /\ "delete" \notin DOMAIN calls
    /\ \E key \in SourceIDs \ SystemRepos :
        /\ key \in DOMAIN store.sources
        /\ calls' = With(calls, "delete", key)
    /\ UNCHANGED <<up, store, disk, asked, pushed, acked>>

sourceDelete ==
    /\ "delete" \in DOMAIN calls
    /\ LET name    == calls.delete
           gone(k) == change(DeleteSourceByID(store, k),
                             [acked EXCEPT !.sources = Without(@, k)], k)
       IN  \/ gone(name)
           \/ \E k \in DeleteSourceByName(store, name) : gone(k)
    /\ calls' = Without(calls, "delete")
    /\ UNCHANGED pushed

-----------------------------------------------------------------------------
crash ==
    /\ "crash" \in Faults
    /\ up
    /\ up' = FALSE
    /\ store' = EmptyStore
    /\ calls' = Empty
    /\ UNCHANGED <<disk, asked, pushed, acked>>

\* store.New
New ==
    /\ ~up
    /\ up' = TRUE
    /\ store' \in newStoreFromV0(disk)
    /\ UNCHANGED <<disk, calls, asked, pushed, acked>>

Init ==
    /\ up = FALSE
    /\ store = EmptyStore
    /\ \/ disk = EmptyStore /\ pushed = Empty
       \/ Legacy /\ \E n \in Names, t \in {Now - 1, Now}, r \in {0, 1} :
            \E a, b \in Contents : a # b /\ disk = OldFile(n, t, r, b) /\ pushed = OldCommits(a, b)
    /\ calls = Empty
    /\ asked = Cardinality(DOMAIN pushed)
    /\ acked = [commits |-> (DOMAIN disk.changes) \X (DOMAIN pushed), sources |-> Empty]

Next ==
    \/ blueprintsNew \/ blueprintsWorkspace \/ blueprintDelete
    \/ blueprintDeleteWorkspace \/ blueprintsTag \/ undoRead \/ undoPush
    \/ sourceNew \/ sourceLookup \/ sourceDelete
    \/ crash \/ New

Spec == Init /\ [][Next]_vars

-----------------------------------------------------------------------------
Source == [Name : SourceIDs, URL : URLs]

StoreOK(s) ==
    /\ DOMAIN s.blueprints \subseteq AllNames
    /\ DOMAIN s.workspace \subseteq Names
    /\ \A n \in DOMAIN s.blueprints :
        s.blueprints[n] \in Blueprint /\ s.blueprints[n].Version \in Nat
    /\ \A n \in DOMAIN s.workspace :
        s.workspace[n] \in Blueprint /\ s.workspace[n].Version \in Nat
    /\ DOMAIN s.commits \subseteq DOMAIN s.changes
    /\ \A n \in DOMAIN s.changes : DOMAIN s.changes[n] \subseteq CommitIDs
    /\ \A n \in DOMAIN s.commits :
        IsInjective(s.commits[n]) /\ Range(s.commits[n]) = DOMAIN s.changes[n]
    /\ DOMAIN s.sources \subseteq SourceIDs
    /\ \A k \in DOMAIN s.sources : s.sources[k] \in Source

\* The types of the store in memory and in its file; the commit order and
\* the changes of a name list the same commits.
TypeOK ==
    /\ up \in BOOLEAN
    /\ StoreOK(store)
    /\ StoreOK(disk)
    /\ asked \in 0..MaxChanges
    /\ DOMAIN calls \subseteq {"undo", "delete"}
    /\ DOMAIN pushed \subseteq CommitIDs

\* "serialized on every change, and deserialized on start": a commit or a
\* source whose request was answered OK is in the file, whatever crashes and
\* failed writes of other requests follow, until a client deletes it.
AcknowledgedIsDurable ==
    /\ \A x \in acked.commits :
        x[1] \in DOMAIN disk.changes /\ x[2] \in DOMAIN disk.changes[x[1]]
    /\ \A k \in DOMAIN acked.sources :
        k \in DOMAIN disk.sources /\ disk.sources[k] = acked.sources[k]

\* The committed blueprint of a name is the one its last commit pushed, also
\* after undo, deletion, failed writes and restarts; only the two commits of
\* an old file that fall in one second may have changed places.
CommittedIsLatest ==
    \A n \in DOMAIN store.blueprints :
        LET last == Last(store.commits[n])
            tied == \E c \in DOMAIN store.changes[n] \ {last} :
                        /\ {c, last} = {Commits[1], Commits[2]}
                        /\ store.changes[n][c].Timestamp = store.changes[n][last].Timestamp
        IN  (Legacy /\ tied) \/ store.blueprints[n].Packages = pushed[last]

\* The revisions that tags give grow along the history of a name: "Get the
\* latest revision for this blueprint ... Bump the revision".
RevisionsIncrease ==
    \A n \in DOMAIN store.commits :
        LET h == GetBlueprintChanges(store, n)
        IN  \A i, j \in DOMAIN h :
                i < j /\ h[i].Revision > 0 /\ h[j].Revision > 0 => h[i].Revision < h[j].Revision

\* "Keep track of the order of the commits": a history that was written is
\* only ever extended at its end, by no handler and no restart reordered.
HistoryOnlyGrows ==
    [][/\ \A n \in DOMAIN disk.commits :
            n \in DOMAIN disk'.commits /\ IsPrefix(disk.commits[n], disk'.commits[n])
       /\ \A n \in DOMAIN store'.commits :
            n \in DOMAIN disk.commits => IsPrefix(disk.commits[n], store'.commits[n])
      ]_vars

\* Asking for all sources shows each system repository as itself under its
\* id and every custom source beside it; under the names of the v0 API a
\* custom source may only hide another one of the same name.
SourceInfoIsComplete ==
    /\ \A r \in SystemRepos : [ID |-> r, Source |-> System[r]] \in sourceInfoV1(store)
    /\ \A k \in DOMAIN store.sources \ SystemRepos : [ID |-> k, Source |-> store.sources[k]] \in sourceInfoV1(store)
    /\ sourceInfoV0(store) # {}
    /\ \A v0 \in sourceInfoV0(store) : \A x \in sourceInfoV1(store) :
        x.Source.Name \in DOMAIN v0

Patched(old, diffs) ==
    {p \in Range(old) : \A d \in diffs : d.Old # p} \cup ({d.New : d \in diffs} \ {None})

NamedOnce(packages) == \A i, j \in DOMAIN packages : packages[i].Name = packages[j].Name => i = j

\* The diff of the newest commit and the workspace, applied to the commit,
\* gives the workspace; no package is in two entries.  This is of lists that
\* name no package twice: nothing refuses others, and oldMap loses them.
DiffIsExact ==
    \A n \in DOMAIN store.blueprints \cap DOMAIN store.workspace :
        LET old == store.blueprints[n].Packages
            new == store.workspace[n].Packages
            d   == Diff(old, new)
        IN  NamedOnce(old) /\ NamedOnce(new) =>
            /\ Patched(old, d) = Range(new)
            /\ \A x, y \in d : ({x.Old.Name, x.New.Name} \cap {y.Old.Name, y.New.Name}) \ {0} # {}
                                => x = y

\* Whatever order the solver answers in, and however the sort leaves those of
\* one name, freezing a blueprint gives every package a version the answer has
\* for its name, and misses it only if the answer does not have it.
FreezeIsExact ==
    \A n \in DOMAIN store.blueprints : \A deps \in Answers :
        LET old == GetBlueprint(store, n).Packages
            all == Freeze(deps, old)
        IN  /\ all # {}
            /\ \A new \in all : \A k \in DOMAIN old :
                \/ \E d \in Range(deps) : d.Name = old[k].Name /\ new[k] = [old[k] EXCEPT !.Version = d.Version]
                \/ new[k] = None /\ \A d \in Range(deps) : d.Name # old[k].Name

Tiles(list) ==
    LET n == Len(list)
    IN  /\ \A o, a, b \in 0 .. n + 1 :
            /\ Page(list, o, a) \o Page(list, o + a, b) = Page(list, o, a + b)
            /\ Len(Page(list, o, a)) <= a
            /\ o >= n => Page(list, o, a) = <<>>
        /\ Page(list, 0, n) = list

AnswersTile == \A list \in Answers : Tiles(list)

\* Consecutive pages of any size tile the list: two of them are the page of
\* their size together, so that nothing is listed twice or left out; no page
\* is longer than asked for, the list is the page of its own length, and an
\* offset past the end gives an empty page.
PagesTile == Tiles(ListBlueprints(store)) /\ AnswersTile

\* The change kept under a commit is the change that commit made: an undo to
\* the commit finds the packages it pushed.
ChangeIsOfItsCommit ==
    \A n \in DOMAIN store.changes : \A c \in DOMAIN store.changes[n] :
        /\ store.changes[n][c].Commit = c
        /\ store.changes[n][c].Blueprint.Packages = pushed[c]

(***************************************************************************)
(* What the history of a blueprint says: its last commit is the committed  *)
(* blueprint, and the revisions that tags give grow along it.              *)
(***************************************************************************)
HistoryIsSound == TypeOK /\ CommittedIsLatest /\ RevisionsIncrease

(***************************************************************************)
(* What the handlers compute from the store is exact: diffs, frozen        *)
(* blueprints, pages and the list of sources.                              *)
(***************************************************************************)
QueriesAreExact == DiffIsExact /\ FreezeIsExact /\ PagesTile /\ SourceInfoIsComplete
=============================================================================
