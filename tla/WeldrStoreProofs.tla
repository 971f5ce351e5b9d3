-------------------------- MODULE WeldrStoreProofs --------------------------
(***************************************************************************)
(* Proofs about WeldrStore, for any names, contents, versions, sources,    *)
(* commit ids and faults, and for any number of changes.                   *)
(***************************************************************************)
EXTENDS WeldrStore, FiniteSetTheorems, SequenceTheorems, WellFoundedInduction, TLAPS

-----------------------------------------------------------------------------
(***************************************************************************)
(* The shape of a store.                                                   *)
(***************************************************************************)
PFun(D, R) == UNION {[E -> R] : E \in SUBSET D}

Valids == {bp \in Blueprint : bp.Version \in Nat}

Changes == [Commit : CommitIDs, Revision : Nat, Timestamp : Nat, Blueprint : Blueprint]

Stores == [blueprints : PFun(AllNames, Valids),
           workspace  : PFun(Names, Valids),
           changes    : PFun(AllNames, PFun(CommitIDs, Changes)),
           commits    : PFun(AllNames, Seq(CommitIDs)),
           sources    : PFun(SourceIDs, Source)]

(***************************************************************************)
(* The commit ids are used in their order.                                 *)
(***************************************************************************)
Used(p) == Cardinality(DOMAIN p)

IdsInOrder(p) ==
    /\ IsFiniteSet(DOMAIN p) /\ Used(p) <= Len(Commits)
    /\ DOMAIN p = {Commits[i] : i \in 1 .. Used(p)}

(***************************************************************************)
(* A store that has been read: the order of the commits of a name and its  *)
(* changes list the same commits, and those that an old file may have had  *)
(* are the first.                                                          *)
(***************************************************************************)
Ordered(s) ==
    /\ DOMAIN s.commits \subseteq DOMAIN s.changes
    /\ \A n \in DOMAIN s.commits : IsInjective(s.commits[n]) /\ Range(s.commits[n]) = DOMAIN s.changes[n]

Complete(s, p) ==
    /\ DOMAIN s.changes \subseteq DOMAIN s.commits
    /\ DOMAIN s.blueprints \subseteq DOMAIN s.commits
    /\ \A n \in DOMAIN s.commits :
        /\ s.commits[n] # <<>>
        /\ DOMAIN s.changes[n] \subseteq DOMAIN p
        /\ Len(s.commits[n]) <= Used(p)
        /\ Legacy /\ Last(s.commits[n]) \in {Commits[1], Commits[2]} => Len(s.commits[n]) <= 2

Tied(s, n) ==
    /\ Legacy
    /\ \E c \in DOMAIN s.changes[n] \ {Last(s.commits[n])} :
        /\ {c, Last(s.commits[n])} = {Commits[1], Commits[2]}
        /\ s.changes[n][c].Timestamp = s.changes[n][Last(s.commits[n])].Timestamp

LatestIsCommitted(s, p) ==
    \A n \in DOMAIN s.blueprints : Tied(s, n) \/ s.blueprints[n].Packages = p[Last(s.commits[n])]

RevisionOf(s, n, i) == s.changes[n][s.commits[n][i]].Revision

RevisionsGrow(s) ==
    \A n \in DOMAIN s.commits : \A i, j \in DOMAIN s.commits[n] :
        i < j /\ RevisionOf(s, n, i) > 0 /\ RevisionOf(s, n, j) > 0 => RevisionOf(s, n, i) < RevisionOf(s, n, j)

Good(s, p) ==
    s \in Stores /\ Ordered(s) /\ Complete(s, p) /\ LatestIsCommitted(s, p) /\ RevisionsGrow(s)

(***************************************************************************)
(* What a store has of what clients were told is kept.                     *)
(***************************************************************************)
Promises == [commits : SUBSET (AllNames \X CommitIDs), sources : PFun(SourceIDs, Source)]

Holds(s, promise) ==
    /\ \A x \in promise.commits : x[1] \in DOMAIN s.changes /\ x[2] \in DOMAIN s.changes[x[1]]
    /\ \A k \in DOMAIN promise.sources : k \in DOMAIN s.sources /\ s.sources[k] = promise.sources[k]

Extends(s, t) ==
    \A n \in DOMAIN s.commits : n \in DOMAIN t.commits /\ IsPrefix(s.commits[n], t.commits[n])

(***************************************************************************)
(* The inductive invariant: the store in memory and whatever New may read  *)
(* from the file are sound, the file is behind the memory, and both hold   *)
(* what was promised.                                                      *)
(***************************************************************************)
IInv ==
    /\ up \in BOOLEAN /\ asked \in 0 .. MaxChanges
    /\ DOMAIN calls \subseteq {"undo", "delete"}
    /\ "undo" \in DOMAIN calls => calls["undo"] \in Blueprint
    /\ calls = [x \in DOMAIN calls |-> calls[x]]
    /\ IdsInOrder(pushed)
    /\ acked \in Promises
    /\ disk \in Stores /\ Ordered(disk)
    /\ \A s \in newStoreFromV0(disk) : Good(s, pushed)
    /\ Holds(disk, acked)
    /\ IF up THEN Good(store, pushed) /\ Extends(disk, store) /\ Holds(store, acked)
       ELSE store = EmptyStore

-----------------------------------------------------------------------------

\* A nonempty set of numbers has a least element.
LEMMA Least ==
    ASSUME NEW T \in SUBSET Nat, T # {}
    PROVE  \E t \in T : \A u \in T : t <= u
<1>1. PICK t \in T : \A u \in T : ~(<<u, t>> \in OpToRel(<, Nat))
  BY NatLessThanWellFounded, WFMin
<1>2. ASSUME NEW u \in T PROVE t <= u
  <2>1. u \in Nat /\ t \in Nat
    OBVIOUS
  <2>2. u < t => <<u, t>> \in OpToRel(<, Nat)
    BY <2>1 DEF OpToRel
  <2>3. ~(u < t)
    BY <1>1, <2>2, Zenon
  <2> QED BY <2>1, <2>3
<1> QED BY <1>2

\* Induction over the naturals, for a set in the place of a predicate.
LEMMA Induction ==
    ASSUME NEW T \in SUBSET Nat, 0 \in T, \A n \in T : n + 1 \in T
    PROVE  \A n \in Nat : n \in T
<1> DEFINE U == Nat \ T
<1>1. SUFFICES ASSUME U # {} PROVE FALSE
  OBVIOUS
<1>2. PICK u \in U : \A v \in U : u <= v
  BY <1>1, Least
<1>3. u \in Nat /\ u # 0
  OBVIOUS
<1>4. u - 1 \in T
  BY <1>2, <1>3
<1>5. (u - 1) + 1 \in T
  BY <1>4
<1> QED BY <1>3, <1>5

\* Max of a set of positions.
LEMMA MaxOfPositions ==
    ASSUME NEW n \in Nat, NEW S \in SUBSET (1 .. n), S # {}
    PROVE  Max(S) \in S /\ \A y \in S : y <= Max(S)
<1> DEFINE T == {x \in 0 .. n : n - x \in S}
<1>1. T \in SUBSET Nat
  OBVIOUS
<1>2. T # {}
  <2>1. PICK x \in S : TRUE
    OBVIOUS
  <2>2. n - x \in 0 .. n /\ n - (n - x) = x
    OBVIOUS
  <2> QED BY <2>2
<1>3. PICK t \in T : \A u \in T : t <= u
  BY <1>1, <1>2, Least
<1>4. \A y \in S : y <= n - t
  <2> TAKE y \in S
  <2>1. n - y \in T
    OBVIOUS
  <2> QED BY <1>3, <2>1
<1>5. \E x \in S : \A y \in S : x >= y
  BY <1>4
<1> QED BY <1>5 DEF Max

-----------------------------------------------------------------------------
(***************************************************************************)
(* Maps.                                                                   *)
(***************************************************************************)
LEMMA PFunIs ==
    ASSUME NEW D, NEW R, NEW f \in PFun(D, R)
    PROVE  /\ DOMAIN f \subseteq D /\ f = [x \in DOMAIN f |-> f[x]]
           /\ \A x \in DOMAIN f : f[x] \in R
  BY DEF PFun

LEMMA IsPFun ==
    ASSUME NEW D, NEW R, NEW f, DOMAIN f \subseteq D, f = [x \in DOMAIN f |-> f[x]],
           \A x \in DOMAIN f : f[x] \in R
    PROVE  f \in PFun(D, R)
<1>1. f \in [DOMAIN f -> R]
  OBVIOUS
<1> QED BY <1>1 DEF PFun

LEMMA EmptyPFun ==
    ASSUME NEW D, NEW R
    PROVE  Empty \in PFun(D, R) /\ DOMAIN Empty = {}
<1>1. DOMAIN Empty = {} /\ Empty = [x \in DOMAIN Empty |-> Empty[x]]
  BY DEF Empty
<1> QED BY <1>1, IsPFun

LEMMA WithIs ==
    ASSUME NEW f, NEW x, NEW v
    PROVE  /\ DOMAIN With(f, x, v) = DOMAIN f \cup {x}
           /\ With(f, x, v)[x] = v
           /\ \A y \in DOMAIN f : y # x => With(f, x, v)[y] = f[y]
  BY DEF With

LEMMA WithPFun ==
    ASSUME NEW D, NEW R, NEW f \in PFun(D, R), NEW x \in D, NEW v \in R
    PROVE  With(f, x, v) \in PFun(D, R)
<1> DEFINE g == With(f, x, v)
<1>1. DOMAIN g = DOMAIN f \cup {x} /\ g = [y \in DOMAIN g |-> g[y]]
  BY DEF With
<1>2. DOMAIN f \subseteq D /\ \A y \in DOMAIN f : f[y] \in R
  BY PFunIs
<1>3. \A y \in DOMAIN g : g[y] \in R
  BY <1>2 DEF With
<1> HIDE DEF g
<1> QED BY <1>1, <1>2, <1>3, IsPFun DEF g

LEMMA WithoutIs ==
    ASSUME NEW f, NEW x
    PROVE  /\ DOMAIN Without(f, x) = DOMAIN f \ {x}
           /\ \A y \in DOMAIN f \ {x} : Without(f, x)[y] = f[y]
  BY DEF Without

LEMMA WithoutPFun ==
    ASSUME NEW D, NEW R, NEW f \in PFun(D, R), NEW x
    PROVE  Without(f, x) \in PFun(D, R)
<1> DEFINE g == Without(f, x)
<1>1. DOMAIN g = DOMAIN f \ {x} /\ g = [y \in DOMAIN g |-> g[y]]
  BY DEF Without
<1>2. DOMAIN f \subseteq D /\ \A y \in DOMAIN f : f[y] \in R
  BY PFunIs
<1>3. \A y \in DOMAIN g : g[y] \in R
  BY <1>2 DEF Without
<1> HIDE DEF g
<1> QED BY <1>1, <1>2, <1>3, IsPFun DEF g

\* The parts of a store.
LEMMA StoreIs ==
    ASSUME NEW s \in Stores
    PROVE  /\ s.blueprints \in PFun(AllNames, Valids) /\ s.workspace \in PFun(Names, Valids)
           /\ s.changes \in PFun(AllNames, PFun(CommitIDs, Changes))
           /\ s.commits \in PFun(AllNames, Seq(CommitIDs)) /\ s.sources \in PFun(SourceIDs, Source)
           /\ DOMAIN s.commits \subseteq AllNames /\ \A n \in DOMAIN s.commits : s.commits[n] \in Seq(CommitIDs)
           /\ DOMAIN s.changes \subseteq AllNames
           /\ \A n \in DOMAIN s.changes :
                /\ s.changes[n] \in PFun(CommitIDs, Changes)
                /\ DOMAIN s.changes[n] \subseteq CommitIDs
                /\ \A c \in DOMAIN s.changes[n] :
                     /\ s.changes[n][c] \in Changes
                     /\ s.changes[n][c].Revision \in Nat
                     /\ s.changes[n][c].Timestamp \in Nat
                     /\ s.changes[n][c].Blueprint \in Blueprint
<1>1. /\ s.blueprints \in PFun(AllNames, Valids) /\ s.workspace \in PFun(Names, Valids)
      /\ s.changes \in PFun(AllNames, PFun(CommitIDs, Changes))
      /\ s.commits \in PFun(AllNames, Seq(CommitIDs)) /\ s.sources \in PFun(SourceIDs, Source)
  BY DEF Stores
<1>2. DOMAIN s.commits \subseteq AllNames /\ \A n \in DOMAIN s.commits : s.commits[n] \in Seq(CommitIDs)
  BY <1>1, PFunIs
<1>3. DOMAIN s.changes \subseteq AllNames /\ \A n \in DOMAIN s.changes : s.changes[n] \in PFun(CommitIDs, Changes)
  BY <1>1, PFunIs
<1>4. \A n \in DOMAIN s.changes : /\ DOMAIN s.changes[n] \subseteq CommitIDs
                                  /\ \A c \in DOMAIN s.changes[n] : s.changes[n][c] \in Changes
  BY <1>3, PFunIs
<1>5. \A x \in Changes : x.Revision \in Nat /\ x.Timestamp \in Nat /\ x.Blueprint \in Blueprint
  BY DEF Changes
<1> QED BY <1>1, <1>2, <1>3, <1>4, <1>5

\* A part of a store is replaced.
LEMMA PartReplaced ==
    ASSUME NEW s \in Stores, NEW v
    PROVE  /\ v \in PFun(AllNames, Valids) => [s EXCEPT !.blueprints = v] \in Stores
           /\ v \in PFun(Names, Valids) => [s EXCEPT !.workspace = v] \in Stores
           /\ v \in PFun(AllNames, PFun(CommitIDs, Changes)) => [s EXCEPT !.changes = v] \in Stores
           /\ v \in PFun(AllNames, Seq(CommitIDs)) => [s EXCEPT !.commits = v] \in Stores
           /\ v \in PFun(SourceIDs, Source) => [s EXCEPT !.sources = v] \in Stores
  BY DEF Stores

-----------------------------------------------------------------------------
(***************************************************************************)
(* Histories.                                                              *)
(***************************************************************************)
LEMMA PrefixIs ==
    ASSUME NEW S, NEW s \in Seq(S), NEW t \in Seq(S)
    PROVE  IsPrefix(s, t) <=> Len(s) <= Len(t) /\ \A i \in 1 .. Len(s) : s[i] = t[i]
  BY DEF IsPrefix

LEMMA PrefixTrans ==
    ASSUME NEW S, NEW s \in Seq(S), NEW t \in Seq(S), NEW u \in Seq(S), IsPrefix(s, t), IsPrefix(t, u)
    PROVE  IsPrefix(s, u)
<1>1. Len(s) <= Len(t) /\ \A i \in 1 .. Len(s) : s[i] = t[i]
  BY PrefixIs
<1>2. Len(t) <= Len(u) /\ \A i \in 1 .. Len(t) : t[i] = u[i]
  BY PrefixIs
<1>3. Len(s) <= Len(u) /\ \A i \in 1 .. Len(s) : s[i] = u[i]
  BY <1>1, <1>2
<1> QED BY <1>3, PrefixIs

LEMMA ExtendsSame ==
    ASSUME NEW s \in Stores, NEW t, t.commits = s.commits
    PROVE  Extends(s, t)
<1>1. \A n \in DOMAIN s.commits : s.commits[n] \in Seq(CommitIDs)
  BY StoreIs
<1>2. \A n \in DOMAIN s.commits : IsPrefix(s.commits[n], s.commits[n])
  BY <1>1, PrefixIs
<1> QED BY <1>2 DEF Extends

LEMMA ExtendsTrans ==
    ASSUME NEW s \in Stores, NEW t \in Stores, NEW u \in Stores, Extends(s, t), Extends(t, u)
    PROVE  Extends(s, u)
<1> SUFFICES ASSUME NEW n \in DOMAIN s.commits
             PROVE  n \in DOMAIN u.commits /\ IsPrefix(s.commits[n], u.commits[n])
  BY DEF Extends
<1>1. n \in DOMAIN t.commits /\ n \in DOMAIN u.commits /\ IsPrefix(s.commits[n], t.commits[n])
      /\ IsPrefix(t.commits[n], u.commits[n])
  BY DEF Extends
<1>2. s.commits[n] \in Seq(CommitIDs) /\ t.commits[n] \in Seq(CommitIDs) /\ u.commits[n] \in Seq(CommitIDs)
  BY <1>1, StoreIs
<1> QED BY <1>1, <1>2, PrefixTrans

-----------------------------------------------------------------------------
(***************************************************************************)
(* The file.                                                               *)
(***************************************************************************)
LEMMA ZeroIs == ZeroBlueprint \in Blueprint
  BY DEF ZeroBlueprint, Blueprint, AllNames

\* Two stores with the same blueprints and histories, but for the blueprints of the changes.
SameHistory(s, t) ==
    /\ t.blueprints = s.blueprints /\ t.commits = s.commits
    /\ DOMAIN t.changes = DOMAIN s.changes
    /\ \A n \in DOMAIN s.changes :
        /\ DOMAIN t.changes[n] = DOMAIN s.changes[n]
        /\ \A c \in DOMAIN s.changes[n] :
            /\ t.changes[n][c].Revision = s.changes[n][c].Revision
            /\ t.changes[n][c].Timestamp = s.changes[n][c].Timestamp

LEMMA PositionsIn ==
    ASSUME NEW s \in Stores, Ordered(s), NEW n \in DOMAIN s.commits
    PROVE  /\ n \in DOMAIN s.changes /\ s.commits[n] \in Seq(CommitIDs)
           /\ \A i \in DOMAIN s.commits[n] : s.commits[n][i] \in DOMAIN s.changes[n]
           /\ s.commits[n] # <<>> => /\ Last(s.commits[n]) \in DOMAIN s.changes[n]
                                     /\ Len(s.commits[n]) \in DOMAIN s.commits[n]
<1>1. n \in DOMAIN s.changes /\ s.commits[n] \in Seq(CommitIDs) /\ Range(s.commits[n]) = DOMAIN s.changes[n]
  BY StoreIs DEF Ordered
<1>2. s.commits[n] # <<>> => Len(s.commits[n]) \in DOMAIN s.commits[n]
  BY <1>1
<1>3. \A i \in DOMAIN s.commits[n] : s.commits[n][i] \in DOMAIN s.changes[n]
  BY <1>1 DEF Range
<1> QED BY <1>1, <1>2, <1>3 DEF Last

LEMMA SameIsGood ==
    ASSUME NEW s, NEW t, NEW p, Good(s, p), t \in Stores, SameHistory(s, t)
    PROVE  Good(t, p)
<1>1. s \in Stores /\ Ordered(s) /\ Complete(s, p) /\ LatestIsCommitted(s, p) /\ RevisionsGrow(s)
  BY DEF Good
<1>2. Ordered(t) /\ Complete(t, p)
  BY <1>1 DEF Ordered, Complete, SameHistory
<1>3. LatestIsCommitted(t, p)
  <2> SUFFICES ASSUME NEW n \in DOMAIN s.blueprints
               PROVE  Tied(t, n) \/ s.blueprints[n].Packages = p[Last(s.commits[n])]
    BY DEF LatestIsCommitted, SameHistory
  <2>1. Tied(s, n) \/ s.blueprints[n].Packages = p[Last(s.commits[n])]
    BY <1>1 DEF LatestIsCommitted
  <2>2. n \in DOMAIN s.commits /\ s.commits[n] # <<>>
    BY <1>1 DEF Complete
  <2>3. n \in DOMAIN s.changes /\ Last(s.commits[n]) \in DOMAIN s.changes[n]
    BY <1>1, <2>2, PositionsIn
  <2>4. Tied(s, n) => Tied(t, n)
    BY <2>3 DEF Tied, SameHistory
  <2> QED BY <2>1, <2>4
<1>4. RevisionsGrow(t)
  <2>1. \A n \in DOMAIN s.commits : \A i \in DOMAIN s.commits[n] :
            RevisionOf(t, n, i) = RevisionOf(s, n, i)
    BY <1>1, PositionsIn DEF RevisionOf, SameHistory
  <2>2. t.commits = s.commits
    BY DEF SameHistory
  <2> QED BY <1>1, <2>1, <2>2 DEF RevisionsGrow
<1> QED BY <1>2, <1>3, <1>4 DEF Good

LEMMA WrittenIs ==
    ASSUME NEW s \in Stores, NEW d, d = toStoreV0(s)
    PROVE  /\ d \in Stores /\ SameHistory(s, d)
           /\ d.workspace = s.workspace /\ d.sources = s.sources
<1> DEFINE chg == [n \in DOMAIN s.changes |->
                    [c \in DOMAIN s.changes[n] |-> [s.changes[n][c] EXCEPT !.Blueprint = ZeroBlueprint]]]
<1>1. d = [s EXCEPT !.changes = chg]
  BY DEF toStoreV0
<1>2. \A n \in DOMAIN s.changes : \A c \in DOMAIN s.changes[n] :
          /\ chg[n][c] \in Changes
          /\ chg[n][c].Revision = s.changes[n][c].Revision
          /\ chg[n][c].Timestamp = s.changes[n][c].Timestamp
  <2>1. \A x \in Changes : /\ [x EXCEPT !.Blueprint = ZeroBlueprint] \in Changes
                           /\ [x EXCEPT !.Blueprint = ZeroBlueprint].Revision = x.Revision
                           /\ [x EXCEPT !.Blueprint = ZeroBlueprint].Timestamp = x.Timestamp
    BY ZeroIs DEF Changes
  <2> QED BY <2>1, StoreIs
<1>3. /\ DOMAIN chg = DOMAIN s.changes /\ chg = [n \in DOMAIN chg |-> chg[n]]
      /\ \A n \in DOMAIN s.changes : /\ DOMAIN chg[n] = DOMAIN s.changes[n]
                                     /\ chg[n] = [c \in DOMAIN chg[n] |-> chg[n][c]]
  OBVIOUS
<1> HIDE DEF chg
<1>4. \A n \in DOMAIN s.changes : chg[n] \in PFun(CommitIDs, Changes)
  BY <1>2, <1>3, StoreIs, IsPFun
<1>5. chg \in PFun(AllNames, PFun(CommitIDs, Changes))
  BY <1>3, <1>4, StoreIs, IsPFun
<1>6. d \in Stores /\ d.changes = chg /\ d.blueprints = s.blueprints /\ d.commits = s.commits
      /\ d.workspace = s.workspace /\ d.sources = s.sources
  BY <1>1, <1>5 DEF Stores
<1> QED BY <1>2, <1>3, <1>6 DEF SameHistory

\* A file with the order of all commits is read as it is.
LEMMA ReadBack ==
    ASSUME NEW d \in Stores, DOMAIN d.changes \subseteq DOMAIN d.commits, NEW x \in newStoreFromV0(d)
    PROVE  x = d
<1>1. PICK com \in newCommitsFromV0(d) : x = [d EXCEPT !.commits = com]
  BY DEF newStoreFromV0
<1>2. /\ DOMAIN com = DOMAIN d.commits /\ com = [n \in DOMAIN com |-> com[n]]
      /\ \A n \in DOMAIN com : com[n] = d.commits[n]
  BY DEF newCommitsFromV0
<1>3. d.commits = [n \in DOMAIN d.commits |-> d.commits[n]]
  BY StoreIs, PFunIs
<1>4. com = d.commits
  BY <1>2, <1>3
<1> QED BY <1>1, <1>4 DEF Stores

\* What is written is read again.
LEMMA FileIsGood ==
    ASSUME NEW s, NEW p, Good(s, p), NEW d, d = toStoreV0(s)
    PROVE  /\ d \in Stores /\ Ordered(d) /\ \A x \in newStoreFromV0(d) : Good(x, p)
           /\ SameHistory(s, d) /\ d.sources = s.sources
<1>1. s \in Stores /\ Complete(s, p)
  BY DEF Good
<1>2. d \in Stores /\ SameHistory(s, d) /\ d.sources = s.sources
  BY <1>1, WrittenIs
<1>3. Good(d, p)
  BY <1>2, SameIsGood
<1>4. \A x \in newStoreFromV0(d) : x = d
  BY <1>1, <1>2, ReadBack DEF Complete, SameHistory
<1> QED BY <1>2, <1>3, <1>4 DEF Good

\* More commits do not concern the names that have none of them.
LEMMA GoodStays ==
    ASSUME NEW s, NEW p, NEW q, Good(s, p), Used(p) \in Nat, Used(q) \in Nat, Used(p) <= Used(q),
           DOMAIN p \subseteq DOMAIN q, \A c \in DOMAIN p : q[c] = p[c]
    PROVE  Good(s, q)
<1>1. s \in Stores /\ Ordered(s) /\ Complete(s, p) /\ LatestIsCommitted(s, p) /\ RevisionsGrow(s)
  BY DEF Good
<1>2. ASSUME NEW n \in DOMAIN s.commits
      PROVE  s.commits[n] # <<>> /\ Last(s.commits[n]) \in DOMAIN p /\ Len(s.commits[n]) <= Used(q)
  <2>1. s.commits[n] # <<>> /\ DOMAIN s.changes[n] \subseteq DOMAIN p /\ Len(s.commits[n]) <= Used(p)
    BY <1>1 DEF Complete
  <2>2. Last(s.commits[n]) \in DOMAIN s.changes[n] /\ s.commits[n] \in Seq(CommitIDs)
    BY <1>1, <2>1, PositionsIn
  <2>3. Len(s.commits[n]) <= Used(q)
    BY <2>1, <2>2
  <2> QED BY <2>1, <2>2, <2>3
<1>3. Complete(s, q)
  BY <1>1, <1>2 DEF Complete
<1>4. LatestIsCommitted(s, q)
  BY <1>1, <1>2 DEF LatestIsCommitted, Complete
<1> QED BY <1>1, <1>3, <1>4 DEF Good

-----------------------------------------------------------------------------
(***************************************************************************)
(* Store.change.                                                           *)
(***************************************************************************)
CallsOK(c) ==
    /\ DOMAIN c \subseteq {"undo", "delete"}
    /\ "undo" \in DOMAIN c => c["undo"] \in Blueprint
    /\ c = [x \in DOMAIN c |-> c[x]]

\* Commits are only added to those that were pushed.
PushedGrows(p, q) ==
    /\ Used(p) \in Nat /\ Used(q) \in Nat /\ Used(p) <= Used(q)
    /\ DOMAIN p \subseteq DOMAIN q /\ \A c \in DOMAIN p : q[c] = p[c]

Forget(promise, key) == [promise EXCEPT !.sources = Without(@, key)]

LEMMA UsedIs ==
    ASSUME NEW p, IdsInOrder(p)
    PROVE  Used(p) \in Nat /\ DOMAIN p \subseteq CommitIDs /\ Commits \in Seq(CommitIDs) /\ IsInjective(Commits)
<1>1. Commits \in Seq(CommitIDs) /\ IsInjective(Commits)
  BY ConstantsOK DEF CommitIDs
<1>2. Used(p) \in Nat
  BY FS_CardinalityType DEF IdsInOrder, Used
<1>3. DOMAIN p \subseteq CommitIDs
  BY <1>1, <1>2 DEF IdsInOrder
<1> QED BY <1>1, <1>2, <1>3

LEMMA Forgotten ==
    ASSUME NEW a \in Promises, NEW key
    PROVE  /\ Forget(a, key) \in Promises
           /\ Forget(a, key).commits = a.commits
           /\ DOMAIN Forget(a, key).sources = DOMAIN a.sources \ {key}
           /\ \A k \in DOMAIN a.sources \ {key} : Forget(a, key).sources[k] = a.sources[k]
<1> DEFINE w == Without(a.sources, key)
<1>1. w \in PFun(SourceIDs, Source)
  BY WithoutPFun DEF Promises
<1>2. DOMAIN w = DOMAIN a.sources \ {key} /\ \A k \in DOMAIN a.sources \ {key} : w[k] = a.sources[k]
  BY WithoutIs
<1>3. Forget(a, key) = [a EXCEPT !.sources = w]
  BY DEF Forget, Promises
<1> HIDE DEF w
<1>4. Forget(a, key) \in Promises /\ Forget(a, key).commits = a.commits /\ Forget(a, key).sources = w
  BY <1>1, <1>3 DEF Promises
<1> QED BY <1>2, <1>4

LEMMA HoldsLess ==
    ASSUME NEW s, NEW a \in Promises, NEW key, Holds(s, a)
    PROVE  Holds(s, Forget(a, key))
  BY Forgotten DEF Holds

LEMMA SamePromises ==
    ASSUME NEW s, NEW t, NEW a, Holds(s, a), t.sources = s.sources, DOMAIN t.changes = DOMAIN s.changes,
           \A n \in DOMAIN s.changes : DOMAIN t.changes[n] = DOMAIN s.changes[n]
    PROVE  Holds(t, a)
  BY DEF Holds

\* What a step keeps: the invariant, and the histories in the file.
Advances == IInv' /\ Extends(disk, disk')

LEMMA ChangeKeeps ==
    ASSUME IInv, NEW new, NEW promise \in Promises, NEW key, change(new, promise, key),
           IdsInOrder(pushed'), PushedGrows(pushed, pushed'), Good(new, pushed'), Extends(store, new),
           Holds(new, promise), Holds(new, Forget(acked, key)), CallsOK(calls')
    PROVE  Advances
<1>1. /\ up /\ up' /\ store' = new /\ asked' \in 0 .. MaxChanges
  BY ConstantsOK DEF change, IInv
<1>2. /\ acked \in Promises /\ disk \in Stores /\ Ordered(disk) /\ Holds(disk, acked) /\ Extends(disk, store)
      /\ store \in Stores /\ new \in Stores
      /\ \A s \in newStoreFromV0(disk) : Good(s, pushed)
  BY <1>1 DEF IInv, Good
<1>3. CASE disk' = toStoreV0(new) /\ acked' = promise
  <2>1. /\ disk' \in Stores /\ Ordered(disk') /\ \A x \in newStoreFromV0(disk') : Good(x, pushed')
        /\ SameHistory(new, disk') /\ disk'.sources = new.sources
    BY <1>3, FileIsGood
  <2>2. Extends(disk', new)
    BY <2>1, ExtendsSame DEF SameHistory
  <2>3. Holds(disk', promise)
    BY <2>1, SamePromises DEF SameHistory
  <2>4. IInv'
    BY <1>1, <1>3, <2>1, <2>2, <2>3 DEF IInv, CallsOK
  <2>5. Extends(disk, new)
    BY <1>2, ExtendsTrans
  <2> QED BY <2>1, <2>4, <2>5 DEF Advances, Extends, SameHistory
<1>4. CASE disk' = disk /\ acked' = Forget(acked, key)
  <2>1. \A x \in newStoreFromV0(disk) : Good(x, pushed')
    BY <1>2, GoodStays DEF PushedGrows
  <2>2. Extends(disk, new)
    BY <1>2, ExtendsTrans
  <2>3. Holds(disk, acked') /\ acked' \in Promises
    BY <1>2, <1>4, HoldsLess, Forgotten
  <2>4. IInv'
    BY <1>1, <1>2, <1>4, <2>1, <2>2, <2>3 DEF IInv, CallsOK
  <2> QED BY <1>2, <1>4, <2>4, ExtendsSame DEF Advances
<1> QED BY <1>3, <1>4 DEF change, Forget

LEMMA GrowsSame ==
    ASSUME NEW p, IdsInOrder(p)
    PROVE  PushedGrows(p, p)
  BY UsedIs DEF PushedGrows

LEMMA PlainKeeps ==
    ASSUME IInv, NEW new, plainly(new), up => Good(new, pushed) /\ Extends(store, new) /\ Holds(new, acked),
           UNCHANGED <<calls, pushed>>
    PROVE  Advances
<1>1. up /\ change(new, acked, NoName)
  BY DEF plainly, change
<1>2. acked \in Promises /\ IdsInOrder(pushed) /\ PushedGrows(pushed, pushed) /\ CallsOK(calls)
  BY GrowsSame DEF IInv, CallsOK
<1>3. Holds(new, Forget(acked, NoName))
  BY <1>1, <1>2, HoldsLess
<1> QED BY <1>1, <1>2, <1>3, ChangeKeeps

-----------------------------------------------------------------------------
(***************************************************************************)
(* The workspace, deletions and sources.                                   *)
(***************************************************************************)
LEMMA InitializeIs ==
    ASSUME NEW bp \in Blueprint, Valid(bp)
    PROVE  /\ Initialize(bp) \in Valids /\ Initialize(bp).Name = bp.Name
           /\ Initialize(bp).Packages = bp.Packages
  BY DEF Blueprint, Valid, Initialize, Valids

LEMMA RequestedIs ==
    ASSUME NEW bp \in Requested
    PROVE  bp \in Blueprint /\ bp.Name \in Names
  BY ConstantsOK DEF Requested, Blueprint, AllNames

\* A store that differs in the workspace or the sources, or has fewer blueprints.
LEMMA FewerIsGood ==
    ASSUME NEW s, NEW p, Good(s, p), NEW t \in Stores, t.changes = s.changes, t.commits = s.commits,
           DOMAIN t.blueprints \subseteq DOMAIN s.blueprints,
           \A n \in DOMAIN t.blueprints : t.blueprints[n] = s.blueprints[n]
    PROVE  Good(t, p) /\ Extends(s, t)
<1>1. s \in Stores /\ Ordered(s) /\ Complete(s, p) /\ LatestIsCommitted(s, p) /\ RevisionsGrow(s)
  BY DEF Good
<1>2. Ordered(t) /\ Complete(t, p) /\ LatestIsCommitted(t, p) /\ RevisionsGrow(t)
  BY <1>1 DEF Ordered, Complete, LatestIsCommitted, RevisionsGrow, RevisionOf, Tied
<1> QED BY <1>1, <1>2, ExtendsSame DEF Good

LEMMA WorkspaceKeeps ==
    ASSUME IInv, blueprintsWorkspace \/ blueprintDelete \/ blueprintDeleteWorkspace
    PROVE  Advances
<1>1. ASSUME NEW new \in Stores, plainly(new), UNCHANGED <<calls, pushed>>,
             new.changes = store.changes, new.commits = store.commits, new.sources = store.sources,
             DOMAIN new.blueprints \subseteq DOMAIN store.blueprints,
             \A n \in DOMAIN new.blueprints : new.blueprints[n] = store.blueprints[n]
      PROVE  Advances
  <2>1. up => Good(new, pushed) /\ Extends(store, new) /\ Holds(new, acked)
    BY <1>1, FewerIsGood, SamePromises DEF IInv
  <2> QED BY <1>1, <2>1, PlainKeeps
<1>2. up => store \in Stores
  BY DEF IInv, Good
<1>3. CASE blueprintsWorkspace
  <2>1. PICK bp \in Requested :
            /\ plainly(IF Valid(bp) THEN PushBlueprintToWorkspace(store, bp) ELSE store)
            /\ UNCHANGED <<calls, pushed>>
    BY <1>3 DEF blueprintsWorkspace
  <2>2. store \in Stores
    BY <1>2, <2>1 DEF plainly, change
  <2>3. CASE Valid(bp)
    <3> DEFINE w == With(store.workspace, bp.Name, Initialize(bp))
    <3>1. w \in PFun(Names, Valids)
      BY <2>2, <2>3, RequestedIs, InitializeIs, WithPFun, StoreIs
    <3>2. PushBlueprintToWorkspace(store, bp) = [store EXCEPT !.workspace = w]
      BY DEF PushBlueprintToWorkspace
    <3> HIDE DEF w
    <3> QED BY <1>1, <2>1, <2>2, <2>3, <3>1, <3>2 DEF Stores
  <2> QED BY <1>1, <2>1, <2>2, <2>3
<1>4. ASSUME NEW n, plainly(DeleteBlueprint(store, n)), UNCHANGED <<calls, pushed>> PROVE Advances
  <2> DEFINE w == Without(store.workspace, n)
             b == Without(store.blueprints, n)
  <2>1. store \in Stores
    BY <1>2, <1>4 DEF plainly, change
  <2>2. w \in PFun(Names, Valids) /\ b \in PFun(AllNames, Valids)
        /\ DOMAIN b \subseteq DOMAIN store.blueprints /\ \A x \in DOMAIN b : b[x] = store.blueprints[x]
    <3>1. store.workspace \in PFun(Names, Valids) /\ store.blueprints \in PFun(AllNames, Valids)
      BY <2>1, StoreIs
    <3>2. w \in PFun(Names, Valids) /\ b \in PFun(AllNames, Valids)
      BY <3>1, WithoutPFun
    <3>3. DOMAIN b = DOMAIN store.blueprints \ {n}
          /\ \A x \in DOMAIN store.blueprints \ {n} : b[x] = store.blueprints[x]
      BY WithoutIs
    <3> QED BY <3>2, <3>3
  <2>3. DeleteBlueprint(store, n) = [store EXCEPT !.workspace = w, !.blueprints = b]
    BY DEF DeleteBlueprint
  <2> HIDE DEF w, b
  <2>4. LET new == DeleteBlueprint(store, n)
        IN  /\ new \in Stores /\ new.changes = store.changes /\ new.commits = store.commits
            /\ new.sources = store.sources /\ new.blueprints = b
    BY <2>1, <2>2, <2>3 DEF Stores
  <2> QED BY <1>1, <1>4, <2>2, <2>4
<1>5. ASSUME NEW n, plainly(DeleteBlueprintFromWorkspace(store, n)), UNCHANGED <<calls, pushed>> PROVE Advances
  <2> DEFINE w == Without(store.workspace, n)
  <2>1. store \in Stores
    BY <1>2, <1>5 DEF plainly, change
  <2>2. w \in PFun(Names, Valids)
    BY <2>1, StoreIs, WithoutPFun
  <2>3. DeleteBlueprintFromWorkspace(store, n) = [store EXCEPT !.workspace = w]
    BY DEF DeleteBlueprintFromWorkspace
  <2> HIDE DEF w
  <2> QED BY <1>1, <1>5, <2>1, <2>2, <2>3 DEF Stores
<1> QED BY <1>3, <1>4, <1>5 DEF blueprintDelete, blueprintDeleteWorkspace

LEMMA SourcesReplaced ==
    ASSUME NEW s, NEW p, Good(s, p), NEW v \in PFun(SourceIDs, Source), NEW t, t = [s EXCEPT !.sources = v]
    PROVE  /\ Good(t, p) /\ Extends(s, t) /\ t.sources = v /\ t.changes = s.changes
<1>1. s \in Stores
  BY DEF Good
<1>2. /\ t \in Stores /\ t.changes = s.changes /\ t.commits = s.commits
      /\ t.blueprints = s.blueprints /\ t.sources = v
  BY <1>1 DEF Stores
<1> QED BY <1>2, FewerIsGood

LEMMA SourceNewKeeps == ASSUME IInv, sourceNew PROVE Advances
<1>1. PICK key \in SourceIDs \ SystemRepos, name \in SourceIDs, url \in URLs :
          /\ change(PushSource(store, key, [Name |-> name, URL |-> url]),
                    [acked EXCEPT !.sources = With(@, key, [Name |-> name, URL |-> url])], key)
          /\ UNCHANGED <<calls, pushed>>
  BY DEF sourceNew
<1> DEFINE source == [Name |-> name, URL |-> url]
           v == With(store.sources, key, source)
           a == With(acked.sources, key, source)
           new == PushSource(store, key, source)
           promise == [acked EXCEPT !.sources = With(@, key, source)]
<1>2. source \in Source
  BY DEF Source
<1> HIDE DEF source
<1>3. /\ change(new, promise, key) /\ up /\ store \in Stores /\ Good(store, pushed)
      /\ Holds(store, acked) /\ acked \in Promises
  BY <1>1 DEF change, IInv, Good, source
<1>4. store.sources \in PFun(SourceIDs, Source) /\ acked.sources \in PFun(SourceIDs, Source)
  BY <1>3, StoreIs DEF Promises
<1>5. v \in PFun(SourceIDs, Source) /\ a \in PFun(SourceIDs, Source)
  BY <1>2, <1>4, WithPFun
<1>6. /\ DOMAIN v = DOMAIN store.sources \cup {key} /\ v[key] = source
      /\ \A y \in DOMAIN store.sources : y # key => v[y] = store.sources[y]
      /\ DOMAIN a = DOMAIN acked.sources \cup {key} /\ a[key] = source
      /\ \A y \in DOMAIN acked.sources : y # key => a[y] = acked.sources[y]
  <2>1. /\ DOMAIN v = DOMAIN store.sources \cup {key} /\ v[key] = source
        /\ \A y \in DOMAIN store.sources : y # key => v[y] = store.sources[y]
    BY DEF With
  <2>2. /\ DOMAIN a = DOMAIN acked.sources \cup {key} /\ a[key] = source
        /\ \A y \in DOMAIN acked.sources : y # key => a[y] = acked.sources[y]
    BY DEF With
  <2> QED BY <2>1, <2>2
<1>7. new = [store EXCEPT !.sources = v] /\ promise = [acked EXCEPT !.sources = a]
  BY DEF PushSource
<1> HIDE DEF v, a, new, promise
<1>8. /\ Good(new, pushed) /\ Extends(store, new) /\ new.sources = v /\ new.changes = store.changes
  BY <1>3, <1>5, <1>7, SourcesReplaced
<1>9. promise \in Promises /\ promise.commits = acked.commits /\ promise.sources = a
  BY <1>3, <1>5, <1>7 DEF Promises
<1>10. Holds(new, promise)
  BY <1>3, <1>6, <1>8, <1>9 DEF Holds
<1>11. Holds(new, Forget(acked, key))
  BY <1>3, <1>6, <1>8, Forgotten DEF Holds
<1>12. IdsInOrder(pushed) /\ PushedGrows(pushed, pushed) /\ CallsOK(calls)
  BY GrowsSame DEF IInv, CallsOK
<1> QED BY <1>1, <1>3, <1>8, <1>9, <1>10, <1>11, <1>12, ChangeKeeps

LEMMA SourceDeleteKeeps == ASSUME IInv, sourceDelete PROVE Advances
<1>1. PICK k : change(DeleteSourceByID(store, k), Forget(acked, k), k)
  BY DEF sourceDelete, Forget
<1> DEFINE v == Without(store.sources, k)
           new == DeleteSourceByID(store, k)
<1>2. /\ up /\ store \in Stores /\ Good(store, pushed) /\ Holds(store, acked) /\ acked \in Promises
      /\ calls' = Without(calls, "delete") /\ UNCHANGED pushed
  BY <1>1 DEF change, IInv, Good, sourceDelete
<1>3. v \in PFun(SourceIDs, Source) /\ DOMAIN v = DOMAIN store.sources \ {k}
      /\ \A y \in DOMAIN store.sources \ {k} : v[y] = store.sources[y]
  <2>1. store.sources \in PFun(SourceIDs, Source)
    BY <1>2, StoreIs
  <2>2. v \in PFun(SourceIDs, Source)
    BY <2>1, WithoutPFun
  <2> QED BY <2>2, WithoutIs
<1>4. new = [store EXCEPT !.sources = v]
  BY DEF DeleteSourceByID
<1> HIDE DEF v, new
<1>5. /\ Good(new, pushed) /\ Extends(store, new) /\ new.sources = v /\ new.changes = store.changes
  BY <1>2, <1>3, <1>4, SourcesReplaced
<1>6. Holds(new, Forget(acked, k)) /\ Forget(acked, k) \in Promises
  BY <1>2, <1>3, <1>5, Forgotten DEF Holds
<1>7. IdsInOrder(pushed) /\ PushedGrows(pushed, pushed)
  BY GrowsSame DEF IInv
<1>8. CallsOK(calls')
  BY <1>2 DEF IInv, CallsOK, Without
<1> QED BY <1>1, <1>2, <1>5, <1>6, <1>7, <1>8, ChangeKeeps DEF new

-----------------------------------------------------------------------------
(***************************************************************************)
(* A new commit.                                                           *)
(***************************************************************************)
\* The commits and the changes of a name that may have none yet.
HistoryOf(s, n) == At(s.commits, n, <<>>)

ChangesOf(s, n) == At(s.changes, n, Empty)

\* What PushBlueprint makes of a store s.
IsPushed(s, bp, c, new) ==
    /\ new \in Stores /\ new.sources = s.sources
    /\ DOMAIN new.changes = DOMAIN s.changes \cup {bp.Name}
    /\ \A m \in DOMAIN s.changes : m # bp.Name => new.changes[m] = s.changes[m]
    /\ DOMAIN new.changes[bp.Name] = DOMAIN ChangesOf(s, bp.Name) \cup {c}
    /\ new.changes[bp.Name][c].Revision = 0
    /\ \A d \in DOMAIN ChangesOf(s, bp.Name) : d # c => new.changes[bp.Name][d] = s.changes[bp.Name][d]
    /\ DOMAIN new.commits = DOMAIN s.commits \cup {bp.Name}
    /\ \A m \in DOMAIN s.commits : m # bp.Name => new.commits[m] = s.commits[m]
    /\ new.commits[bp.Name] = Append(HistoryOf(s, bp.Name), c)
    /\ HistoryOf(s, bp.Name) \in Seq(CommitIDs)
    /\ DOMAIN new.blueprints = DOMAIN s.blueprints \cup {bp.Name}
    /\ \A m \in DOMAIN s.blueprints : m # bp.Name => new.blueprints[m] = s.blueprints[m]
    /\ new.blueprints[bp.Name].Packages = bp.Packages

LEMMA Pushes ==
    ASSUME NEW s \in Stores, NEW bp \in Blueprint, Valid(bp), NEW c \in CommitIDs, NEW time \in Nat,
           NEW new, new = PushBlueprint(s, bp, c, time)
    PROVE  IsPushed(s, bp, c, new)
<1> DEFINE n == bp.Name
           ini == Initialize(bp)
           chg == Change(c, 0, time, ini)
           bumped == IF n \in DOMAIN s.blueprints /\ ini.Version = s.blueprints[n].Version
                     THEN BumpVersion(ini, s.blueprints[n].Version) ELSE ini
           w == Without(s.workspace, n)
           chs == With(ChangesOf(s, n), c, chg)
           ch == With(s.changes, n, chs)
           seq == Append(HistoryOf(s, n), c)
           co == With(s.commits, n, seq)
           b == With(s.blueprints, n, bumped)
<1>1. n \in AllNames /\ ini \in Valids /\ ini.Name = n /\ ini.Packages = bp.Packages /\ ini \in Blueprint
  BY InitializeIs DEF Blueprint, Valids
<1>2. new = [s EXCEPT !.workspace = w, !.changes = ch, !.commits = co, !.blueprints = b]
  BY <1>1 DEF PushBlueprint, HistoryOf, ChangesOf
<1>3. bumped \in Valids /\ bumped.Packages = bp.Packages
  <2>1. \A k \in Nat : BumpVersion(ini, k) \in Valids /\ BumpVersion(ini, k).Packages = ini.Packages
    BY <1>1 DEF BumpVersion, Valids, Blueprint
  <2>2. ini.Version \in Nat
    BY <1>1 DEF Valids
  <2> QED BY <1>1, <2>1, <2>2
<1>4. chg \in Changes /\ chg.Revision = 0
  BY <1>1 DEF Change, Changes
<1> HIDE DEF n, ini, bumped, chg
<1>5. /\ s.blueprints \in PFun(AllNames, Valids) /\ s.workspace \in PFun(Names, Valids)
      /\ s.changes \in PFun(AllNames, PFun(CommitIDs, Changes))
      /\ s.commits \in PFun(AllNames, Seq(CommitIDs))
  BY StoreIs
<1>6. ChangesOf(s, n) \in PFun(CommitIDs, Changes)
  BY StoreIs, EmptyPFun DEF ChangesOf, At
<1>7. HistoryOf(s, n) \in Seq(CommitIDs)
  BY StoreIs DEF HistoryOf, At
<1>8. chs \in PFun(CommitIDs, Changes) /\ seq \in Seq(CommitIDs)
  BY <1>4, <1>6, <1>7, WithPFun
<1>9. /\ DOMAIN chs = DOMAIN ChangesOf(s, n) \cup {c} /\ chs[c] = chg
      /\ \A d \in DOMAIN ChangesOf(s, n) : d # c => chs[d] = ChangesOf(s, n)[d]
  BY DEF With
<1> HIDE DEF chs, seq
<1>10. /\ w \in PFun(Names, Valids) /\ ch \in PFun(AllNames, PFun(CommitIDs, Changes))
       /\ co \in PFun(AllNames, Seq(CommitIDs)) /\ b \in PFun(AllNames, Valids)
  <2>1. w \in PFun(Names, Valids)
    BY <1>5, WithoutPFun
  <2>2. ch \in PFun(AllNames, PFun(CommitIDs, Changes))
    BY <1>1, <1>5, <1>8, WithPFun
  <2>3. co \in PFun(AllNames, Seq(CommitIDs))
    BY <1>1, <1>5, <1>8, WithPFun
  <2>4. b \in PFun(AllNames, Valids)
    BY <1>1, <1>3, <1>5, WithPFun
  <2> QED BY <2>1, <2>2, <2>3, <2>4
<1>11. /\ DOMAIN ch = DOMAIN s.changes \cup {n} /\ ch[n] = chs
       /\ \A m \in DOMAIN s.changes : m # n => ch[m] = s.changes[m]
  BY DEF With
<1>12. /\ DOMAIN co = DOMAIN s.commits \cup {n} /\ co[n] = seq
       /\ \A m \in DOMAIN s.commits : m # n => co[m] = s.commits[m]
  BY DEF With
<1>13. /\ DOMAIN b = DOMAIN s.blueprints \cup {n} /\ b[n] = bumped
       /\ \A m \in DOMAIN s.blueprints : m # n => b[m] = s.blueprints[m]
  BY DEF With
<1> HIDE DEF w, ch, co, b
<1>14. /\ new.workspace = w /\ new.changes = ch /\ new.commits = co /\ new.blueprints = b
       /\ new.sources = s.sources
  BY <1>2 DEF Stores
<1>15. new \in Stores
  <2>1. [s EXCEPT !.workspace = w] \in Stores
    BY <1>10, PartReplaced
  <2>2. [s EXCEPT !.workspace = w, !.changes = ch] \in Stores
    BY <1>10, <2>1, PartReplaced
  <2>3. [s EXCEPT !.workspace = w, !.changes = ch, !.commits = co] \in Stores
    BY <1>10, <2>2, PartReplaced
  <2> QED BY <1>2, <1>10, <2>3, PartReplaced
<1>16. \A d \in DOMAIN ChangesOf(s, n) : ChangesOf(s, n)[d] = s.changes[n][d]
  BY EmptyPFun DEF ChangesOf, At
<1> QED BY <1>3, <1>4, <1>7, <1>9, <1>11, <1>12, <1>13, <1>14, <1>15, <1>16 DEF n, seq, IsPushed

\* q is p with a new commit c.
IsNext(p, c, v, q) ==
    /\ c \in CommitIDs /\ c \notin DOMAIN p /\ q[c] = v /\ DOMAIN q = DOMAIN p \cup {c}
    /\ IdsInOrder(q) /\ PushedGrows(p, q) /\ Used(q) = Used(p) + 1
    /\ Legacy /\ c \in {Commits[1], Commits[2]} => Used(p) + 1 <= 2

\* The next commit id is a new one.
LEMMA NextCommit ==
    ASSUME NEW p, IdsInOrder(p), Used(p) < Len(Commits), NEW c, c = Commits[Used(p) + 1],
           NEW v, NEW q, q = With(p, c, v)
    PROVE  IsNext(p, c, v, q)
<1>1. /\ Used(p) \in Nat /\ Commits \in Seq(CommitIDs) /\ IsInjective(Commits) /\ IsFiniteSet(DOMAIN p)
      /\ DOMAIN p = {Commits[i] : i \in 1 .. Used(p)}
  BY UsedIs DEF IdsInOrder
<1>2. Used(p) + 1 \in 1 .. Len(Commits) /\ DOMAIN Commits = 1 .. Len(Commits)
  BY <1>1
<1>3. \A i, j \in 1 .. Len(Commits) : Commits[i] = Commits[j] => i = j
  BY <1>1, <1>2 DEF IsInjective
<1>4. c \in CommitIDs
  BY <1>1, <1>2
<1>5. c \notin DOMAIN p
  BY <1>1, <1>2, <1>3
<1>6. /\ q[c] = v /\ DOMAIN q = DOMAIN p \cup {c} /\ \A d \in DOMAIN p : q[d] = p[d]
  BY <1>5 DEF With
<1>7. IsFiniteSet(DOMAIN q) /\ Used(q) = Used(p) + 1
  <2>1. /\ IsFiniteSet(DOMAIN p \cup {c})
        /\ Cardinality(DOMAIN p \cup {c}) = Cardinality(DOMAIN p) + 1
    BY <1>1, <1>5, FS_AddElement
  <2> QED BY <1>6, <2>1 DEF Used
<1>8. DOMAIN q = {Commits[i] : i \in 1 .. Used(p) + 1}
  BY <1>1, <1>2, <1>6
<1>9. ASSUME Legacy, c \in {Commits[1], Commits[2]} PROVE Used(p) + 1 <= 2
  <2>1. Len(Commits) >= 2
    BY <1>9, ConstantsOK
  <2>2. 1 \in 1 .. Len(Commits) /\ 2 \in 1 .. Len(Commits)
    BY <1>1, <2>1
  <2> QED BY <1>1, <1>2, <1>3, <1>9, <2>2
<1>10. IdsInOrder(q) /\ PushedGrows(p, q)
  BY <1>1, <1>2, <1>6, <1>7, <1>8 DEF IdsInOrder, PushedGrows
<1> QED BY <1>4, <1>5, <1>6, <1>7, <1>9, <1>10 DEF IsNext

LEMMA PushIsGood ==
    ASSUME NEW s, NEW p, NEW q, Good(s, p), NEW bp \in Blueprint, Valid(bp), NEW c, IsNext(p, c, bp.Packages, q),
           NEW new, new = PushBlueprint(s, bp, c, Now)
    PROVE  /\ Good(new, q) /\ Extends(s, new)
           /\ \A a : Holds(s, a) => Holds(new, a)
           /\ bp.Name \in DOMAIN new.changes /\ c \in DOMAIN new.changes[bp.Name]
<1> DEFINE n == bp.Name
           com == HistoryOf(s, n)
           chs == ChangesOf(s, n)
<1>1. s \in Stores /\ Ordered(s) /\ Complete(s, p) /\ LatestIsCommitted(s, p) /\ RevisionsGrow(s)
  BY DEF Good
<1>2. Now \in Nat
  BY ConstantsOK
<1> USE DEF IsNext
<1>3. /\ new \in Stores /\ new.sources = s.sources
      /\ DOMAIN new.changes = DOMAIN s.changes \cup {n}
      /\ \A m \in DOMAIN s.changes : m # n => new.changes[m] = s.changes[m]
      /\ DOMAIN new.changes[n] = DOMAIN chs \cup {c}
      /\ new.changes[n][c].Revision = 0
      /\ \A d \in DOMAIN chs : d # c => new.changes[n][d] = s.changes[n][d]
      /\ DOMAIN new.commits = DOMAIN s.commits \cup {n}
      /\ \A m \in DOMAIN s.commits : m # n => new.commits[m] = s.commits[m]
      /\ new.commits[n] = Append(com, c)
      /\ com \in Seq(CommitIDs)
      /\ DOMAIN new.blueprints = DOMAIN s.blueprints \cup {n}
      /\ \A m \in DOMAIN s.blueprints : m # n => new.blueprints[m] = s.blueprints[m]
      /\ new.blueprints[n].Packages = bp.Packages
  <2>1. IsPushed(s, bp, c, new)
    BY <1>1, <1>2, Pushes
  <2> QED BY <2>1, Zenon DEF IsPushed
<1>4. n \in DOMAIN s.commits <=> n \in DOMAIN s.changes
  BY <1>1 DEF Ordered, Complete
<1>5. /\ n \in DOMAIN s.commits => com = s.commits[n] /\ chs = s.changes[n]
      /\ n \notin DOMAIN s.commits => com = <<>> /\ chs = Empty
  BY <1>4 DEF HistoryOf, ChangesOf, At
<1>6. /\ \A i, j \in 1 .. Len(com) : com[i] = com[j] => i = j
      /\ \A i \in 1 .. Len(com) : com[i] \in DOMAIN chs
      /\ \A d \in DOMAIN chs : \E i \in 1 .. Len(com) : com[i] = d
      /\ DOMAIN chs \subseteq DOMAIN p /\ Len(com) <= Used(p)
  <2>1. CASE n \in DOMAIN s.commits
    <3>1. IsInjective(s.commits[n]) /\ Range(s.commits[n]) = DOMAIN s.changes[n] /\ DOMAIN s.changes[n] \subseteq DOMAIN p
          /\ Len(s.commits[n]) <= Used(p)
      BY <1>1, <2>1 DEF Ordered, Complete
    <3>2. DOMAIN com = 1 .. Len(com)
      BY <1>3
    <3> HIDE DEF com, chs
    <3> QED BY <1>5, <2>1, <3>1, <3>2 DEF IsInjective, Range
  <2>2. CASE n \notin DOMAIN s.commits
    <3>1. Len(com) = 0 /\ DOMAIN chs = {} /\ 0 <= Used(p)
      BY <1>5, <2>2, EmptyPFun DEF PushedGrows
    <3> HIDE DEF com, chs
    <3> QED BY <3>1
  <2> QED BY <2>1, <2>2
<1>7. n \in DOMAIN s.changes => DOMAIN chs = DOMAIN s.changes[n]
  BY <1>4, <1>5
<1> DEFINE neu == Append(com, c)
<1>8. /\ neu \in Seq(CommitIDs) /\ Len(neu) = Len(com) + 1 /\ Last(neu) = c /\ neu # <<>>
      /\ DOMAIN neu = 1 .. Len(com) + 1 /\ neu[Len(com) + 1] = c /\ \A i \in 1 .. Len(com) : neu[i] = com[i]
      /\ Len(com) \in Nat
  <2> HIDE DEF com
  <2>1. com \in Seq(CommitIDs)
    BY <1>3
  <2>2. /\ neu \in Seq(CommitIDs) /\ Len(neu) = Len(com) + 1 /\ Len(com) \in Nat
        /\ neu[Len(com) + 1] = c /\ \A i \in 1 .. Len(com) : neu[i] = com[i]
    BY <2>1
  <2> HIDE DEF neu
  <2>3. DOMAIN neu = 1 .. Len(com) + 1 /\ neu # <<>> /\ Last(neu) = c
    BY <2>2 DEF Last
  <2> QED BY <2>2, <2>3
<1> HIDE DEF n, com, chs, neu
<1>9. Ordered(new)
  <2>1. \A i, j \in DOMAIN neu : neu[i] = neu[j] => i = j
    BY <1>6, <1>8
  <2>2. \A i \in DOMAIN neu : neu[i] \in DOMAIN chs \cup {c}
    BY <1>6, <1>8
  <2>3. \A d \in DOMAIN chs \cup {c} : \E i \in DOMAIN neu : neu[i] = d
    BY <1>6, <1>8
  <2>4. IsInjective(neu) /\ Range(neu) = DOMAIN chs \cup {c}
    BY <2>1, <2>2, <2>3 DEF IsInjective, Range
  <2>5. \A m \in DOMAIN s.commits : m # n => /\ m \in DOMAIN s.changes
                                             /\ IsInjective(s.commits[m]) /\ Range(s.commits[m]) = DOMAIN s.changes[m]
    BY <1>1 DEF Ordered
  <2>6. new.commits[n] = neu
    BY <1>3 DEF neu
  <2> QED BY <1>3, <2>4, <2>5, <2>6 DEF Ordered
<1>10. Complete(new, q)
  <2>1. \A m \in DOMAIN s.commits : m # n =>
          /\ s.commits[m] # <<>> /\ DOMAIN s.changes[m] \subseteq DOMAIN p /\ Len(s.commits[m]) <= Used(p) /\ m \in DOMAIN s.changes
          /\ Len(s.commits[m]) \in Nat
          /\ Legacy /\ Last(s.commits[m]) \in {Commits[1], Commits[2]} => Len(s.commits[m]) <= 2
    BY <1>1, StoreIs DEF Complete, Ordered
  <2>2. DOMAIN s.changes \subseteq DOMAIN s.commits /\ DOMAIN s.blueprints \subseteq DOMAIN s.commits
    BY <1>1 DEF Complete
  <2>3. Used(p) \in Nat
    BY DEF PushedGrows
  <2>4. /\ neu # <<>> /\ DOMAIN chs \cup {c} \subseteq DOMAIN q /\ Len(neu) <= Used(q)
        /\ Legacy /\ Last(neu) \in {Commits[1], Commits[2]} => Len(neu) <= 2
    BY <1>6, <1>8, <2>3
  <2>5. new.commits[n] = neu
    BY <1>3 DEF neu
  <2>6. \A m \in DOMAIN s.commits : m # n => Len(s.commits[m]) <= Used(q)
    BY <2>1, <2>3
  <2> QED BY <1>3, <2>1, <2>2, <2>4, <2>5, <2>6 DEF Complete
<1>11. LatestIsCommitted(new, q)
  <2> SUFFICES ASSUME NEW m \in DOMAIN new.blueprints
               PROVE  Tied(new, m) \/ new.blueprints[m].Packages = q[Last(new.commits[m])]
    BY DEF LatestIsCommitted
  <2>1. CASE m = n
    <3>1. Last(new.commits[n]) = c
      BY <1>3, <1>8 DEF neu
    <3> QED BY <1>3, <2>1, <3>1 DEF n
  <2>2. CASE m # n
    <3>1. m \in DOMAIN s.blueprints /\ m \in DOMAIN s.commits /\ m \in DOMAIN s.changes /\ s.commits[m] # <<>>
          /\ DOMAIN s.changes[m] \subseteq DOMAIN p
      BY <1>1, <1>3, <2>2 DEF Complete, Ordered
    <3>2. Last(s.commits[m]) \in DOMAIN p
      BY <1>1, <3>1, PositionsIn
    <3>3. q[Last(s.commits[m])] = p[Last(s.commits[m])]
      BY <3>2 DEF PushedGrows
    <3>4. Tied(s, m) \/ s.blueprints[m].Packages = p[Last(s.commits[m])]
      BY <1>1, <3>1 DEF LatestIsCommitted
    <3>5. new.changes[m] = s.changes[m] /\ new.commits[m] = s.commits[m] /\ new.blueprints[m] = s.blueprints[m]
      BY <1>3, <2>2, <3>1
    <3> QED BY <3>3, <3>4, <3>5 DEF Tied
  <2> QED BY <2>1, <2>2
<1>12. RevisionsGrow(new)
  <2> SUFFICES ASSUME NEW m \in DOMAIN new.commits, NEW i \in DOMAIN new.commits[m], NEW j \in DOMAIN new.commits[m],
                      i < j, RevisionOf(new, m, i) > 0, RevisionOf(new, m, j) > 0
               PROVE  RevisionOf(new, m, i) < RevisionOf(new, m, j)
    BY DEF RevisionsGrow
  <2>1. CASE m = n
    <3>1. new.commits[n] = neu
      BY <1>3 DEF neu
    <3>2. RevisionOf(new, n, Len(com) + 1) = 0
      BY <1>3, <1>8, <3>1 DEF RevisionOf
    <3>3. i \in 1 .. Len(com) + 1 /\ j \in 1 .. Len(com) + 1 /\ j # Len(com) + 1
      BY <1>8, <2>1, <3>1, <3>2
    <3>4. i \in 1 .. Len(com) /\ j \in 1 .. Len(com)
      BY <1>8, <3>3
    <3>5. n \in DOMAIN s.commits
      BY <1>5, <3>4
    <3>6. \A k \in 1 .. Len(com) : RevisionOf(new, n, k) = RevisionOf(s, n, k)
      <4> TAKE k \in 1 .. Len(com)
      <4>1. neu[k] = com[k] /\ com[k] \in DOMAIN chs /\ com[k] # c
        BY <1>6, <1>8
      <4> QED BY <1>3, <1>5, <3>1, <3>5, <4>1 DEF RevisionOf
    <3>7. DOMAIN s.commits[n] = 1 .. Len(com)
      BY <1>3, <1>5, <3>5
    <3> QED BY <1>1, <2>1, <3>4, <3>5, <3>6, <3>7 DEF RevisionsGrow
  <2>2. CASE m # n
    <3>1. m \in DOMAIN s.commits /\ m \in DOMAIN s.changes
      BY <1>1, <1>3, <2>2 DEF Ordered
    <3>2. new.changes[m] = s.changes[m] /\ new.commits[m] = s.commits[m]
      BY <1>3, <2>2, <3>1
    <3> QED BY <1>1, <3>1, <3>2 DEF RevisionsGrow, RevisionOf
  <2> QED BY <2>1, <2>2
<1>13. Extends(s, new)
  <2> SUFFICES ASSUME NEW m \in DOMAIN s.commits
               PROVE  m \in DOMAIN new.commits /\ IsPrefix(s.commits[m], new.commits[m])
    BY DEF Extends
  <2>1. s.commits[m] \in Seq(CommitIDs) /\ m \in DOMAIN new.commits /\ new.commits[m] \in Seq(CommitIDs)
    BY <1>1, <1>3, StoreIs
  <2>2. CASE m = n
    <3>1. s.commits[m] = com /\ new.commits[m] = neu
      BY <1>3, <1>5, <2>2 DEF neu
    <3>2. Len(com) <= Len(neu) /\ \A i \in 1 .. Len(com) : com[i] = neu[i]
      BY <1>8
    <3> QED BY <2>1, <3>1, <3>2, PrefixIs
  <2>3. CASE m # n
    <3>1. new.commits[m] = s.commits[m]
      BY <1>3, <2>3
    <3> QED BY <2>1, <3>1, PrefixIs
  <2> QED BY <2>2, <2>3
<1>14. \A a : Holds(s, a) => Holds(new, a)
  <2>1. \A m \in DOMAIN s.changes : DOMAIN s.changes[m] \subseteq DOMAIN new.changes[m]
    BY <1>3, <1>7
  <2> QED BY <1>3, <2>1 DEF Holds
<1> QED BY <1>3, <1>9, <1>10, <1>11, <1>12, <1>13, <1>14 DEF Good, n

LEMMA CommitKeeps ==
    ASSUME IInv, NEW bp \in Blueprint, commits(bp), CallsOK(calls')
    PROVE  Advances
<1> DEFINE c == Commits[Used(pushed) + 1]
           new == PushBlueprint(store, bp, c, Now)
           promise == [acked EXCEPT !.commits = @ \cup {<<bp.Name, c>>}]
<1>1. /\ up /\ Good(store, pushed) /\ store \in Stores /\ Holds(store, acked) /\ acked \in Promises
      /\ IdsInOrder(pushed) /\ Used(pushed) < Len(Commits)
  BY DEF commits, plainly, change, IInv, Good, Used
<1>2. Holds(store, Forget(acked, NoName))
  BY <1>1, HoldsLess
<1>3. CASE Valid(bp)
  <2>1. change(new, promise, NoName) /\ pushed' = With(pushed, c, bp.Packages)
    BY <1>3 DEF commits, Used
  <2> HIDE DEF c
  <2>2. IsNext(pushed, c, bp.Packages, pushed')
    <3>1. c = Commits[Used(pushed) + 1]
      BY DEF c
    <3> HIDE DEF new, promise
    <3> QED BY <1>1, <2>1, <3>1, NextCommit
  <2>3. /\ Good(new, pushed') /\ Extends(store, new)
        /\ \A a : Holds(store, a) => Holds(new, a)
        /\ bp.Name \in DOMAIN new.changes /\ c \in DOMAIN new.changes[bp.Name]
    <3>1. new = PushBlueprint(store, bp, c, Now)
      OBVIOUS
    <3> HIDE DEF new, promise
    <3> QED BY <1>1, <1>3, <2>2, <3>1, PushIsGood
  <2>4. /\ promise \in Promises /\ promise.commits = acked.commits \cup {<<bp.Name, c>>}
        /\ promise.sources = acked.sources
    BY <1>1, <2>2 DEF Promises, Blueprint, IsNext
  <2> HIDE DEF new, promise
  <2>5. Holds(new, promise) /\ Holds(new, Forget(acked, NoName))
    <3>1. Holds(new, acked)
      BY <1>1, <2>3
    <3> QED BY <1>2, <2>3, <2>4, <3>1 DEF Holds
  <2> QED BY <2>1, <2>2, <2>3, <2>4, <2>5, ChangeKeeps DEF IsNext
<1>4. CASE ~Valid(bp)
  <2>1. change(store, acked, NoName) /\ pushed' = pushed
    BY <1>4 DEF commits, plainly
  <2>2. Extends(store, store) /\ PushedGrows(pushed, pushed)
    BY <1>1, ExtendsSame, GrowsSame
  <2> QED BY <1>1, <1>2, <2>1, <2>2, ChangeKeeps
<1> QED BY <1>3, <1>4

LEMMA PushKeeps == ASSUME IInv, blueprintsNew \/ undoPush PROVE Advances
<1>1. CASE blueprintsNew
  <2>1. PICK bp \in Requested : commits(bp) /\ UNCHANGED calls
    BY <1>1 DEF blueprintsNew
  <2>2. bp \in Blueprint /\ CallsOK(calls')
    BY <2>1, RequestedIs DEF IInv, CallsOK
  <2> QED BY <2>1, <2>2, CommitKeeps
<1>2. CASE undoPush
  <2>1. commits(calls.undo) /\ calls' = Without(calls, "undo") /\ calls.undo \in Blueprint
    BY <1>2 DEF undoPush, IInv
  <2>2. CallsOK(calls')
    BY <2>1 DEF IInv, CallsOK, Without
  <2> QED BY <2>1, <2>2, CommitKeeps
<1> QED BY <1>1, <1>2

-----------------------------------------------------------------------------
(***************************************************************************)
(* Tags.                                                                   *)
(***************************************************************************)
\* The change that TagBlueprint stores under the latest commit.
LEMMA Tags ==
    ASSUME NEW s \in Stores, Ordered(s), NEW n \in DOMAIN s.commits, s.commits[n] # <<>>,
           s.changes[n][Last(s.commits[n])].Revision = 0, NEW new, new = TagBlueprint(s, n)
    PROVE  /\ new \in Stores /\ new.sources = s.sources /\ new.commits = s.commits /\ new.blueprints = s.blueprints
           /\ DOMAIN new.changes = DOMAIN s.changes
           /\ \A m \in DOMAIN s.changes : m # n => new.changes[m] = s.changes[m]
           /\ DOMAIN new.changes[n] = DOMAIN s.changes[n]
           /\ \A c \in DOMAIN s.changes[n] : c # Last(s.commits[n]) => new.changes[n][c] = s.changes[n][c]
           /\ \E stop \in DOMAIN s.commits[n] :
                /\ new.changes[n][Last(s.commits[n])].Revision = RevisionOf(s, n, stop) + 1
                /\ new.changes[n][Last(s.commits[n])].Timestamp = s.changes[n][s.commits[n][stop]].Timestamp
                /\ \A i \in DOMAIN s.commits[n] :
                     RevisionOf(s, n, i) > 0 => i <= stop /\ RevisionOf(s, n, stop) > 0
<1> DEFINE com == s.commits[n]
           latest == Last(com)
           tagged == {i \in DOMAIN com : s.changes[n][com[i]].Revision > 0}
           stop == IF tagged = {} THEN 1 ELSE Max(tagged)
           old == s.changes[n][com[stop]]
           tag == [old EXCEPT !.Revision = @ + 1]
<1>1. /\ n \in DOMAIN s.changes /\ com \in Seq(CommitIDs)
      /\ \A i \in DOMAIN com : com[i] \in DOMAIN s.changes[n]
      /\ latest \in DOMAIN s.changes[n]
  BY PositionsIn
<1>2. new = [s EXCEPT !.changes[n][latest] = tag]
  BY DEF TagBlueprint
<1>3. stop \in DOMAIN com /\ \A i \in tagged : i <= stop /\ stop \in tagged
  <2>1. Len(com) \in Nat /\ DOMAIN com = 1 .. Len(com) /\ 1 \in DOMAIN com
    BY <1>1
  <2>2. tagged \in SUBSET (1 .. Len(com))
    BY <2>1
  <2> HIDE DEF tagged
  <2>3. CASE tagged = {}
    BY <2>1, <2>3
  <2>4. CASE tagged # {}
    <3>1. Max(tagged) \in tagged /\ \A y \in tagged : y <= Max(tagged)
      BY <2>1, <2>2, <2>4, MaxOfPositions
    <3> QED BY <2>1, <2>2, <2>4, <3>1
  <2> QED BY <2>3, <2>4
<1>4. \A i \in DOMAIN com : RevisionOf(s, n, i) > 0 => i <= stop /\ RevisionOf(s, n, stop) > 0
  <2>1. \A i \in DOMAIN com : RevisionOf(s, n, i) > 0 <=> i \in tagged
    BY DEF RevisionOf
  <2> HIDE DEF tagged, stop
  <2> QED BY <1>3, <2>1
<1>5. old.Revision = RevisionOf(s, n, stop)
  BY DEF RevisionOf
<1> HIDE DEF stop, tagged
<1>6. old \in Changes
  BY <1>1, <1>3, StoreIs
<1>7. tag \in Changes /\ tag.Revision = old.Revision + 1 /\ tag.Timestamp = old.Timestamp
  <2> HIDE DEF old
  <2> QED BY <1>6 DEF Changes
<1> HIDE DEF tag
<1> DEFINE chs == [s.changes[n] EXCEPT ![latest] = tag]
           ch == [s.changes EXCEPT ![n] = chs]
<1>8. /\ chs \in PFun(CommitIDs, Changes) /\ DOMAIN chs = DOMAIN s.changes[n] /\ chs[latest] = tag
      /\ \A c \in DOMAIN s.changes[n] : c # latest => chs[c] = s.changes[n][c]
  <2>1. s.changes[n] \in PFun(CommitIDs, Changes)
    BY <1>1, StoreIs
  <2> HIDE DEF latest
  <2> QED BY <1>1, <1>7, <2>1 DEF PFun
<1>9. new = [s EXCEPT !.changes = ch]
  BY <1>2
<1> HIDE DEF chs
<1>10. /\ ch \in PFun(AllNames, PFun(CommitIDs, Changes)) /\ DOMAIN ch = DOMAIN s.changes /\ ch[n] = chs
       /\ \A m \in DOMAIN s.changes : m # n => ch[m] = s.changes[m]
  <2>1. s.changes \in PFun(AllNames, PFun(CommitIDs, Changes))
    BY StoreIs
  <2> QED BY <1>1, <1>8, <2>1 DEF PFun
<1> HIDE DEF ch
<1>11. /\ new \in Stores /\ new.sources = s.sources /\ new.commits = s.commits /\ new.blueprints = s.blueprints
       /\ new.changes = ch
  BY <1>9, <1>10 DEF Stores
<1> QED BY <1>3, <1>4, <1>5, <1>7, <1>8, <1>10, <1>11

LEMMA TagIsGood ==
    ASSUME NEW s, NEW p, Good(s, p), NEW n \in DOMAIN s.blueprints, NEW new, new = TagBlueprint(s, n)
    PROVE  /\ Good(new, p) /\ Extends(s, new)
           /\ \A a : Holds(s, a) => Holds(new, a)
<1> DEFINE com == s.commits[n]
           latest == Last(com)
<1>1. s \in Stores /\ Ordered(s) /\ Complete(s, p) /\ LatestIsCommitted(s, p) /\ RevisionsGrow(s)
  BY DEF Good
<1>2. n \in DOMAIN s.commits /\ com # <<>>
  BY <1>1 DEF Complete
<1>3. /\ n \in DOMAIN s.changes /\ com \in Seq(CommitIDs) /\ latest \in DOMAIN s.changes[n]
      /\ \A i \in DOMAIN com : com[i] \in DOMAIN s.changes[n]
  BY <1>1, <1>2, PositionsIn
<1>4. CASE s.changes[n][latest].Revision # 0
  <2>1. new = s
    BY <1>4 DEF TagBlueprint
  <2> QED BY <1>1, <2>1, ExtendsSame
<1>5. CASE s.changes[n][latest].Revision = 0
  <2>1. /\ new \in Stores /\ new.sources = s.sources /\ new.commits = s.commits /\ new.blueprints = s.blueprints
        /\ DOMAIN new.changes = DOMAIN s.changes
        /\ \A m \in DOMAIN s.changes : m # n => new.changes[m] = s.changes[m]
        /\ DOMAIN new.changes[n] = DOMAIN s.changes[n]
        /\ \A c \in DOMAIN s.changes[n] : c # latest => new.changes[n][c] = s.changes[n][c]
        /\ \E stop \in DOMAIN com :
                /\ new.changes[n][latest].Revision = RevisionOf(s, n, stop) + 1
                /\ new.changes[n][latest].Timestamp = s.changes[n][com[stop]].Timestamp
                /\ \A i \in DOMAIN com : RevisionOf(s, n, i) > 0 => i <= stop /\ RevisionOf(s, n, stop) > 0
    BY <1>1, <1>2, <1>5, Tags
  <2>2. PICK stop \in DOMAIN com :
                /\ new.changes[n][latest].Revision = RevisionOf(s, n, stop) + 1
                /\ new.changes[n][latest].Timestamp = s.changes[n][com[stop]].Timestamp
                /\ \A i \in DOMAIN com : RevisionOf(s, n, i) > 0 => i <= stop /\ RevisionOf(s, n, stop) > 0
    BY <2>1
  <2>3. /\ DOMAIN com = 1 .. Len(com) /\ Len(com) \in DOMAIN com /\ com[Len(com)] = latest /\ Len(com) \in Nat
        /\ \A i \in DOMAIN com : i # Len(com) => com[i] # latest
    <3>1. DOMAIN com = 1 .. Len(com) /\ Len(com) \in DOMAIN com /\ Len(com) \in Nat
      BY <1>2, <1>3
    <3>2. com[Len(com)] = latest
      BY DEF Last
    <3>3. IsInjective(com)
      BY <1>1, <1>2 DEF Ordered
    <3> QED BY <3>1, <3>2, <3>3 DEF IsInjective
  <2>4. \A m \in DOMAIN s.changes : DOMAIN new.changes[m] = DOMAIN s.changes[m]
    BY <2>1
  <2>5. \A a : Holds(s, a) => Holds(new, a)
    BY <2>1, <2>4, SamePromises
  <2>6. Ordered(new) /\ Complete(new, p)
    BY <1>1, <2>1, <2>4 DEF Ordered, Complete
  <2>7. LatestIsCommitted(new, p)
    <3> SUFFICES ASSUME NEW m \in DOMAIN s.blueprints
                 PROVE  Tied(new, m) \/ s.blueprints[m].Packages = p[Last(s.commits[m])]
      BY <2>1 DEF LatestIsCommitted
    <3>1. Tied(s, m) \/ s.blueprints[m].Packages = p[Last(s.commits[m])]
      BY <1>1 DEF LatestIsCommitted
    <3>2. ASSUME m # n PROVE Tied(s, m) => Tied(new, m)
      <4>1. m \in DOMAIN s.changes
        BY <1>1 DEF Complete, Ordered
      <4>2. new.changes[m] = s.changes[m]
        BY <2>1, <3>2, <4>1
      <4> QED BY <2>1, <4>2 DEF Tied
    <3>3. ASSUME Tied(s, n) PROVE Tied(new, n)
      <4>1. PICK c \in DOMAIN s.changes[n] \ {latest} :
                /\ Legacy /\ {c, latest} = {Commits[1], Commits[2]}
                /\ s.changes[n][c].Timestamp = s.changes[n][latest].Timestamp
        BY <3>3 DEF Tied
      <4>2. Len(com) <= 2
        BY <1>1, <1>2, <4>1 DEF Complete
      <4>3. PICK i \in DOMAIN com : com[i] = c
        BY <1>1, <1>2, <4>1 DEF Ordered, Range
      <4>4. i # Len(com)
        BY <2>3, <4>1, <4>3
      <4>5. i = 1 /\ Len(com) = 2
        <5>1. i \in 1 .. Len(com) /\ Len(com) \in Nat
          BY <2>3, <4>3
        <5>2. \A k \in Nat : \A l \in 1 .. k : k <= 2 /\ l # k => l = 1 /\ k = 2
          OBVIOUS
        <5> HIDE DEF com
        <5> QED BY <4>2, <4>4, <5>1, <5>2
      <4>6. stop \in {1, 2}
        BY <2>2, <2>3, <4>5
      <4>7. com[stop] = c \/ com[stop] = latest
        BY <2>3, <4>3, <4>5, <4>6
      <4>8. /\ new.changes[n][latest].Timestamp = s.changes[n][c].Timestamp
            /\ new.changes[n][c] = s.changes[n][c] /\ c \in DOMAIN new.changes[n] \ {latest}
        BY <2>1, <2>2, <4>1, <4>7
      <4> QED BY <2>1, <4>1, <4>8 DEF Tied
    <3> QED BY <3>1, <3>2, <3>3
  <2>8. RevisionsGrow(new)
    <3> SUFFICES ASSUME NEW m \in DOMAIN s.commits, NEW i \in DOMAIN s.commits[m], NEW j \in DOMAIN s.commits[m],
                        i < j, RevisionOf(new, m, i) > 0, RevisionOf(new, m, j) > 0
                 PROVE  RevisionOf(new, m, i) < RevisionOf(new, m, j)
      BY <2>1 DEF RevisionsGrow
    <3>1. CASE m # n
      <4>1. m \in DOMAIN s.changes
        BY <1>1 DEF Ordered
      <4>2. new.changes[m] = s.changes[m]
        BY <2>1, <3>1, <4>1
      <4> QED BY <1>1, <2>1, <4>2 DEF RevisionsGrow, RevisionOf
    <3>2. CASE m = n
      <4>1. i \in DOMAIN com /\ j \in DOMAIN com
        BY <3>2
      <4>2. \A k \in DOMAIN com : k # Len(com) => RevisionOf(new, n, k) = RevisionOf(s, n, k)
        BY <1>3, <2>1, <2>3 DEF RevisionOf
      <4>3. RevisionOf(new, n, Len(com)) = RevisionOf(s, n, stop) + 1
        BY <2>1, <2>2, <2>3 DEF RevisionOf
      <4>4. \A k \in DOMAIN com : RevisionOf(s, n, k) \in Nat
        BY <1>1, <1>3, StoreIs DEF RevisionOf
      <4>5. \A k, l \in DOMAIN com : k < l /\ RevisionOf(s, n, k) > 0 /\ RevisionOf(s, n, l) > 0 =>
                RevisionOf(s, n, k) < RevisionOf(s, n, l)
        BY <1>1, <1>2 DEF RevisionsGrow
      <4>6. i # Len(com) /\ i \in Int /\ j \in Int /\ stop \in Int
        BY <2>2, <2>3, <4>1
      <4>7. RevisionOf(new, n, i) = RevisionOf(s, n, i) /\ RevisionOf(s, n, i) > 0
        BY <3>2, <4>1, <4>2, <4>6
      <4>8. CASE j # Len(com)
        BY <3>2, <4>1, <4>2, <4>5, <4>7, <4>8
      <4>9. CASE j = Len(com)
        <5>1. i <= stop /\ stop \in DOMAIN com /\ RevisionOf(s, n, stop) > 0
          BY <2>2, <4>1, <4>7
        <5>2. RevisionOf(s, n, i) < RevisionOf(s, n, stop) + 1
          <6>1. CASE i = stop
            BY <4>4, <5>1, <6>1
          <6>2. CASE i < stop
            BY <4>1, <4>4, <4>5, <4>7, <5>1, <6>2
          <6> QED BY <4>6, <5>1, <6>1, <6>2
        <5> QED BY <3>2, <4>3, <4>7, <4>9, <5>2
      <4> QED BY <4>8, <4>9
    <3> QED BY <3>1, <3>2
  <2> QED BY <1>1, <2>1, <2>5, <2>6, <2>7, <2>8, ExtendsSame DEF Good
<1> QED BY <1>3, <1>4, <1>5, StoreIs

LEMMA TagKeeps == ASSUME IInv, blueprintsTag PROVE Advances
<1>1. PICK n \in Names :
        /\ plainly(IF n \in DOMAIN store.blueprints /\ At(store.commits, n, <<>>) # <<>>
                   THEN TagBlueprint(store, n) ELSE store)
        /\ UNCHANGED <<calls, pushed>>
  BY DEF blueprintsTag
<1>2. up /\ Good(store, pushed) /\ Holds(store, acked) /\ store \in Stores
  BY <1>1 DEF plainly, change, IInv, Good
<1>3. CASE n \in DOMAIN store.blueprints /\ At(store.commits, n, <<>>) # <<>>
  <2>1. plainly(TagBlueprint(store, n))
    BY <1>1, <1>3
  <2>2. /\ Good(TagBlueprint(store, n), pushed) /\ Extends(store, TagBlueprint(store, n))
        /\ Holds(TagBlueprint(store, n), acked)
    BY <1>2, <1>3, TagIsGood
  <2> QED BY <1>1, <2>1, <2>2, PlainKeeps
<1>4. CASE ~(n \in DOMAIN store.blueprints /\ At(store.commits, n, <<>>) # <<>>)
  <2>1. plainly(store)
    BY <1>1, <1>4
  <2> QED BY <1>1, <1>2, <2>1, ExtendsSame, PlainKeeps
<1> QED BY <1>3, <1>4

-----------------------------------------------------------------------------
(***************************************************************************)
(* Handlers between two calls, crashes and restarts.                       *)
(***************************************************************************)
LEMMA ReadKeeps == ASSUME IInv, undoRead \/ sourceLookup PROVE Advances
<1>1. UNCHANGED <<up, store, disk, asked, pushed, acked>>
  BY DEF undoRead, sourceLookup
<1>2. CallsOK(calls')
  <2>1. CASE undoRead
    <3>1. PICK n \in Names : \E c \in DOMAIN At(store.changes, n, Empty) :
              calls' = With(calls, "undo", GetBlueprintChange(store, n, c).Blueprint)
      BY <2>1 DEF undoRead
    <3>2. PICK c \in DOMAIN At(store.changes, n, Empty) :
              calls' = With(calls, "undo", GetBlueprintChange(store, n, c).Blueprint)
      BY <3>1
    <3>3. store \in Stores
      BY <2>1 DEF undoRead, IInv, Good
    <3>4. n \in DOMAIN store.changes /\ c \in DOMAIN store.changes[n]
      BY <3>2, EmptyPFun DEF At
    <3>5. GetBlueprintChange(store, n, c).Blueprint \in Blueprint
      BY <3>3, <3>4, StoreIs DEF GetBlueprintChange
    <3> QED BY <3>2, <3>5 DEF IInv, CallsOK, With
  <2>2. CASE sourceLookup
    <3>1. PICK key : calls' = With(calls, "delete", key)
      BY <2>2 DEF sourceLookup
    <3> QED BY <3>1 DEF IInv, CallsOK, With
  <2> QED BY <2>1, <2>2
<1>3. disk \in Stores /\ disk' = disk
  BY <1>1 DEF IInv
<1>4. IInv'
  BY <1>1, <1>2 DEF IInv, CallsOK
<1> QED BY <1>3, <1>4, ExtendsSame DEF Advances

LEMMA CrashKeeps == ASSUME IInv, crash PROVE Advances
<1>1. CallsOK(calls')
  BY DEF crash, CallsOK, Empty
<1>2. disk \in Stores /\ disk' = disk
  BY DEF IInv, crash
<1>3. IInv'
  BY <1>1 DEF IInv, CallsOK, crash
<1> QED BY <1>2, <1>3, ExtendsSame DEF Advances

LEMMA NewKeeps == ASSUME IInv, New PROVE Advances
<1>1. /\ up' /\ store' \in newStoreFromV0(disk) /\ UNCHANGED <<disk, calls, asked, pushed, acked>>
      /\ disk \in Stores /\ Holds(disk, acked)
  BY DEF New, IInv
<1>2. Good(store', pushed)
  BY <1>1 DEF IInv
<1>3. PICK com \in newCommitsFromV0(disk) : store' = [disk EXCEPT !.commits = com]
  BY <1>1 DEF newStoreFromV0
<1>4. store'.commits = com /\ store'.changes = disk.changes /\ store'.sources = disk.sources
  BY <1>1, <1>3 DEF Stores
<1>5. \A n \in DOMAIN disk.commits : n \in DOMAIN com /\ com[n] = disk.commits[n]
  BY DEF newCommitsFromV0
<1>6. Extends(disk, store')
  <2>1. \A n \in DOMAIN disk.commits : IsPrefix(disk.commits[n], disk.commits[n])
    BY <1>1, StoreIs, PrefixIs
  <2> QED BY <1>4, <1>5, <2>1 DEF Extends
<1>7. Holds(store', acked)
  BY <1>1, <1>4, SamePromises
<1>8. IInv'
  BY <1>1, <1>2, <1>6, <1>7 DEF IInv
<1> QED BY <1>1, <1>8, ExtendsSame DEF Advances

LEMMA Step == ASSUME IInv, [Next]_vars PROVE Advances
<1>1. CASE Next
  BY <1>1, PushKeeps, WorkspaceKeeps, TagKeeps, ReadKeeps, SourceNewKeeps, SourceDeleteKeeps, CrashKeeps, NewKeeps
     DEF Next
<1>2. CASE UNCHANGED vars
  <2>1. disk \in Stores /\ disk' = disk /\ IInv'
    BY <1>2 DEF vars, IInv
  <2> QED BY <2>1, ExtendsSame DEF Advances
<1> QED BY <1>1, <1>2

-----------------------------------------------------------------------------
(***************************************************************************)
(* A new file, and one of an earlier composer.                             *)
(***************************************************************************)
LEMMA EmptyStoreIs ==
    /\ EmptyStore \in Stores /\ Ordered(EmptyStore) /\ Good(EmptyStore, Empty)
    /\ DOMAIN EmptyStore.changes = {} /\ DOMAIN EmptyStore.commits = {}
<1>1. /\ EmptyStore.blueprints = Empty /\ EmptyStore.workspace = Empty /\ EmptyStore.changes = Empty
      /\ EmptyStore.commits = Empty /\ EmptyStore.sources = Empty
  BY DEF EmptyStore
<1>2. EmptyStore \in Stores
  BY EmptyPFun DEF EmptyStore, Stores
<1>3. DOMAIN Empty = {}
  BY EmptyPFun
<1> QED BY <1>1, <1>2, <1>3 DEF Good, Ordered, Complete, LatestIsCommitted, RevisionsGrow

LEMMA NewFile ==
    ASSUME Init, disk = EmptyStore, pushed = Empty
    PROVE  IInv
<1>1. DOMAIN Empty = {} /\ Cardinality({}) = 0 /\ IsFiniteSet({}) /\ MaxChanges \in Nat /\ Len(Commits) \in Nat
  BY EmptyPFun, FS_EmptySet, ConstantsOK
<1>2. IdsInOrder(pushed) /\ asked = 0
  BY <1>1 DEF Init, IdsInOrder, Used
<1>3. CallsOK(calls)
  BY DEF Init, CallsOK, Empty
<1>4. acked = [commits |-> {} \X {}, sources |-> Empty]
  BY <1>1, EmptyStoreIs DEF Init
<1>5. acked \in Promises /\ Holds(disk, acked)
  BY <1>1, <1>4, EmptyPFun DEF Promises, Holds
<1>6. \A x \in newStoreFromV0(disk) : Good(x, pushed)
  BY EmptyStoreIs, ReadBack
<1>7. up = FALSE /\ store = EmptyStore
  BY DEF Init
<1>8. disk \in Stores /\ Ordered(disk) /\ asked \in 0 .. MaxChanges
  BY <1>1, <1>2, EmptyStoreIs
<1> QED BY <1>2, <1>3, <1>5, <1>6, <1>7, <1>8 DEF IInv, CallsOK

LEMMA TwoElements ==
    ASSUME NEW a, NEW b, a # b
    PROVE  IsFiniteSet({a, b}) /\ Cardinality({a, b}) = 2
<1> DEFINE S == {a}
<1>1. IsFiniteSet(S) /\ Cardinality(S) = 1 /\ b \notin S /\ S \cup {b} = {a, b}
  BY FS_Singleton
<1> HIDE DEF S
<1>2. IsFiniteSet(S \cup {b}) /\ Cardinality(S \cup {b}) = Cardinality(S) + 1
  BY <1>1, FS_AddElement
<1> QED BY <1>1, <1>2

LEMMA OldCommitsAre ==
    ASSUME Legacy, NEW x, NEW y
    PROVE  /\ Commits[1] # Commits[2] /\ Commits[1] \in CommitIDs /\ Commits[2] \in CommitIDs
           /\ DOMAIN OldCommits(x, y) = {Commits[1], Commits[2]}
           /\ OldCommits(x, y)[Commits[1]] = x /\ OldCommits(x, y)[Commits[2]] = y
           /\ OldCommits(x, y) = [c \in DOMAIN OldCommits(x, y) |-> OldCommits(x, y)[c]]
           /\ IsFiniteSet({Commits[1], Commits[2]}) /\ Cardinality({Commits[1], Commits[2]}) = 2
<1>1. /\ Commits \in Seq(CommitIDs) /\ IsInjective(Commits) /\ Len(Commits) >= 2
  BY ConstantsOK DEF CommitIDs
<1>2. DOMAIN Commits = 1 .. Len(Commits) /\ 1 \in DOMAIN Commits /\ 2 \in DOMAIN Commits
  BY <1>1
<1>3. Commits[1] # Commits[2] /\ Commits[1] \in CommitIDs /\ Commits[2] \in CommitIDs
  BY <1>1, <1>2 DEF IsInjective
<1>4. DOMAIN Empty = {}
  BY EmptyPFun
<1>5. /\ DOMAIN OldCommits(x, y) = {Commits[1], Commits[2]}
      /\ OldCommits(x, y)[Commits[1]] = x /\ OldCommits(x, y)[Commits[2]] = y
      /\ OldCommits(x, y) = [c \in DOMAIN OldCommits(x, y) |-> OldCommits(x, y)[c]]
  BY <1>3, <1>4 DEF OldCommits, With
<1>6. IsFiniteSet({Commits[1], Commits[2]}) /\ Cardinality({Commits[1], Commits[2]}) = 2
  BY <1>3, TwoElements
<1> QED BY <1>3, <1>5, <1>6

\* The orders that the two commits of an old file may be read in.
LEMMA OldOrders ==
    ASSUME Legacy, NEW r, NEW t \in Nat, NEW chs, NEW com \in ByTimestamp(chs),
           chs = OldCommits(Change(Commits[1], r, t, ZeroBlueprint), Change(Commits[2], 0, Now, ZeroBlueprint))
    PROVE  /\ com \in Seq(CommitIDs) /\ Len(com) = 2 /\ DOMAIN com = 1 .. 2
           /\ \/ com[1] = Commits[1] /\ com[2] = Commits[2]
              \/ com[1] = Commits[2] /\ com[2] = Commits[1] /\ Now <= t
<1> DEFINE S == {chs[c].Commit : c \in DOMAIN chs}
<1>1. /\ Commits[1] # Commits[2] /\ Commits[1] \in CommitIDs /\ Commits[2] \in CommitIDs
      /\ DOMAIN chs = {Commits[1], Commits[2]}
      /\ chs[Commits[1]].Commit = Commits[1] /\ chs[Commits[2]].Commit = Commits[2]
      /\ chs[Commits[1]].Timestamp = t /\ chs[Commits[2]].Timestamp = Now
      /\ Cardinality({Commits[1], Commits[2]}) = 2
  BY OldCommitsAre DEF Change
<1>2. S = {Commits[1], Commits[2]}
  BY <1>1
<1>3. /\ com \in SetToSeqs(S)
      /\ \A i, j \in DOMAIN com : i < j => \E a, b \in DOMAIN chs :
            chs[a].Commit = com[i] /\ chs[b].Commit = com[j] /\ chs[a].Timestamp <= chs[b].Timestamp
  BY DEF ByTimestamp
<1> HIDE DEF S
<1>4. com \in [1 .. 2 -> {Commits[1], Commits[2]}] /\ \A i, j \in 1 .. 2 : i # j => com[i] # com[j]
  BY <1>1, <1>2, <1>3 DEF SetToSeqs
<1>5. com \in Seq(CommitIDs) /\ Len(com) = 2 /\ DOMAIN com = 1 .. 2
  <2>1. com \in [1 .. 2 -> CommitIDs] /\ DOMAIN com = 1 .. 2
    BY <1>1, <1>4
  <2>2. com \in Seq(CommitIDs)
    BY <2>1
  <2>3. Len(com) = 2
    BY <2>1, <2>2
  <2> QED BY <2>1, <2>2, <2>3
<1>6. com[1] \in {Commits[1], Commits[2]} /\ com[2] \in {Commits[1], Commits[2]} /\ com[1] # com[2]
  BY <1>4
<1>7. ASSUME com[1] = Commits[2], com[2] = Commits[1] PROVE Now <= t
  <2>1. \E a, b \in DOMAIN chs :
            chs[a].Commit = com[1] /\ chs[b].Commit = com[2] /\ chs[a].Timestamp <= chs[b].Timestamp
    BY <1>3, <1>5
  <2> QED BY <1>1, <1>7, <2>1
<1> QED BY <1>5, <1>6, <1>7

LEMMA OldFileIsGood ==
    ASSUME Legacy, NEW n \in Names, NEW t \in {Now - 1, Now}, NEW r \in {0, 1}, NEW a \in Contents, NEW b \in Contents,
           NEW d, d = OldFile(n, t, r, b), NEW p, p = OldCommits(a, b)
    PROVE  /\ d \in Stores /\ Ordered(d) /\ IdsInOrder(p) /\ Used(p) = 2
           /\ DOMAIN d.changes = {n} /\ DOMAIN d.changes[n] = DOMAIN p
           /\ \A x \in newStoreFromV0(d) : Good(x, p)
<1> DEFINE first == Change(Commits[1], r, t, ZeroBlueprint)
           second == Change(Commits[2], 0, Now, ZeroBlueprint)
           chs == OldCommits(first, second)
           ch == With(Empty, n, chs)
           bp == [Name |-> n, Version |-> 0, Packages |-> b]
           bps == With(Empty, n, bp)
           src == [k \in SystemRepos |-> [Name |-> k, URL |-> CHOOSE u \in URLs : TRUE]]
<1>1. d = [EmptyStore EXCEPT !.sources = src, !.blueprints = bps, !.changes = ch]
  BY DEF OldFile
<1>2. /\ Commits[1] # Commits[2] /\ Commits[1] \in CommitIDs /\ Commits[2] \in CommitIDs
      /\ DOMAIN chs = {Commits[1], Commits[2]} /\ chs[Commits[1]] = first /\ chs[Commits[2]] = second
      /\ chs = [c \in DOMAIN chs |-> chs[c]]
      /\ DOMAIN p = {Commits[1], Commits[2]} /\ p[Commits[1]] = a /\ p[Commits[2]] = b
      /\ IsFiniteSet({Commits[1], Commits[2]}) /\ Cardinality({Commits[1], Commits[2]}) = 2
  BY OldCommitsAre
<1>3. t \in Nat /\ Now \in Nat /\ r \in Nat /\ t <= Now
  BY ConstantsOK
<1>4. /\ first \in Changes /\ first.Revision = r /\ first.Timestamp = t
      /\ second \in Changes /\ second.Revision = 0 /\ second.Timestamp = Now
  BY <1>2, <1>3, ZeroIs DEF Change, Changes
<1>5. bp \in Valids /\ bp.Packages = b
  BY DEF Valids, Blueprint, AllNames
<1>6. /\ src \in PFun(SourceIDs, Source)
  <2>1. URLs # {} /\ SystemRepos \subseteq SourceIDs
    BY ConstantsOK
  <2>2. (CHOOSE u \in URLs : TRUE) \in URLs
    BY <2>1
  <2>3. src \in [SystemRepos -> Source]
    BY <2>1, <2>2 DEF Source
  <2> QED BY <2>1, <2>3 DEF PFun
<1> HIDE DEF first, second, bp, src
<1>7. chs \in PFun(CommitIDs, Changes)
  <2>1. DOMAIN chs \subseteq CommitIDs /\ \A c \in DOMAIN chs : chs[c] \in Changes
    BY <1>2, <1>4
  <2> HIDE DEF chs
  <2> QED BY <1>2, <2>1, IsPFun
<1>8. DOMAIN Empty = {} /\ Empty \in PFun(AllNames, Valids)
      /\ Empty \in PFun(AllNames, PFun(CommitIDs, Changes)) /\ n \in AllNames
  BY EmptyPFun DEF AllNames
<1>9. /\ ch \in PFun(AllNames, PFun(CommitIDs, Changes)) /\ DOMAIN ch = {n} /\ ch[n] = chs
      /\ bps \in PFun(AllNames, Valids) /\ DOMAIN bps = {n} /\ bps[n] = bp
  <2> HIDE DEF chs
  <2>1. ch \in PFun(AllNames, PFun(CommitIDs, Changes)) /\ bps \in PFun(AllNames, Valids)
    BY <1>5, <1>7, <1>8, WithPFun
  <2>2. DOMAIN ch = {n} /\ ch[n] = chs /\ DOMAIN bps = {n} /\ bps[n] = bp
    BY <1>8 DEF With
  <2> QED BY <2>1, <2>2
<1> HIDE DEF chs, ch, bps
<1>10. /\ d.blueprints = bps /\ d.changes = ch /\ d.commits = Empty /\ d.sources = src /\ d.workspace = Empty
  BY <1>1 DEF EmptyStore
<1>11. d \in Stores
  <2>1. EmptyStore \in Stores
    BY EmptyStoreIs
  <2>2. [EmptyStore EXCEPT !.sources = src] \in Stores
    BY <1>6, <2>1, PartReplaced
  <2>3. [EmptyStore EXCEPT !.sources = src, !.blueprints = bps] \in Stores
    BY <1>9, <2>2, PartReplaced
  <2> QED BY <1>1, <1>9, <2>3, PartReplaced
<1>12. Ordered(d)
  BY <1>8, <1>10 DEF Ordered
<1>13. IdsInOrder(p) /\ Used(p) = 2
  <2>1. Used(p) = 2
    BY <1>2 DEF Used
  <2>2. Len(Commits) >= 2
    BY ConstantsOK
  <2>3. {Commits[1], Commits[2]} = {Commits[i] : i \in 1 .. 2}
    OBVIOUS
  <2> QED BY <1>2, <2>1, <2>2, <2>3 DEF IdsInOrder
<1>14. ASSUME NEW x \in newStoreFromV0(d) PROVE Good(x, p)
  <2>1. PICK com \in newCommitsFromV0(d) : x = [d EXCEPT !.commits = com]
    BY DEF newStoreFromV0
  <2>2. DOMAIN com = {n} /\ com = [m \in DOMAIN com |-> com[m]] /\ com[n] \in ByTimestamp(chs)
    BY <1>8, <1>9, <1>10 DEF newCommitsFromV0
  <2> DEFINE h == com[n]
  <2>3. /\ h \in Seq(CommitIDs) /\ Len(h) = 2 /\ DOMAIN h = 1 .. 2
        /\ \/ h[1] = Commits[1] /\ h[2] = Commits[2]
           \/ h[1] = Commits[2] /\ h[2] = Commits[1] /\ Now <= t
    BY <1>3, <2>2, OldOrders DEF chs, first, second
  <2>4. /\ x.blueprints = bps /\ x.changes = ch /\ x.commits = com
    BY <1>10, <1>11, <2>1 DEF Stores
  <2>5. com \in PFun(AllNames, Seq(CommitIDs))
    BY <1>8, <2>2, <2>3, IsPFun
  <2>6. x \in Stores
    BY <1>11, <2>1, <2>5, PartReplaced
  <2> HIDE DEF h
  <2>7. x.commits[n] = h /\ DOMAIN x.commits = {n} /\ DOMAIN x.changes = {n} /\ x.changes[n] = chs
        /\ DOMAIN x.blueprints = {n} /\ x.blueprints[n] = bp
    BY <1>9, <2>2, <2>4 DEF h
  <2>8. Last(h) = h[2] /\ h # <<>>
    <3>1. h \in Seq(CommitIDs) /\ Len(h) = 2
      BY <2>3
    <3>2. h # <<>>
      <4>1. h = <<>> => Len(h) = Len(<<>>)
        BY Zenon
      <4>2. Len(<<>>) = 0
        OBVIOUS
      <4> QED BY <3>1, <4>1, <4>2
    <3> QED BY <3>1, <3>2 DEF Last
  <2>9. IsInjective(h) /\ Range(h) = DOMAIN chs
    <3>1. \A i, j \in DOMAIN h : h[i] = h[j] => i = j
      BY <1>2, <2>3
    <3>2. \A i \in DOMAIN h : h[i] \in DOMAIN chs
      BY <1>2, <2>3
    <3>3. \A c \in DOMAIN chs : \E i \in DOMAIN h : h[i] = c
      BY <1>2, <2>3
    <3> QED BY <3>1, <3>2, <3>3 DEF IsInjective, Range
  <2>10. Ordered(x)
    BY <2>7, <2>9 DEF Ordered
  <2>11. Complete(x, p)
    <3>1. Len(h) = 2 /\ Len(h) <= Used(p) /\ Len(h) <= 2 /\ DOMAIN chs \subseteq DOMAIN p
      BY <1>2, <1>13, <2>3
    <3> QED BY <2>7, <2>8, <3>1 DEF Complete
  <2>12. LatestIsCommitted(x, p)
    <3>1. CASE h[2] = Commits[2]
      BY <1>2, <1>5, <2>7, <2>8, <3>1 DEF LatestIsCommitted
    <3>2. CASE h[2] = Commits[1] /\ Now <= t
      <4>1. t = Now
        BY <1>3, <3>2
      <4>2. Tied(x, n)
        BY <1>2, <1>4, <2>7, <2>8, <3>2, <4>1 DEF Tied
      <4> QED BY <2>7, <4>2 DEF LatestIsCommitted
    <3> QED BY <2>3, <3>1, <3>2
  <2>13. RevisionsGrow(x)
    <3>1. \A i \in 1 .. 2 : h[i] = Commits[1] \/ RevisionOf(x, n, i) = 0
      BY <1>2, <1>4, <2>3, <2>7 DEF RevisionOf
    <3>2. \A i, j \in 1 .. 2 : i < j => RevisionOf(x, n, i) = 0 \/ RevisionOf(x, n, j) = 0
      BY <1>2, <2>3, <3>1
    <3> QED BY <2>3, <2>7, <3>2 DEF RevisionsGrow
  <2> QED BY <2>6, <2>10, <2>11, <2>12, <2>13 DEF Good
<1> QED BY <1>2, <1>9, <1>10, <1>11, <1>12, <1>13, <1>14

LEMMA Initially == ASSUME Init PROVE IInv
<1>1. CASE disk = EmptyStore /\ pushed = Empty
  BY <1>1, NewFile
<1>2. ASSUME Legacy, NEW n \in Names, NEW t \in {Now - 1, Now}, NEW r \in {0, 1}, NEW a \in Contents, NEW b \in Contents,
             disk = OldFile(n, t, r, b), pushed = OldCommits(a, b)
      PROVE  IInv
  <2>1. /\ disk \in Stores /\ Ordered(disk) /\ IdsInOrder(pushed) /\ Used(pushed) = 2
        /\ DOMAIN disk.changes = {n} /\ DOMAIN disk.changes[n] = DOMAIN pushed
        /\ \A x \in newStoreFromV0(disk) : Good(x, pushed)
    BY <1>2, OldFileIsGood
  <2>2. acked = [commits |-> {n} \X DOMAIN pushed, sources |-> Empty] /\ up = FALSE /\ store = EmptyStore
        /\ calls = Empty /\ asked = Cardinality(DOMAIN pushed)
    BY <2>1 DEF Init
  <2>3. asked \in 0 .. MaxChanges
    BY <1>2, <2>1, <2>2, ConstantsOK DEF Used
  <2>4. DOMAIN pushed \subseteq CommitIDs /\ n \in AllNames /\ Empty \in PFun(SourceIDs, Source) /\ DOMAIN Empty = {}
    BY <2>1, UsedIs, EmptyPFun DEF AllNames
  <2>5. acked \in Promises
    BY <2>2, <2>4 DEF Promises
  <2>6. Holds(disk, acked)
    BY <2>1, <2>2, <2>4 DEF Holds
  <2>7. CallsOK(calls)
    BY <2>2 DEF CallsOK, Empty
  <2> QED BY <2>1, <2>2, <2>3, <2>5, <2>6, <2>7 DEF IInv, CallsOK
<1> QED BY <1>1, <1>2 DEF Init

-----------------------------------------------------------------------------
(***************************************************************************)
(* The store is always sound, in memory and in the file, and the file is   *)
(* never ahead of the memory: whatever handlers, failed writes, crashes    *)
(* and restarts of composer interleave (Store.change, Store.New and the    *)
(* blueprint and source handlers of the Weldr API).                        *)
(***************************************************************************)
THEOREM Invariant == Spec => []IInv
<1>1. Init => IInv
  BY Initially
<1>2. IInv /\ [Next]_vars => IInv'
  BY Step DEF Advances
<1> QED BY <1>1, <1>2, PTL DEF Spec

\* What clients were told is kept is in the file: a commit or a source whose
\* request was answered survives every later crash and failed write
\* (Store.change writes before the handler answers).
THEOREM Durable == Spec => []AcknowledgedIsDurable
<1>1. IInv => AcknowledgedIsDurable
  BY DEF IInv, Holds, AcknowledgedIsDurable
<1> QED BY <1>1, Invariant, PTL

LEMMA StoreIsOK ==
    ASSUME NEW s \in Stores, Ordered(s)
    PROVE  StoreOK(s)
<1>1. /\ s.blueprints \in PFun(AllNames, Valids) /\ s.workspace \in PFun(Names, Valids)
      /\ s.sources \in PFun(SourceIDs, Source)
      /\ \A n \in DOMAIN s.changes : DOMAIN s.changes[n] \subseteq CommitIDs
  BY StoreIs
<1>2. /\ DOMAIN s.blueprints \subseteq AllNames /\ \A n \in DOMAIN s.blueprints : s.blueprints[n] \in Valids
      /\ DOMAIN s.workspace \subseteq Names /\ \A n \in DOMAIN s.workspace : s.workspace[n] \in Valids
      /\ DOMAIN s.sources \subseteq SourceIDs /\ \A k \in DOMAIN s.sources : s.sources[k] \in Source
  BY <1>1, PFunIs
<1>3. \A bp \in Valids : bp \in Blueprint /\ bp.Version \in Nat
  BY DEF Valids
<1> QED BY <1>1, <1>2, <1>3 DEF StoreOK, Ordered

LEMMA GrowingRevisions ==
    ASSUME RevisionsGrow(store)
    PROVE  RevisionsIncrease
<1> SUFFICES ASSUME NEW n \in DOMAIN store.commits
             PROVE  LET h == GetBlueprintChanges(store, n)
                    IN  \A i, j \in DOMAIN h :
                            i < j /\ h[i].Revision > 0 /\ h[j].Revision > 0 => h[i].Revision < h[j].Revision
  BY DEF RevisionsIncrease
<1> DEFINE h == GetBlueprintChanges(store, n)
<1>1. DOMAIN h = DOMAIN store.commits[n] /\ \A i \in DOMAIN h : h[i].Revision = RevisionOf(store, n, i)
  BY DEF GetBlueprintChanges, At, RevisionOf
<1> HIDE DEF h
<1>2. \A i, j \in DOMAIN h : i < j /\ h[i].Revision > 0 /\ h[j].Revision > 0 => h[i].Revision < h[j].Revision
  BY <1>1 DEF RevisionsGrow
<1> QED BY <1>2 DEF h

\* The committed blueprint is the one the last commit of its name pushed and
\* the revisions of its tags grow (PushBlueprint, TagBlueprint), also after
\* undo, deletion, failed writes and a restart that had to order the commits
\* of an old file by their timestamps (newCommitsFromV0).
THEOREM History == Spec => []HistoryIsSound
<1>1. IInv => HistoryIsSound
  <2> SUFFICES ASSUME IInv PROVE HistoryIsSound
    OBVIOUS
  <2>1. disk \in Stores /\ Ordered(disk) /\ store \in Stores /\ Ordered(store)
    BY EmptyStoreIs DEF IInv, Good
  <2>2. TypeOK
    BY <2>1, StoreIsOK, UsedIs DEF IInv, TypeOK
  <2>3. \E p : Good(store, p) /\ (up => p = pushed) /\ (~up => store = EmptyStore)
    BY EmptyStoreIs DEF IInv
  <2>4. RevisionsIncrease
    BY <2>3, GrowingRevisions DEF Good
  <2>5. CASE up
    <3>1. LatestIsCommitted(store, pushed)
      BY <2>5 DEF IInv, Good
    <3>2. CommittedIsLatest
      BY <3>1 DEF LatestIsCommitted, CommittedIsLatest, Tied
    <3> QED BY <2>2, <2>4, <3>2 DEF HistoryIsSound
  <2>6. CASE ~up
    <3>1. DOMAIN store.blueprints = {}
      BY <2>6, EmptyPFun DEF IInv, EmptyStore
    <3>2. CommittedIsLatest
      BY <3>1 DEF CommittedIsLatest
    <3> QED BY <2>2, <2>4, <3>2 DEF HistoryIsSound
  <2> QED BY <2>5, <2>6
<1> QED BY <1>1, Invariant, PTL

\* A history that is in the file is only ever extended at its end: no
\* handler, failed write or restart reorders or shortens it (the Commits of
\* the file, added because the timestamps of changes do not order them).
THEOREM Growth == Spec => HistoryOnlyGrows
<1> DEFINE A == /\ \A n \in DOMAIN disk.commits :
                     n \in DOMAIN disk'.commits /\ IsPrefix(disk.commits[n], disk'.commits[n])
                /\ \A n \in DOMAIN store'.commits :
                     n \in DOMAIN disk.commits => IsPrefix(disk.commits[n], store'.commits[n])
<1>1. ASSUME IInv, [Next]_vars PROVE [A]_vars
  <2>1. IInv' /\ Extends(disk, disk')
    BY <1>1, Step DEF Advances
  <2>2. disk \in Stores /\ disk' \in Stores
    BY <1>1, <2>1 DEF IInv
  <2>3. CASE up'
    <3>1. Extends(disk', store') /\ store' \in Stores
      BY <2>1, <2>3 DEF IInv, Good
    <3>2. Extends(disk, store')
      BY <2>1, <2>2, <3>1, ExtendsTrans
    <3> QED BY <2>1, <3>2 DEF Extends
  <2>4. CASE ~up'
    <3>1. DOMAIN store'.commits = {}
      BY <2>1, <2>4, EmptyStoreIs DEF IInv
    <3> QED BY <2>1, <3>1 DEF Extends
  <2> QED BY <2>3, <2>4
<1> QED BY <1>1, Invariant, PTL DEF Spec, HistoryOnlyGrows

-----------------------------------------------------------------------------
(***************************************************************************)
(* Pages.                                                                  *)
(***************************************************************************)
Part(list, i, j) == SubSeq(list, i + 1, j)

\* A page ends where the next one starts.
LEMMA PageIs ==
    ASSUME NEW list, NEW n \in Nat, Len(list) = n, NEW o \in Nat, NEW a \in Nat
    PROVE  /\ Page(list, o, a) = Part(list, Lesser(o, n), Lesser(o + a, n))
           /\ Lesser(o, n) \in 0 .. n /\ Lesser(o + a, n) \in Lesser(o, n) .. n
           /\ Lesser(o + a, n) <= Lesser(o, n) + a
           /\ o >= n => Lesser(o + a, n) = Lesser(o, n)
<1> DEFINE start == Lesser(o, n)
           end   == Lesser(o + a, n)
<1>1. start = (IF o < n THEN o ELSE n) /\ end = (IF o + a < n THEN o + a ELSE n)
  BY DEF Lesser
<1>2. Page(list, o, a) = SubSeq(list, start + 1, start + Lesser(a, n - start))
  BY DEF Page
<1> HIDE DEF start, end
<1>3. start + Lesser(a, n - start) = end
  BY <1>1 DEF Lesser
<1>4. start \in 0 .. n /\ end \in start .. n /\ end <= start + a
  BY <1>1
<1>5. o >= n => end = start
  BY <1>1
<1>6. Page(list, o, a) = Part(list, start, end)
  BY <1>2, <1>3 DEF Part
<1> QED BY <1>4, <1>5, <1>6 DEF start, end

LEMMA Tiling ==
    ASSUME NEW S, NEW list \in Seq(S)
    PROVE  Tiles(list)
<1>0. PICK n \in Nat : Len(list) = n
  OBVIOUS
<1>1. ASSUME NEW o \in Nat, NEW a \in Nat, NEW b \in Nat
      PROVE  Page(list, o, a) \o Page(list, o + a, b) = Page(list, o, a + b)
  <2> DEFINE i == Lesser(o, n)
             j == Lesser(o + a, n)
             k == Lesser((o + a) + b, n)
  <2>0. Page(list, o, a) = Part(list, i, j)
    BY <1>0, PageIs
  <2>1. i \in 0 .. n /\ j \in i .. n
    BY <1>0, PageIs
  <2>2. o + a \in Nat /\ a + b \in Nat
    OBVIOUS
  <2>3. Page(list, o + a, b) = Part(list, j, k)
    BY <1>0, <2>2, PageIs
  <2>8. k \in j .. n
    BY <1>0, <2>2, PageIs
  <2>4. Page(list, o, a + b) = Part(list, i, Lesser(o + (a + b), n))
    BY <1>0, <2>2, PageIs
  <2>5. (o + a) + b = o + (a + b)
    OBVIOUS
  <2> HIDE DEF i, j, k
  <2>6. i + 1 \in 1 .. n + 1 /\ j \in (i + 1) - 1 .. n
    BY <1>0, <2>1
  <2>7. Part(list, i, j) \o Part(list, j, k) = Part(list, i, k)
    BY <1>0, <2>6, <2>8, ConcatAdjacentSubSeq DEF Part
  <2> QED BY <2>0, <2>3, <2>4, <2>5, <2>7 DEF k
<1>2. ASSUME NEW o \in Nat, NEW a \in Nat
      PROVE  Len(Page(list, o, a)) <= a /\ (o >= n => Page(list, o, a) = <<>>)
  <2> DEFINE i == Lesser(o, n)
             j == Lesser(o + a, n)
  <2>0. Page(list, o, a) = Part(list, i, j)
    BY <1>0, PageIs
  <2>1. i \in 0 .. n /\ j \in i .. n /\ j <= i + a /\ (o >= n => j = i)
    BY <1>0, PageIs
  <2> HIDE DEF i, j
  <2>2. i + 1 \in Int /\ j \in Int /\ \A x \in i + 1 .. j : list[x] \in S
    BY <1>0, <2>1
  <2>3. Len(Part(list, i, j)) = IF i + 1 <= j THEN j - (i + 1) + 1 ELSE 0
    BY <2>2, SubSeqProperties DEF Part
  <2>4. Len(Page(list, o, a)) <= a
    BY <1>0, <2>0, <2>1, <2>3
  <2>5. j = i => Part(list, i, j) = <<>>
    BY <2>2, SubSeqEmpty DEF Part
  <2> QED BY <2>0, <2>1, <2>4, <2>5
<1>3. Page(list, 0, n) = list
  <2>1. Page(list, 0, n) = Part(list, Lesser(0, n), Lesser(0 + n, n))
    BY <1>0, PageIs
  <2>2. Lesser(0, n) = 0 /\ Lesser(0 + n, n) = n
    BY <1>0 DEF Lesser
  <2>3. Part(list, 0, n) = list
    BY <1>0, SubSeqFull DEF Part
  <2> QED BY <2>1, <2>2, <2>3
<1>5. \A o, a, b \in 0 .. Len(list) + 1 :
        /\ Page(list, o, a) \o Page(list, o + a, b) = Page(list, o, a + b)
        /\ Len(Page(list, o, a)) <= a
        /\ o >= Len(list) => Page(list, o, a) = <<>>
  <2> TAKE o, a, b \in 0 .. Len(list) + 1
  <2>1. o \in Nat /\ a \in Nat /\ b \in Nat
    BY <1>0
  <2>2. Page(list, o, a) \o Page(list, o + a, b) = Page(list, o, a + b)
    BY <1>1, <2>1
  <2>3. Len(Page(list, o, a)) <= a
    BY <1>2, <2>1
  <2>4. o >= Len(list) => Page(list, o, a) = <<>>
    BY <1>0, <1>2, <2>1
  <2> QED BY <2>2, <2>3, <2>4
<1>6. Page(list, 0, Len(list)) = list
  BY <1>0, <1>3
<1> QED BY <1>5, <1>6, Zenon DEF Tiles

-----------------------------------------------------------------------------
(***************************************************************************)
(* The binary search.                                                      *)
(***************************************************************************)
InOrder(deps, n) ==
    /\ DOMAIN deps = 1 .. n /\ \A i \in 1 .. n : deps[i].Name \in Nat
    /\ \A i, j \in 1 .. n : i < j => deps[i].Name <= deps[j].Name

\* what is known of the bounds after k rounds
Encloses(deps, name, n, k, bounds) ==
    \E i, j \in 0 .. n :
        /\ bounds = <<i, j>> /\ i <= j /\ j - i <= n - k
        /\ \A m \in 1 .. i : deps[m].Name < name
        /\ \A m \in j + 1 .. n : name <= deps[m].Name

LEMMA HalveEncloses ==
    ASSUME NEW deps, NEW n \in Nat, InOrder(deps, n), NEW name \in Nat,
           NEW k \in 0 .. n - 1, NEW b, Encloses(deps, name, n, k, b)
    PROVE  Encloses(deps, name, n, k + 1, Halve(deps, name, b))
<1>1. PICK i \in 0 .. n, j \in 0 .. n :
        /\ b = <<i, j>> /\ i <= j /\ j - i <= n - k
        /\ \A m \in 1 .. i : deps[m].Name < name
        /\ \A m \in j + 1 .. n : name <= deps[m].Name
  BY DEF Encloses
<1>2. CASE i = j
  <2>1. Halve(deps, name, b) = <<i, j>>
    BY <1>1, <1>2 DEF Halve
  <2>2. j - i <= n - (k + 1)
    BY <1>2
  <2> QED BY <1>1, <2>1, <2>2 DEF Encloses
<1>3. CASE i < j
  <2> DEFINE h == (i + j) \div 2
  <2>1. h \in Nat /\ i <= h /\ h < j
    BY <1>3
  <2>2. Halve(deps, name, b) = IF deps[h + 1].Name < name THEN <<h + 1, j>> ELSE <<i, h>>
    BY <1>1, <1>3 DEF Halve
  <2> HIDE DEF h
  <2>3. h + 1 \in 1 .. n /\ h + 1 \in 0 .. n /\ h \in 0 .. n
    BY <2>1
  <2>4. CASE deps[h + 1].Name < name
    <3>1. \A m \in 1 .. h + 1 : deps[m].Name < name
      <4> TAKE m \in 1 .. h + 1
      <4>1. m \in 1 .. n /\ (m < h + 1 \/ m = h + 1)
        BY <2>3
      <4>2. m < h + 1 => deps[m].Name <= deps[h + 1].Name
        BY <4>1, <2>3 DEF InOrder
      <4>3. deps[m].Name \in Nat /\ deps[h + 1].Name \in Nat
        BY <4>1, <2>3 DEF InOrder
      <4> QED BY <2>4, <4>1, <4>2, <4>3
    <3>2. h + 1 <= j /\ j - (h + 1) <= n - (k + 1)
      BY <1>1, <2>1
    <3>3. Halve(deps, name, b) = <<h + 1, j>>
      BY <2>2, <2>4
    <3> QED BY <1>1, <2>3, <3>1, <3>2, <3>3 DEF Encloses
  <2>5. CASE ~(deps[h + 1].Name < name)
    <3>1. \A m \in h + 1 .. n : name <= deps[m].Name
      <4> TAKE m \in h + 1 .. n
      <4>1. m \in 1 .. n /\ (h + 1 < m \/ m = h + 1)
        BY <2>3
      <4>2. h + 1 < m => deps[h + 1].Name <= deps[m].Name
        BY <4>1, <2>3 DEF InOrder
      <4>3. deps[m].Name \in Nat /\ deps[h + 1].Name \in Nat
        BY <4>1, <2>3 DEF InOrder
      <4> QED BY <2>5, <4>1, <4>2, <4>3
    <3>2. i <= h /\ h - i <= n - (k + 1)
      BY <1>1, <2>1
    <3>3. Halve(deps, name, b) = <<i, h>>
      BY <2>2, <2>5
    <3> QED BY <1>1, <2>3, <3>1, <3>2, <3>3 DEF Encloses
  <2> QED BY <2>4, <2>5
<1> QED BY <1>1, <1>2, <1>3

IsRounds(f, deps, name, m, n) ==
    f = [k \in 0 .. n |-> IF k = 0 THEN <<0, m>> ELSE Halve(deps, name, f[k - 1])]

LEMMA RoundsExist ==
    ASSUME NEW deps, NEW name, NEW m
    PROVE  \A n \in Nat : \E f : IsRounds(f, deps, name, m, n)
<1> DEFINE T == {n \in Nat : \E f : IsRounds(f, deps, name, m, n)}
<1>1. 0 \in T
  <2> DEFINE f == [i \in 0 .. 0 |-> <<0, m>>]
  <2>1. IsRounds(f, deps, name, m, 0)
    BY DEF IsRounds
  <2> QED BY <2>1
<1>2. ASSUME NEW n \in T PROVE n + 1 \in T
  <2>1. PICK f : IsRounds(f, deps, name, m, n)
    OBVIOUS
  <2>6. n \in Nat
    OBVIOUS
  <2> HIDE DEF T
  <2> DEFINE g == [i \in 0 .. n + 1 |-> IF i = n + 1 THEN Halve(deps, name, f[n]) ELSE f[i]]
  <2>3. f[0] = <<0, m>> /\ \A k \in 1 .. n : f[k] = Halve(deps, name, f[k - 1])
    BY <2>1, <2>6 DEF IsRounds
  <2>4. ASSUME NEW k \in 0 .. n + 1
        PROVE  g[k] = IF k = 0 THEN <<0, m>> ELSE Halve(deps, name, g[k - 1])
    <3>1. CASE k = 0
      BY <3>1, <2>3, <2>6
    <3>2. CASE k \in 1 .. n
      <4>1. g[k] = f[k] /\ g[k - 1] = f[k - 1]
        BY <3>2, <2>6
      <4> QED BY <2>3, <2>6, <3>2, <4>1
    <3>3. CASE k = n + 1
      <4>1. g[k] = Halve(deps, name, f[n]) /\ g[k - 1] = f[n]
        BY <3>3, <2>6
      <4> QED BY <2>6, <3>3, <4>1
    <3> QED BY <2>6, <3>1, <3>2, <3>3
  <2>5. g = [k \in 0 .. n + 1 |-> g[k]]
    OBVIOUS
  <2> HIDE DEF g
  <2>2. IsRounds(g, deps, name, m, n + 1)
    BY <2>4, <2>5 DEF IsRounds
  <2> QED BY <2>2, <2>6 DEF T
<1> HIDE DEF T
<1>3. T \in SUBSET Nat
  BY DEF T
<1>4. \A n \in Nat : n \in T
  BY <1>1, <1>2, <1>3, Induction
<1> QED BY <1>4 DEF T

\* The search finds the first of those whose name is not smaller.
LEMMA SearchIs ==
    ASSUME NEW deps, NEW n \in Nat, InOrder(deps, n), NEW name \in Nat
    PROVE  /\ Search(deps, name) \in 1 .. n + 1 /\ Len(deps) = n
           /\ \A m \in 1 .. Search(deps, name) - 1 : deps[m].Name < name
           /\ \A m \in Search(deps, name) .. n : name <= deps[m].Name
<1>1. Len(deps) = n
  BY DEF InOrder
<1> DEFINE rounds == CHOOSE f : f = [k \in 0 .. n |-> IF k = 0 THEN <<0, n>> ELSE Halve(deps, name, f[k - 1])]
<1>2. Search(deps, name) = rounds[n][1] + 1
  BY <1>1 DEF Search
<1>3. \E f : IsRounds(f, deps, name, n, n)
  BY RoundsExist
<1>4. IsRounds(rounds, deps, name, n, n)
  BY <1>3, Zenon DEF IsRounds
<1> HIDE DEF rounds
<1>5. rounds[0] = <<0, n>> /\ \A k \in 1 .. n : rounds[k] = Halve(deps, name, rounds[k - 1])
  BY <1>4 DEF IsRounds
<1> DEFINE T == {k \in Nat : k <= n => Encloses(deps, name, n, k, rounds[k])}
<1>6. 0 \in T
  BY <1>5 DEF Encloses
<1>7. ASSUME NEW k \in T PROVE k + 1 \in T
  <2>1. SUFFICES ASSUME k + 1 <= n PROVE Encloses(deps, name, n, k + 1, rounds[k + 1])
    OBVIOUS
  <2>2. k \in 0 .. n - 1 /\ k + 1 \in 1 .. n /\ (k + 1) - 1 = k /\ Encloses(deps, name, n, k, rounds[k])
    BY <2>1
  <2>3. Encloses(deps, name, n, k + 1, Halve(deps, name, rounds[k]))
    BY <2>2, HalveEncloses
  <2> QED BY <1>5, <2>2, <2>3
<1> HIDE DEF T
<1>8. Encloses(deps, name, n, n, rounds[n])
  <2>1. T \in SUBSET Nat
    BY DEF T
  <2>2. \A k \in Nat : k \in T
    BY <1>6, <1>7, <2>1, Induction
  <2> QED BY <2>2 DEF T
<1>9. PICK i \in 0 .. n, j \in 0 .. n :
        /\ rounds[n] = <<i, j>> /\ i <= j /\ j - i <= n - n
        /\ \A m \in 1 .. i : deps[m].Name < name
        /\ \A m \in j + 1 .. n : name <= deps[m].Name
  BY <1>8 DEF Encloses
<1>10. Search(deps, name) = i + 1 /\ i = j
  BY <1>2, <1>9
<1> QED BY <1>1, <1>9, <1>10

-----------------------------------------------------------------------------
(***************************************************************************)
(* Sorting: selection shows that there is always an order by name.         *)
(***************************************************************************)
IsPermutation(q, n) ==
    /\ q \in [1 .. n -> 1 .. n]
    /\ \A v, w \in 1 .. n : q[v] = q[w] => v = w
    /\ \A w \in 1 .. n : \E v \in 1 .. n : q[v] = w

LEMMA PermutationIs ==
    ASSUME NEW n \in Nat, NEW q
    PROVE  q \in Bijection(1 .. n, 1 .. n) <=> IsPermutation(q, n)
  BY DEF Bijection, Injection, Surjection, IsInjective, IsPermutation

LEMMA Swapped ==
    ASSUME NEW n \in Nat, NEW q, IsPermutation(q, n), NEW a \in 1 .. n, NEW b \in 1 .. n
    PROVE  IsPermutation([i \in 1 .. n |-> IF i = a THEN q[b] ELSE IF i = b THEN q[a] ELSE q[i]], n)
<1> DEFINE r == [i \in 1 .. n |-> IF i = a THEN q[b] ELSE IF i = b THEN q[a] ELSE q[i]]
<1>1. r \in [1 .. n -> 1 .. n]
  BY DEF IsPermutation
<1>2. \A v, w \in 1 .. n : r[v] = r[w] => v = w
  BY DEF IsPermutation
<1>3. ASSUME NEW w \in 1 .. n PROVE \E v \in 1 .. n : r[v] = w
  <2>1. PICK v \in 1 .. n : q[v] = w
    BY DEF IsPermutation
  <2>2. CASE v = a
    <3>1. r[b] = w
      BY <2>1, <2>2
    <3> QED BY <3>1
  <2>3. CASE v = b
    <3>1. r[a] = w
      BY <2>1, <2>3
    <3> QED BY <3>1
  <2>4. CASE v # a /\ v # b
    <3>1. r[v] = w
      BY <2>1, <2>4
    <3> QED BY <3>1
  <2> QED BY <2>2, <2>3, <2>4
<1> HIDE DEF r
<1>4. IsPermutation(r, n)
  BY <1>1, <1>2, <1>3 DEF IsPermutation
<1> QED BY <1>4 DEF r

\* the first k are in order and no later one is smaller
Selected(deps, q, k, n) ==
    \A i \in 1 .. k : \A j \in 1 .. n : i < j => deps[q[i]].Name <= deps[q[j]].Name

LEMMA Selects ==
    ASSUME NEW n \in Nat, NEW deps, \A i \in 1 .. n : deps[i].Name \in Nat
    PROVE  \E q : IsPermutation(q, n) /\ Selected(deps, q, n, n)
<1> DEFINE T == {k \in Nat : k <= n => \E q : IsPermutation(q, n) /\ Selected(deps, q, k, n)}
<1>1. 0 \in T
  <2> DEFINE id == [i \in 1 .. n |-> i]
  <2>1. IsPermutation(id, n)
    BY DEF IsPermutation
  <2>2. Selected(deps, id, 0, n)
    BY DEF Selected
  <2> HIDE DEF id
  <2> QED BY <2>1, <2>2
<1>2. ASSUME NEW k \in T PROVE k + 1 \in T
  <2>0. k \in Nat
    OBVIOUS
  <2>1. SUFFICES ASSUME k + 1 <= n
                 PROVE  \E q : IsPermutation(q, n) /\ Selected(deps, q, k + 1, n)
    BY <2>0
  <2>2. PICK q : IsPermutation(q, n) /\ Selected(deps, q, k, n)
    BY <2>0, <2>1
  <2> HIDE DEF T
  <2> DEFINE key(i) == deps[q[i]].Name
             M == {key(i) : i \in k + 1 .. n}
  <2>3. \A i \in 1 .. n : key(i) \in Nat
    BY <2>2 DEF IsPermutation
  <2>4. M \in SUBSET Nat /\ M # {}
    <3>1. \A i \in k + 1 .. n : i \in 1 .. n
      BY <2>0
    <3>2. k + 1 \in k + 1 .. n
      BY <2>0, <2>1
    <3> HIDE DEF key
    <3> QED BY <2>3, <3>1, <3>2
  <2>5. PICK t \in M : \A u \in M : t <= u
    <3> HIDE DEF M
    <3> QED BY <2>4, Least
  <2>6. PICK m \in k + 1 .. n : t = key(m)
    <3> HIDE DEF key
    <3> QED OBVIOUS
  <2>7. \A i \in k + 1 .. n : key(m) <= key(i)
    <3> HIDE DEF key
    <3> QED BY <2>5, <2>6
  <2>8. m \in 1 .. n /\ k + 1 \in 1 .. n
    BY <2>0, <2>1
  <2> DEFINE r == [i \in 1 .. n |-> IF i = k + 1 THEN q[m] ELSE IF i = m THEN q[k + 1] ELSE q[i]]
  <2>9. IsPermutation(r, n)
    BY <2>2, <2>8, Swapped
  <2>10. \A i \in 1 .. n : deps[r[i]].Name = IF i = k + 1 THEN key(m) ELSE IF i = m THEN key(k + 1) ELSE key(i)
    OBVIOUS
  <2>11. \A i \in 1 .. k : \A j \in 1 .. n : i < j => key(i) <= key(j)
    BY <2>2 DEF Selected
  <2> HIDE DEF r, key, M
  <2>12. ASSUME NEW i \in 1 .. k + 1, NEW j \in 1 .. n, i < j
         PROVE  deps[r[i]].Name <= deps[r[j]].Name
    <3>1. CASE i = k + 1
      <4>1. deps[r[i]].Name = key(m) /\ j \in k + 1 .. n
        BY <2>0, <2>8, <2>10, <2>12, <3>1
      <4>2. deps[r[j]].Name = key(k + 1) \/ deps[r[j]].Name = key(j)
        BY <2>0, <2>10, <2>12, <3>1
      <4>3. k + 1 \in k + 1 .. n
        BY <2>0, <2>1
      <4> QED BY <2>7, <4>1, <4>2, <4>3
    <3>2. CASE i \in 1 .. k
      <4>1. i \in 1 .. n /\ i # k + 1 /\ i # m /\ i < k + 1 /\ i < m
        BY <2>0, <2>1, <3>2
      <4>2. deps[r[i]].Name = key(i)
        BY <2>10, <4>1
      <4>3. key(i) <= key(m) /\ key(i) <= key(k + 1) /\ key(i) <= key(j)
        BY <2>8, <2>11, <2>12, <3>2, <4>1
      <4>4. deps[r[j]].Name \in {key(m), key(k + 1), key(j)}
        BY <2>10
      <4> QED BY <4>2, <4>3, <4>4
    <3> QED BY <2>0, <3>1, <3>2
  <2>13. Selected(deps, r, k + 1, n)
    BY <2>12 DEF Selected
  <2> QED BY <2>9, <2>13
<1> HIDE DEF T
<1>3. T \in SUBSET Nat
  BY DEF T
<1>4. \A k \in Nat : k \in T
  BY <1>1, <1>2, <1>3, Induction
<1>5. n \in T /\ n <= n
  BY <1>4
<1> QED BY <1>5 DEF T

LEMMA PackageIs ==
    ASSUME NEW p \in Package
    PROVE  p.Name \in Nat /\ p.Name # 0
  BY DEF Package

LEMMA SamePackage ==
    ASSUME NEW p \in Package, NEW q \in Package, p.Name = q.Name, p.Version = q.Version
    PROVE  p = q
  BY DEF Package

\* The packages of a list.
LEMMA ListIs ==
    ASSUME NEW list \in Seq(Package)
    PROVE  /\ Len(list) \in Nat /\ DOMAIN list = 1 .. Len(list)
           /\ \A i \in 1 .. Len(list) : list[i] \in Package /\ list[i].Name \in Nat /\ list[i].Name # 0
<1>1. Len(list) \in Nat /\ DOMAIN list = 1 .. Len(list) /\ \A i \in 1 .. Len(list) : list[i] \in Package
  OBVIOUS
<1> QED BY <1>1, PackageIs

\* What is sorted has the same packages, and can always be.
LEMMA SortedIs ==
    ASSUME NEW deps \in Seq(Package), NEW sorted \in SortByName(deps)
    PROVE  /\ InOrder(sorted, Len(deps))
           /\ \A d : d \in Range(deps) <=> \E i \in 1 .. Len(deps) : sorted[i] = d
<1>1. PICK n \in Nat : Len(deps) = n /\ DOMAIN deps = 1 .. n
  OBVIOUS
<1>2. PICK q \in Bijection(1 .. n, 1 .. n) :
        /\ \A i, j \in 1 .. n : i < j => deps[q[i]].Name <= deps[q[j]].Name
        /\ sorted = [i \in 1 .. n |-> deps[q[i]]]
  BY <1>1 DEF SortByName
<1>3. IsPermutation(q, n)
  BY PermutationIs
<1>4. \A i \in 1 .. n : deps[i].Name \in Nat
  BY <1>1, ListIs
<1>5. DOMAIN sorted = 1 .. n /\ \A i \in 1 .. n : sorted[i] = deps[q[i]] /\ q[i] \in 1 .. n
  BY <1>2, <1>3 DEF IsPermutation
<1>6. InOrder(sorted, n)
  BY <1>2, <1>4, <1>5 DEF InOrder
<1>7. ASSUME NEW d \in Range(deps) PROVE \E i \in 1 .. n : sorted[i] = d
  <2>1. PICK w \in 1 .. n : deps[w] = d
    BY <1>1 DEF Range
  <2>2. PICK v \in 1 .. n : q[v] = w
    BY <1>3 DEF IsPermutation
  <2> QED BY <1>5, <2>1, <2>2
<1>8. ASSUME NEW i \in 1 .. n PROVE sorted[i] \in Range(deps)
  BY <1>1, <1>5 DEF Range
<1> QED BY <1>1, <1>6, <1>7, <1>8

LEMMA Sorts ==
    ASSUME NEW deps \in Seq(Package)
    PROVE  SortByName(deps) # {}
<1>1. PICK n \in Nat : DOMAIN deps = 1 .. n
  OBVIOUS
<1>2. \A i \in 1 .. n : deps[i].Name \in Nat
  BY <1>1, ListIs
<1>3. PICK q : IsPermutation(q, n) /\ Selected(deps, q, n, n)
  BY <1>2, Selects
<1>4. q \in Bijection(1 .. n, 1 .. n)
  BY <1>3, PermutationIs
<1>5. \A i, j \in 1 .. n : i < j => deps[q[i]].Name <= deps[q[j]].Name
  BY <1>3 DEF Selected
<1>6. [i \in 1 .. n |-> deps[q[i]]] \in SortByName(deps)
  BY <1>1, <1>4, <1>5, Zenon DEF SortByName
<1> QED BY <1>6

\* What freezing makes of a package.
IsFrozen(deps, old, new) ==
    \/ \E d \in Range(deps) : d.Name = old.Name /\ new = [old EXCEPT !.Version = d.Version]
    \/ new = None /\ \A d \in Range(deps) : d.Name # old.Name

LEMMA Freezing ==
    ASSUME NEW deps \in Seq(Package), NEW packages \in Seq(Package)
    PROVE  /\ Freeze(deps, packages) # {}
           /\ \A new \in Freeze(deps, packages) : \A k \in DOMAIN packages : IsFrozen(deps, packages[k], new[k])
<1>1. PICK n \in Nat : Len(deps) = n
  OBVIOUS
<1>2. ASSUME NEW sorted \in SortByName(deps), NEW k \in DOMAIN packages
      PROVE  IsFrozen(deps, packages[k], setPkgEVRA(sorted, packages)[k])
  <2> DEFINE name == packages[k].Name
             i    == Search(sorted, name)
             new  == setPkgEVRA(sorted, packages)[k]
  <2>1. name \in Nat
    BY ListIs
  <2>2. InOrder(sorted, n) /\ \A d : d \in Range(deps) <=> \E m \in 1 .. n : sorted[m] = d
    BY <1>1, SortedIs
  <2>3. new = IF i <= Len(sorted) /\ sorted[i].Name = name
              THEN [packages[k] EXCEPT !.Version = sorted[i].Version] ELSE None
    BY DEF setPkgEVRA
  <2> HIDE DEF name, i, new
  <2>4. /\ i \in 1 .. n + 1 /\ Len(sorted) = n
        /\ \A m \in 1 .. i - 1 : sorted[m].Name < name
        /\ \A m \in i .. n : name <= sorted[m].Name
    BY <2>1, <2>2, SearchIs DEF i
  <2>5. \A m \in 1 .. n : sorted[m].Name \in Nat
    BY <2>2 DEF InOrder
  <2>6. CASE i <= n /\ sorted[i].Name = name
    <3>1. sorted[i] \in Range(deps)
      BY <2>2, <2>4, <2>6
    <3>2. new = [packages[k] EXCEPT !.Version = sorted[i].Version]
      BY <2>3, <2>4, <2>6
    <3> QED BY <2>6, <3>1, <3>2 DEF IsFrozen, name, new
  <2>7. CASE ~(i <= n /\ sorted[i].Name = name)
    <3>1. new = None
      BY <2>3, <2>4, <2>7
    <3>2. ASSUME NEW m \in 1 .. n PROVE sorted[m].Name # name
      <4>1. CASE m < i
        BY <2>1, <2>4, <2>5, <4>1
      <4>2. CASE i <= m
        <5>1. i \in 1 .. n /\ m \in i .. n /\ i \in i .. n
          BY <2>4, <4>2
        <5>2. sorted[i].Name # name /\ name <= sorted[i].Name
          BY <2>4, <2>7, <5>1
        <5>3. sorted[i].Name <= sorted[m].Name
          <6>1. i < m \/ i = m
            BY <5>1
          <6> QED BY <2>2, <2>5, <5>1, <6>1 DEF InOrder
        <5> QED BY <2>1, <2>5, <5>1, <5>2, <5>3
      <4> QED BY <2>4, <4>1, <4>2
    <3>3. \A d \in Range(deps) : d.Name # name
      BY <2>2, <3>2
    <3> QED BY <3>1, <3>3 DEF IsFrozen, name, new
  <2> QED BY <2>6, <2>7 DEF new
<1>3. ASSUME NEW new \in Freeze(deps, packages), NEW k \in DOMAIN packages
      PROVE  IsFrozen(deps, packages[k], new[k])
  <2>1. PICK sorted \in SortByName(deps) : new = setPkgEVRA(sorted, packages)
    BY DEF Freeze
  <2> QED BY <1>2, <2>1
<1>4. Freeze(deps, packages) # {}
  BY Sorts DEF Freeze
<1> QED BY <1>3, <1>4

-----------------------------------------------------------------------------
(***************************************************************************)
(* Differences of lists that name no package twice.                        *)
(***************************************************************************)
Changed(old, new, i, j) ==
    /\ i \in DOMAIN old /\ j \in DOMAIN new
    /\ old[i].Name = new[j].Name /\ old[i].Version # new[j].Version

Added(old, new, j) == j \in DOMAIN new /\ \A i \in DOMAIN old : old[i].Name # new[j].Name

Removed(old, new, i) == i \in DOMAIN old /\ \A j \in DOMAIN new : old[i].Name # new[j].Name

Entry(p, q) == [Old |-> p, New |-> q]

IsDiff(old, new, d) ==
    \/ \E i, j : Changed(old, new, i, j) /\ d = Entry(old[i], new[j])
    \/ \E j : Added(old, new, j) /\ d = Entry(None, new[j])
    \/ \E i : Removed(old, new, i) /\ d = Entry(old[i], None)

LEMMA OldMapIs ==
    ASSUME NEW old \in Seq(Package), NamedOnce(old), NEW i \in DOMAIN old, NEW name, old[i].Name = name
    PROVE  old[Max({k \in DOMAIN old : old[k].Name = name})] = old[i]
<1> DEFINE S == {k \in DOMAIN old : old[k].Name = name}
<1>1. i \in S /\ S \in SUBSET (1 .. Len(old)) /\ Len(old) \in Nat
  OBVIOUS
<1>2. \A k \in S : k = i
  BY DEF NamedOnce
<1> HIDE DEF S
<1>3. Max(S) \in S
  BY <1>1, MaxOfPositions
<1>4. Max(S) = i
  BY <1>2, <1>3
<1> QED BY <1>4 DEF S

LEMMA DiffIs ==
    ASSUME NEW old \in Seq(Package), NEW new \in Seq(Package), NamedOnce(old), NamedOnce(new)
    PROVE  \A d : d \in Diff(old, new) <=> IsDiff(old, new, d)
<1> DEFINE of(name)    == {i \in DOMAIN old : old[i].Name = name}
           oldMap(name) == old[Max(of(name))]
           found       == {i \in DOMAIN new : /\ of(new[i].Name) # {}
                                              /\ \A j \in 1 .. i - 1 : new[j].Name # new[i].Name}
           left        == {i \in DOMAIN old : \A j \in DOMAIN new : new[j].Name # old[i].Name}
<1>1. Diff(old, new) =
        {[Old |-> oldMap(new[i].Name), New |-> new[i]] : i \in
            {k \in found : oldMap(new[k].Name).Version # new[k].Version}}
        \cup {[Old |-> None, New |-> new[i]] : i \in DOMAIN new \ found}
        \cup {[Old |-> oldMap(old[i].Name), New |-> None] : i \in left}
  BY DEF Diff
<1>2. \A i \in DOMAIN old : \A name : old[i].Name = name => oldMap(name) = old[i]
  BY OldMapIs
<1>3. \A j \in DOMAIN new : j \in found <=> \E i \in DOMAIN old : old[i].Name = new[j].Name
  <2> TAKE j \in DOMAIN new
  <2>1. \A k \in 1 .. j - 1 : new[k].Name # new[j].Name
    <3> TAKE k \in 1 .. j - 1
    <3>1. k \in DOMAIN new /\ k # j
      BY ListIs
    <3> QED BY <3>1 DEF NamedOnce
  <2> QED BY <2>1
<1>4. \A j \in DOMAIN new \ found : Added(old, new, j)
  BY <1>3 DEF Added
<1>5. \A j : Added(old, new, j) => j \in DOMAIN new \ found
  BY <1>3 DEF Added
<1>6. \A i : i \in left <=> Removed(old, new, i)
  BY DEF Removed
<1>7. found \subseteq DOMAIN new /\ left \subseteq DOMAIN old
  OBVIOUS
<1> HIDE DEF oldMap, of, found, left
<1>8. ASSUME NEW d \in Diff(old, new) PROVE IsDiff(old, new, d)
  <2>1. CASE \E k \in found : oldMap(new[k].Name).Version # new[k].Version /\ d = Entry(oldMap(new[k].Name), new[k])
    <3>1. PICK k \in found : oldMap(new[k].Name).Version # new[k].Version /\ d = Entry(oldMap(new[k].Name), new[k])
      BY <2>1
    <3>2. PICK i \in DOMAIN old : old[i].Name = new[k].Name
      BY <1>3, <1>7
    <3>3. oldMap(new[k].Name) = old[i]
      BY <1>2, <3>2
    <3>4. Changed(old, new, i, k)
      BY <1>7, <3>1, <3>2, <3>3 DEF Changed
    <3> QED BY <3>1, <3>3, <3>4 DEF IsDiff
  <2>2. CASE \E j \in DOMAIN new \ found : d = Entry(None, new[j])
    BY <1>4, <2>2 DEF IsDiff
  <2>3. CASE \E i \in left : d = Entry(oldMap(old[i].Name), None)
    <3>1. PICK i \in left : d = Entry(oldMap(old[i].Name), None)
      BY <2>3
    <3>2. oldMap(old[i].Name) = old[i]
      BY <1>2, <1>7
    <3> QED BY <1>6, <3>1, <3>2 DEF IsDiff
  <2> QED BY <1>1, <2>1, <2>2, <2>3, Zenon DEF Entry
<1>9. ASSUME NEW d, IsDiff(old, new, d) PROVE d \in Diff(old, new)
  <2>1. CASE \E i, j : Changed(old, new, i, j) /\ d = Entry(old[i], new[j])
    <3>1. PICK i, j : Changed(old, new, i, j) /\ d = Entry(old[i], new[j])
      BY <2>1
    <3>2. oldMap(new[j].Name) = old[i] /\ j \in found /\ oldMap(new[j].Name).Version # new[j].Version
      BY <1>2, <1>3, <3>1 DEF Changed
    <3>3. d = [Old |-> oldMap(new[j].Name), New |-> new[j]]
      BY <3>1, <3>2 DEF Entry
    <3> QED BY <1>1, <3>2, <3>3, Zenon
  <2>2. CASE \E j : Added(old, new, j) /\ d = Entry(None, new[j])
    <3>1. PICK j \in DOMAIN new \ found : d = Entry(None, new[j])
      BY <1>5, <2>2
    <3>2. d = [Old |-> None, New |-> new[j]]
      BY <3>1 DEF Entry
    <3> QED BY <1>1, <3>2, Zenon
  <2>3. CASE \E i : Removed(old, new, i) /\ d = Entry(old[i], None)
    <3>1. PICK i : Removed(old, new, i) /\ d = Entry(old[i], None)
      BY <2>3
    <3>2. i \in left /\ oldMap(old[i].Name) = old[i]
      BY <1>2, <1>6, <3>1 DEF Removed
    <3>3. d = [Old |-> oldMap(old[i].Name), New |-> None]
      BY <3>1, <3>2 DEF Entry
    <3> QED BY <1>1, <3>2, <3>3, Zenon
  <2> QED BY <1>9, <2>1, <2>2, <2>3 DEF IsDiff
<1> QED BY <1>8, <1>9

EntryNames(d) == {d.Old.Name, d.New.Name} \ {0}

LEMMA EntryIs ==
    ASSUME NEW p, NEW q
    PROVE  Entry(p, q).Old = p /\ Entry(p, q).New = q
  BY DEF Entry

LEMMA NoneIs == None.Name = 0
  BY DEF None

\* Every entry is of one name; those of one name are of the same packages.
LEMMA EntriesDiffer ==
    ASSUME NEW old \in Seq(Package), NEW new \in Seq(Package), NamedOnce(old), NamedOnce(new),
           NEW x, NEW y, IsDiff(old, new, x), IsDiff(old, new, y), EntryNames(x) \cap EntryNames(y) # {}
    PROVE  x = y
<1>1. PICK name \in EntryNames(x) \cap EntryNames(y) : TRUE
  OBVIOUS
<1>2. ASSUME NEW d, IsDiff(old, new, d), name \in EntryNames(d)
      PROVE  \/ \E i, j : Changed(old, new, i, j) /\ d = Entry(old[i], new[j]) /\ old[i].Name = name
             \/ \E j : Added(old, new, j) /\ d = Entry(None, new[j]) /\ new[j].Name = name
             \/ \E i : Removed(old, new, i) /\ d = Entry(old[i], None) /\ old[i].Name = name
  <2>1. CASE \E i, j : Changed(old, new, i, j) /\ d = Entry(old[i], new[j])
    <3>1. PICK i, j : Changed(old, new, i, j) /\ d = Entry(old[i], new[j])
      BY <2>1
    <3>2. old[i].Name = name
      BY <1>2, <3>1, EntryIs DEF EntryNames, Changed
    <3> QED BY <3>1, <3>2
  <2>2. CASE \E j : Added(old, new, j) /\ d = Entry(None, new[j])
    <3>1. PICK j : Added(old, new, j) /\ d = Entry(None, new[j])
      BY <2>2
    <3>2. new[j].Name = name
      BY <1>2, <3>1, EntryIs, NoneIs DEF EntryNames
    <3> QED BY <3>1, <3>2
  <2>3. CASE \E i : Removed(old, new, i) /\ d = Entry(old[i], None)
    <3>1. PICK i : Removed(old, new, i) /\ d = Entry(old[i], None)
      BY <2>3
    <3>2. old[i].Name = name
      BY <1>2, <3>1, EntryIs, NoneIs DEF EntryNames
    <3> QED BY <3>1, <3>2
  <2> QED BY <1>2, <2>1, <2>2, <2>3 DEF IsDiff
<1>3. CASE \E i, j : Changed(old, new, i, j) /\ x = Entry(old[i], new[j]) /\ old[i].Name = name
  <2>1. PICK i, j : Changed(old, new, i, j) /\ x = Entry(old[i], new[j]) /\ old[i].Name = name
    BY <1>3
  <2>2. ~\E k : Added(old, new, k) /\ y = Entry(None, new[k]) /\ new[k].Name = name
    BY <2>1 DEF Changed, Added
  <2>3. ~\E k : Removed(old, new, k) /\ y = Entry(old[k], None) /\ old[k].Name = name
    BY <2>1 DEF Changed, Removed
  <2>4. PICK k, m : Changed(old, new, k, m) /\ y = Entry(old[k], new[m]) /\ old[k].Name = name
    BY <1>1, <1>2, <2>2, <2>3
  <2>5. k = i /\ m = j
    BY <2>1, <2>4 DEF Changed, NamedOnce
  <2> QED BY <2>1, <2>4, <2>5
<1>4. CASE \E j : Added(old, new, j) /\ x = Entry(None, new[j]) /\ new[j].Name = name
  <2>1. PICK j : Added(old, new, j) /\ x = Entry(None, new[j]) /\ new[j].Name = name
    BY <1>4
  <2>2. ~\E i, k : Changed(old, new, i, k) /\ y = Entry(old[i], new[k]) /\ old[i].Name = name
    BY <2>1 DEF Changed, Added
  <2>3. ~\E k : Removed(old, new, k) /\ y = Entry(old[k], None) /\ old[k].Name = name
    BY <2>1 DEF Added, Removed
  <2>4. PICK m : Added(old, new, m) /\ y = Entry(None, new[m]) /\ new[m].Name = name
    BY <1>1, <1>2, <2>2, <2>3
  <2>5. m = j
    BY <2>1, <2>4 DEF Added, NamedOnce
  <2> QED BY <2>1, <2>4, <2>5
<1>5. CASE \E i : Removed(old, new, i) /\ x = Entry(old[i], None) /\ old[i].Name = name
  <2>1. PICK i : Removed(old, new, i) /\ x = Entry(old[i], None) /\ old[i].Name = name
    BY <1>5
  <2>2. ~\E k, j : Changed(old, new, k, j) /\ y = Entry(old[k], new[j]) /\ old[k].Name = name
    BY <2>1 DEF Changed, Removed
  <2>3. ~\E j : Added(old, new, j) /\ y = Entry(None, new[j]) /\ new[j].Name = name
    BY <2>1 DEF Added, Removed
  <2>4. PICK m : Removed(old, new, m) /\ y = Entry(old[m], None) /\ old[m].Name = name
    BY <1>1, <1>2, <2>2, <2>3
  <2>5. m = i
    BY <2>1, <2>4 DEF Removed, NamedOnce
  <2> QED BY <2>1, <2>4, <2>5
<1> QED BY <1>1, <1>2, <1>3, <1>4, <1>5

\* Applied to the old list, the entries give the new one.
LEMMA Patches ==
    ASSUME NEW old \in Seq(Package), NEW new \in Seq(Package), NamedOnce(old), NamedOnce(new)
    PROVE  Patched(old, Diff(old, new)) = Range(new)
<1> DEFINE D == Diff(old, new)
<1>1. \A d : d \in D <=> IsDiff(old, new, d)
  BY DiffIs
<1> HIDE DEF D
<1>2. \A p : p \in Range(new) <=> \E j \in DOMAIN new : new[j] = p
  BY DEF Range
<1>3. \A p : p \in Range(old) <=> \E i \in DOMAIN old : old[i] = p
  BY DEF Range
<1>4. /\ \A i \in DOMAIN old : old[i] \in Package /\ old[i].Name # 0
      /\ \A j \in DOMAIN new : new[j] \in Package /\ new[j].Name # 0
  BY ListIs
<1>5. ASSUME NEW p \in Range(old), \A d \in D : d.Old # p PROVE p \in Range(new)
  <2>1. PICK i \in DOMAIN old : old[i] = p
    BY <1>3
  <2>2. ~Removed(old, new, i)
    <3>1. Entry(old[i], None).Old = p
      BY <2>1, EntryIs
    <3>2. Entry(old[i], None) \notin D
      BY <1>5, <3>1
    <3> QED BY <1>1, <3>2 DEF IsDiff
  <2>3. PICK j \in DOMAIN new : old[i].Name = new[j].Name
    BY <2>2 DEF Removed
  <2>4. ~Changed(old, new, i, j)
    <3>1. Entry(old[i], new[j]).Old = p
      BY <2>1, EntryIs
    <3>2. Entry(old[i], new[j]) \notin D
      BY <1>5, <3>1
    <3> QED BY <1>1, <3>2 DEF IsDiff
  <2>5. old[i].Version = new[j].Version
    BY <2>3, <2>4 DEF Changed
  <2>6. old[i] = new[j]
    BY <1>4, <2>3, <2>5, SamePackage
  <2> QED BY <1>2, <2>1, <2>6
<1>6. ASSUME NEW d \in D, d.New # None PROVE d.New \in Range(new)
  BY <1>1, <1>2, <1>6, EntryIs DEF IsDiff, Changed, Added
<1>7. ASSUME NEW p \in Range(new), \A d \in D : d.New # p
      PROVE  p \in Range(old) /\ \A d \in D : d.Old # p
  <2>1. PICK j \in DOMAIN new : new[j] = p
    BY <1>2
  <2>2. ~Added(old, new, j)
    <3>1. Entry(None, new[j]).New = p
      BY <2>1, EntryIs
    <3>2. Entry(None, new[j]) \notin D
      BY <1>7, <3>1
    <3> QED BY <1>1, <3>2 DEF IsDiff
  <2>3. PICK i \in DOMAIN old : old[i].Name = new[j].Name
    BY <2>2 DEF Added
  <2>4. ~Changed(old, new, i, j)
    <3>1. Entry(old[i], new[j]).New = p
      BY <2>1, EntryIs
    <3>2. Entry(old[i], new[j]) \notin D
      BY <1>7, <3>1
    <3> QED BY <1>1, <3>2 DEF IsDiff
  <2>5. old[i].Version = new[j].Version
    BY <2>3, <2>4 DEF Changed
  <2>6. old[i] = new[j]
    BY <1>4, <2>3, <2>5, SamePackage
  <2>7. ASSUME NEW d \in D, d.Old = p PROVE FALSE
    <3>1. CASE \E k, m : Changed(old, new, k, m) /\ d = Entry(old[k], new[m])
      <4>1. PICK k, m : Changed(old, new, k, m) /\ d = Entry(old[k], new[m])
        BY <3>1
      <4>2. old[k] = new[j]
        BY <2>1, <2>7, <4>1, EntryIs
      <4>3. m = j
        BY <4>1, <4>2 DEF Changed, NamedOnce
      <4> QED BY <4>1, <4>2, <4>3 DEF Changed
    <3>2. CASE \E m : Added(old, new, m) /\ d = Entry(None, new[m])
      <4>1. p = None
        BY <2>7, <3>2, EntryIs
      <4> QED BY <1>4, <2>1, <4>1, NoneIs
    <3>3. CASE \E k : Removed(old, new, k) /\ d = Entry(old[k], None)
      <4>1. PICK k : Removed(old, new, k) /\ d = Entry(old[k], None)
        BY <3>3
      <4>2. old[k] = new[j]
        BY <2>1, <2>7, <4>1, EntryIs
      <4> QED BY <4>1, <4>2 DEF Removed
    <3> QED BY <1>1, <3>1, <3>2, <3>3 DEF IsDiff
  <2> QED BY <1>3, <2>1, <2>6, <2>7
<1>8. \A p \in Range(new) : p # None
  BY <1>2, <1>4, NoneIs
<1>9. Patched(old, D) = Range(new)
  <2>1. ASSUME NEW p \in Patched(old, D) PROVE p \in Range(new)
    BY <1>5, <1>6 DEF Patched
  <2>2. ASSUME NEW p \in Range(new) PROVE p \in Patched(old, D)
    <3>1. CASE \E d \in D : d.New = p
      BY <1>8, <3>1 DEF Patched
    <3>2. CASE \A d \in D : d.New # p
      BY <1>7, <3>2 DEF Patched
    <3> QED BY <3>1, <3>2
  <2> QED BY <2>1, <2>2
<1> QED BY <1>9 DEF D

LEMMA Differences ==
    ASSUME NEW old \in Seq(Package), NEW new \in Seq(Package), NamedOnce(old), NamedOnce(new)
    PROVE  /\ Patched(old, Diff(old, new)) = Range(new)
           /\ \A x, y \in Diff(old, new) :
                ({x.Old.Name, x.New.Name} \cap {y.Old.Name, y.New.Name}) \ {0} # {} => x = y
<1>1. ASSUME NEW x \in Diff(old, new), NEW y \in Diff(old, new),
             ({x.Old.Name, x.New.Name} \cap {y.Old.Name, y.New.Name}) \ {0} # {}
      PROVE  x = y
  <2>1. EntryNames(x) \cap EntryNames(y) # {}
    BY <1>1 DEF EntryNames
  <2>2. IsDiff(old, new, x) /\ IsDiff(old, new, y)
    BY DiffIs
  <2> QED BY <2>1, <2>2, EntriesDiffer
<1> QED BY <1>1, Patches

-----------------------------------------------------------------------------
(***************************************************************************)
(* There are finitely many blueprints: every step adds one at most.        *)
(***************************************************************************)
FInv == IsFiniteSet(DOMAIN store.blueprints) /\ IsFiniteSet(DOMAIN disk.blueprints)

AddsOne ==
    /\ \E n : DOMAIN store'.blueprints \subseteq (DOMAIN store.blueprints \cup DOMAIN disk.blueprints) \cup {n}
    /\ DOMAIN disk'.blueprints \subseteq DOMAIN disk.blueprints \cup DOMAIN store'.blueprints

LEMMA StaysFinite == ASSUME FInv, AddsOne PROVE FInv'
<1> DEFINE S == DOMAIN store.blueprints
           D == DOMAIN disk.blueprints
           T == DOMAIN store'.blueprints
           E == DOMAIN disk'.blueprints
<1>1. IsFiniteSet(S) /\ IsFiniteSet(D)
  BY DEF FInv
<1>2. PICK n : T \subseteq (S \cup D) \cup {n}
  BY DEF AddsOne
<1>3. E \subseteq D \cup T
  BY DEF AddsOne
<1>4. FInv' <=> IsFiniteSet(T) /\ IsFiniteSet(E)
  BY DEF FInv
<1> HIDE DEF S, D, T, E
<1>5. IsFiniteSet(S \cup D)
  BY <1>1, FS_Union
<1>6. IsFiniteSet((S \cup D) \cup {n})
  BY <1>5, FS_AddElement
<1>7. IsFiniteSet(T)
  BY <1>2, <1>6, FS_Subset
<1>8. IsFiniteSet(D \cup T)
  BY <1>1, <1>7, FS_Union
<1>9. IsFiniteSet(E)
  BY <1>3, <1>8, FS_Subset
<1> QED BY <1>4, <1>7, <1>9

LEMMA ChangeAddsOne ==
    ASSUME IInv', NEW new, NEW promise, NEW key, change(new, promise, key),
           NEW n, DOMAIN new.blueprints \subseteq DOMAIN store.blueprints \cup {n}
    PROVE  AddsOne
<1>1. store' = new /\ up' /\ (disk' = toStoreV0(new) \/ disk' = disk)
  BY DEF change, IInv
<1>2. new \in Stores
  BY <1>1 DEF IInv, Good
<1>3. DOMAIN disk'.blueprints \subseteq DOMAIN disk.blueprints \cup DOMAIN new.blueprints
  <2>1. CASE disk' = toStoreV0(new)
    BY <1>2, <2>1, WrittenIs DEF SameHistory
  <2>2. CASE disk' = disk
    BY <2>2
  <2> QED BY <1>1, <2>1, <2>2
<1> QED BY <1>1, <1>3 DEF AddsOne

LEMMA ReplacedBlueprints ==
    ASSUME NEW s \in Stores, NEW bp, NEW c, NEW time, NEW n, NEW v
    PROVE  /\ DOMAIN PushBlueprint(s, bp, c, time).blueprints = DOMAIN s.blueprints \cup {Initialize(bp).Name}
           /\ PushBlueprintToWorkspace(s, bp).blueprints = s.blueprints
           /\ DOMAIN DeleteBlueprint(s, n).blueprints = DOMAIN s.blueprints \ {n}
           /\ DeleteBlueprintFromWorkspace(s, n).blueprints = s.blueprints
           /\ TagBlueprint(s, n).blueprints = s.blueprints
           /\ PushSource(s, n, v).blueprints = s.blueprints
           /\ DeleteSourceByID(s, n).blueprints = s.blueprints
<1>1. DOMAIN PushBlueprint(s, bp, c, time).blueprints = DOMAIN s.blueprints \cup {Initialize(bp).Name}
  BY DEF PushBlueprint, With, Stores
<1>2. PushBlueprintToWorkspace(s, bp).blueprints = s.blueprints
  BY DEF PushBlueprintToWorkspace, Stores
<1>3. DOMAIN DeleteBlueprint(s, n).blueprints = DOMAIN s.blueprints \ {n}
  BY DEF DeleteBlueprint, Without, Stores
<1>4. DeleteBlueprintFromWorkspace(s, n).blueprints = s.blueprints
  BY DEF DeleteBlueprintFromWorkspace, Stores
<1>5. TagBlueprint(s, n).blueprints = s.blueprints
  BY DEF TagBlueprint, Stores
<1>6. PushSource(s, n, v).blueprints = s.blueprints /\ DeleteSourceByID(s, n).blueprints = s.blueprints
  BY DEF PushSource, DeleteSourceByID, Stores
<1> QED BY <1>1, <1>2, <1>3, <1>4, <1>5, <1>6

LEMMA StepAddsOne == ASSUME IInv, IInv', [Next]_vars PROVE AddsOne
<1>0. ASSUME NEW new, NEW promise, NEW key, change(new, promise, key),
             new.blueprints = store.blueprints \/ \E n : DOMAIN new.blueprints \subseteq DOMAIN store.blueprints \cup {n}
      PROVE  AddsOne
  <2>1. PICK n : DOMAIN new.blueprints \subseteq DOMAIN store.blueprints \cup {n}
    BY <1>0
  <2> QED BY <1>0, <2>1, ChangeAddsOne
<1>1. store \in Stores
  BY EmptyStoreIs DEF IInv, Good
<1>2. ASSUME NEW bp, commits(bp) PROVE AddsOne
  <2> DEFINE c == Commits[Cardinality(DOMAIN pushed) + 1]
             new == PushBlueprint(store, bp, c, Now)
             promise == [acked EXCEPT !.commits = @ \cup {<<bp.Name, c>>}]
  <2>1. CASE Valid(bp)
    <3>1. change(new, promise, NoName)
      BY <1>2, <2>1 DEF commits
    <3>2. DOMAIN new.blueprints = DOMAIN store.blueprints \cup {Initialize(bp).Name}
      BY <1>1, ReplacedBlueprints
    <3> HIDE DEF new, promise
    <3> QED BY <1>0, <3>1, <3>2
  <2>2. CASE ~Valid(bp)
    <3>1. change(store, acked, NoName)
      BY <1>2, <2>2 DEF commits, plainly
    <3> QED BY <1>0, <3>1
  <2> QED BY <2>1, <2>2
<1>3. CASE blueprintsNew \/ undoPush
  BY <1>2, <1>3 DEF blueprintsNew, undoPush
<1>4. CASE blueprintsWorkspace
  <2>1. PICK bp : plainly(IF Valid(bp) THEN PushBlueprintToWorkspace(store, bp) ELSE store)
    BY <1>4 DEF blueprintsWorkspace
  <2>2. PushBlueprintToWorkspace(store, bp).blueprints = store.blueprints
    BY <1>1, ReplacedBlueprints
  <2>3. CASE Valid(bp)
    <3>1. change(PushBlueprintToWorkspace(store, bp), acked, NoName)
      BY <2>1, <2>3 DEF plainly
    <3> QED BY <1>0, <2>2, <3>1
  <2>4. CASE ~Valid(bp)
    <3>1. change(store, acked, NoName)
      BY <2>1, <2>4 DEF plainly
    <3> QED BY <1>0, <3>1
  <2> QED BY <2>3, <2>4
<1>5. CASE blueprintDelete \/ blueprintDeleteWorkspace
  <2>1. PICK n : plainly(DeleteBlueprint(store, n)) \/ plainly(DeleteBlueprintFromWorkspace(store, n))
    BY <1>5 DEF blueprintDelete, blueprintDeleteWorkspace
  <2>2. DOMAIN DeleteBlueprint(store, n).blueprints \subseteq DOMAIN store.blueprints \cup {n}
    <3>1. DOMAIN DeleteBlueprint(store, n).blueprints = DOMAIN store.blueprints \ {n}
      BY <1>1, ReplacedBlueprints
    <3> QED BY <3>1
  <2>3. DeleteBlueprintFromWorkspace(store, n).blueprints = store.blueprints
    BY <1>1, ReplacedBlueprints
  <2> QED BY <1>0, <2>1, <2>2, <2>3 DEF plainly
<1>6. CASE blueprintsTag
  <2>1. PICK n : plainly(IF n \in DOMAIN store.blueprints /\ At(store.commits, n, <<>>) # <<>>
                         THEN TagBlueprint(store, n) ELSE store)
    BY <1>6 DEF blueprintsTag
  <2>2. PICK new : change(new, acked, NoName) /\ new.blueprints = store.blueprints
    BY <1>1, <2>1, ReplacedBlueprints DEF plainly
  <2> QED BY <1>0, <2>2
<1>7. CASE sourceNew
  <2>1. PICK key, source, promise : change(PushSource(store, key, source), promise, key)
    BY <1>7 DEF sourceNew
  <2>2. PushSource(store, key, source).blueprints = store.blueprints
    BY <1>1, ReplacedBlueprints
  <2> QED BY <1>0, <2>1, <2>2
<1>8. CASE sourceDelete
  <2>1. PICK k : change(DeleteSourceByID(store, k), Forget(acked, k), k)
    BY <1>8 DEF sourceDelete, Forget
  <2>2. DeleteSourceByID(store, k).blueprints = store.blueprints
    BY <1>1, ReplacedBlueprints
  <2> QED BY <1>0, <2>1, <2>2
<1>9. CASE undoRead \/ sourceLookup \/ UNCHANGED vars
  BY <1>9 DEF undoRead, sourceLookup, vars, AddsOne
<1>10. CASE crash
  <2>1. disk' = disk /\ DOMAIN store'.blueprints = {}
    BY <1>10, EmptyPFun DEF crash, EmptyStore
  <2> QED BY <2>1 DEF AddsOne
<1>11. CASE New
  <2>1. disk' = disk /\ disk \in Stores /\ store' \in newStoreFromV0(disk)
    BY <1>11 DEF New, IInv
  <2>2. PICK com : store' = [disk EXCEPT !.commits = com]
    BY <2>1 DEF newStoreFromV0
  <2>3. store'.blueprints = disk.blueprints
    BY <2>1, <2>2 DEF Stores
  <2> QED BY <2>1, <2>3 DEF AddsOne
<1> QED BY <1>3, <1>4, <1>5, <1>6, <1>7, <1>8, <1>9, <1>10, <1>11 DEF Next

LEMMA FiniteAtFirst == ASSUME Init PROVE FInv
<1>1. DOMAIN Empty = {} /\ IsFiniteSet({})
  BY EmptyPFun, FS_EmptySet
<1>2. IsFiniteSet(DOMAIN EmptyStore.blueprints)
  BY <1>1 DEF EmptyStore
<1>3. ASSUME NEW n, NEW t, NEW r, NEW b PROVE IsFiniteSet(DOMAIN OldFile(n, t, r, b).blueprints)
  <2>1. DOMAIN OldFile(n, t, r, b).blueprints = {} \cup {n}
    BY <1>1 DEF OldFile, EmptyStore, With
  <2> QED BY <1>1, <2>1, FS_AddElement
<1> QED BY <1>2, <1>3 DEF Init, FInv

\* The maps of the store hold finitely many blueprints, however many requests
\* come: a push adds one name, and reading the file adds none.
THEOREM FinitelyMany == Spec => []FInv
<1>1. Init => FInv
  BY FiniteAtFirst
<1>2. IInv /\ IInv' /\ FInv /\ [Next]_vars => FInv'
  BY StepAddsOne, StaysFinite
<1> QED BY <1>1, <1>2, Invariant, PTL DEF Spec

LEMMA ListIsSequence ==
    ASSUME NEW S, IsFiniteSet(S)
    PROVE  SetToSeq(S) \in Seq(S)
<1>1. Cardinality(S) \in Nat /\ ExistsBijection(1 .. Cardinality(S), S)
  BY FS_CardinalityType
<1>2. \E f \in [1 .. Cardinality(S) -> S] : IsInjective(f)
  BY <1>1 DEF ExistsBijection, Bijection, Injection
<1>3. SetToSeq(S) \in [1 .. Cardinality(S) -> S]
  BY <1>2, Zenon DEF SetToSeq
<1> QED BY <1>1, <1>3

-----------------------------------------------------------------------------
(***************************************************************************)
(* The list of sources.                                                    *)
(***************************************************************************)
LEMMA SourcesComplete ==
    ASSUME store \in Stores
    PROVE  SourceInfoIsComplete
<1> DEFINE K == DOMAIN store.sources \cup SystemRepos
           all == getSourceConfigs(store)
<1>1. /\ DOMAIN all = K
      /\ \A r \in SystemRepos : all[r] = System[r]
      /\ \A k \in DOMAIN store.sources \ SystemRepos : all[k] = store.sources[k]
  BY DEF getSourceConfigs
<1>2. sourceInfoV1(store) = {[ID |-> k, Source |-> all[k]] : k \in K}
  BY <1>1 DEF sourceInfoV1
<1>3. sourceInfoV0(store) =
        {v0 \in [{x.Name : x \in Range(all)} -> Range(all)] : \A n \in DOMAIN v0 : v0[n].Name = n}
  BY DEF sourceInfoV0
<1>4. Range(all) = {all[k] : k \in K}
  BY <1>1 DEF Range
<1> HIDE DEF all, K
<1> DEFINE R == Range(all)
           N == {x.Name : x \in R}
           v == [n \in N |-> CHOOSE x \in R : x.Name = n]
<1>5. v \in sourceInfoV0(store)
  <2>1. \A n \in N : v[n] \in R /\ v[n].Name = n
    <3> TAKE n \in N
    <3>1. \E x \in R : x.Name = n
      OBVIOUS
    <3>2. v[n] = CHOOSE x \in R : x.Name = n
      OBVIOUS
    <3> HIDE DEF v, R, N
    <3> QED BY <3>1, <3>2
  <2>2. DOMAIN v = N /\ v \in [N -> R]
    BY <2>1
  <2> HIDE DEF v, N
  <2> QED BY <1>3, <2>1, <2>2 DEF N
<1>6. \A v0 \in sourceInfoV0(store) : DOMAIN v0 = N
  BY <1>3
<1>7. ASSUME NEW x \in sourceInfoV1(store) PROVE x.Source.Name \in N
  <2>1. PICK k \in K : x = [ID |-> k, Source |-> all[k]]
    BY <1>2
  <2>2. x.Source \in R
    BY <1>4, <2>1
  <2> HIDE DEF R
  <2> QED BY <2>2
<1> HIDE DEF v, N, R
<1>8. \A r \in SystemRepos : [ID |-> r, Source |-> System[r]] \in sourceInfoV1(store)
  BY <1>1, <1>2 DEF K
<1>9. \A k \in DOMAIN store.sources \ SystemRepos : [ID |-> k, Source |-> store.sources[k]] \in sourceInfoV1(store)
  BY <1>1, <1>2 DEF K
<1> QED BY <1>5, <1>6, <1>7, <1>8, <1>9 DEF SourceInfoIsComplete

-----------------------------------------------------------------------------
LEMMA PackageLists == Contents \cup {<<>>} \subseteq Seq(Package) /\ Answers \subseteq Seq(Package)
<1>1. <<>> \in Seq(Package)
  OBVIOUS
<1> QED BY <1>1, PackagesOK

\* Every blueprint of a store has a list of packages.
LEMMA StoredPackages ==
    ASSUME NEW s \in Stores
    PROVE  /\ \A n \in DOMAIN s.blueprints : s.blueprints[n].Packages \in Seq(Package)
           /\ \A n \in DOMAIN s.workspace : s.workspace[n].Packages \in Seq(Package)
<1>1. /\ \A n \in DOMAIN s.blueprints : s.blueprints[n] \in Valids
      /\ \A n \in DOMAIN s.workspace : s.workspace[n] \in Valids
  <2>1. s.blueprints \in PFun(AllNames, Valids) /\ s.workspace \in PFun(Names, Valids)
    BY StoreIs
  <2> QED BY <2>1, PFunIs
<1>2. \A bp \in Valids : bp.Packages \in Contents \cup {<<>>}
  BY DEF Valids, Blueprint
<1> QED BY <1>1, <1>2, PackageLists

(***************************************************************************)
(* What the handlers answer is exact, for stores, solver answers and pages *)
(* of any size: the diff of a commit and the workspace                     *)
(* (blueprintsDiffHandler), the binary search that freezes a blueprint     *)
(* (blueprintsFreezeHandler, setPkgEVRA), the pages of a list              *)
(* (blueprintsListHandler) and the list of sources (getSourceConfigs).     *)
(***************************************************************************)
THEOREM Queries == Spec => []QueriesAreExact
<1>1. IInv /\ FInv => QueriesAreExact
  <2> SUFFICES ASSUME IInv, FInv PROVE QueriesAreExact
    OBVIOUS
  <2>1. store \in Stores
    BY EmptyStoreIs DEF IInv, Good
  <2>2. DiffIsExact
    <3>1. ASSUME NEW n \in DOMAIN store.blueprints \cap DOMAIN store.workspace,
                 NamedOnce(store.blueprints[n].Packages), NamedOnce(store.workspace[n].Packages)
          PROVE  LET old == store.blueprints[n].Packages
                     new == store.workspace[n].Packages
                     d   == Diff(old, new)
                 IN  /\ Patched(old, d) = Range(new)
                     /\ \A x, y \in d : ({x.Old.Name, x.New.Name} \cap {y.Old.Name, y.New.Name}) \ {0} # {}
                                         => x = y
      <4>1. store.blueprints[n].Packages \in Seq(Package) /\ store.workspace[n].Packages \in Seq(Package)
        BY <2>1, StoredPackages
      <4> QED BY <3>1, <4>1, Differences, Zenon
    <3> QED BY <3>1, Zenon DEF DiffIsExact
  <2>3. FreezeIsExact
    <3>1. ASSUME NEW n \in DOMAIN store.blueprints, NEW deps \in Answers
          PROVE  LET old == GetBlueprint(store, n).Packages
                     all == Freeze(deps, old)
                 IN  all # {} /\ \A new \in all : \A k \in DOMAIN old : IsFrozen(deps, old[k], new[k])
      <4>1. GetBlueprint(store, n).Packages \in Seq(Package) /\ deps \in Seq(Package)
        BY <2>1, StoredPackages, PackageLists DEF GetBlueprint
      <4> QED BY <4>1, Freezing, Zenon
    <3> QED BY <3>1, Zenon DEF FreezeIsExact, IsFrozen
  <2>4. PagesTile
    <3>1. ListBlueprints(store) \in Seq(DOMAIN store.blueprints)
      BY ListIsSequence DEF FInv, ListBlueprints
    <3>2. Tiles(ListBlueprints(store))
      BY <3>1, Tiling
    <3>3. AnswersTile
      BY PackageLists, Tiling DEF AnswersTile
    <3> QED BY <3>2, <3>3 DEF PagesTile
  <2>5. SourceInfoIsComplete
    BY <2>1, SourcesComplete
  <2> QED BY <2>2, <2>3, <2>4, <2>5 DEF QueriesAreExact
<1> QED BY <1>1, Invariant, FinitelyMany, PTL
=============================================================================
