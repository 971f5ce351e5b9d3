------------------------ MODULE PartitionTablesProofs -----------------------
(***************************************************************************)
(* Proofs about PartitionTables, for any base tables, requests and         *)
(* restarts, and any size of an integer.                                   *)
(***************************************************************************)
EXTENDS PartitionTables, WellFoundedInduction, TLAPS

-----------------------------------------------------------------------------
(***************************************************************************)
(* The shape of partitions, handlers and manifests.                        *)
(***************************************************************************)
IsPartition(p) == p = [mount |-> p.mount, start |-> p.start, size |-> p.size, fs |-> p.fs]

IsHandler(h) == h = [pc |-> h.pc, ask |-> h.ask, own |-> h.own, parts |-> h.parts, size |-> h.size]

IsManifest(m) == m = [fstab |-> m.fstab, grub2 |-> m.grub2, size |-> m.size, sfdisk |-> m.sfdisk, mkfs |-> m.mkfs]

Shapes ==
    /\ req = [r \in Requests |-> req[r]]
    /\ manifest = [r \in Requests |-> manifest[r]]

(***************************************************************************)
(* What requests never change in the tables: mountpoints, and which        *)
(* filesystem a partition points to.                                       *)
(***************************************************************************)
IsTable(parts) == parts = [i \in DOMAIN parts |-> parts[i]] /\ \A i \in DOMAIN parts : IsPartition(parts[i])

SameFilesystems(old, new) ==
    /\ DOMAIN new = DOMAIN old
    /\ \A i \in DOMAIN old : new[i].mount = old[i].mount /\ new[i].fs = old[i].fs

Shared(table) == {table[i].mount : i \in {i \in DOMAIN table : table[i].fs = "shared"}}

TableIsKept == literal \in BaseTables /\ IsTable(shared) /\ SameFilesystems(literal, shared)

HeapIsOfTable ==
    /\ DOMAIN heap = Shared(literal) /\ heap = [m \in DOMAIN heap |-> heap[m]]
    /\ "/boot/efi" \in DOMAIN heap => heap["/boot/efi"] = Fixed

(***************************************************************************)
(* What a request holds: an array of its own has the filesystems of the    *)
(* table and new ones.                                                     *)
(***************************************************************************)
Holds(r) ==
    /\ IsHandler(req[r]) /\ req[r].pc \in Idle .. Finished /\ IsManifest(manifest[r])
    /\ req[r].pc # Idle => req[r].ask \in Asks /\ checkOptions(req[r].ask)
    /\ req[r].pc <= Mountpoints => ~req[r].own
    /\ req[r].own => IsTable(req[r].parts) /\ Shared(req[r].parts) \subseteq Shared(literal)

(***************************************************************************)
(* A request that runs alone: the shared filesystems have its UUIDs from   *)
(* the time it has set them, and what it has written agrees with them.     *)
(***************************************************************************)
UUIDsAreOwn(r) ==
    /\ req[r].pc > BootUUID /\ "/boot" \in DOMAIN heap => heap["/boot"] = <<r, "/boot">>
    /\ req[r].pc > Root /\ "/" \in DOMAIN heap => heap["/"] = <<r, "/">>

StagesAgree(r) ==
    /\ req[r].pc \in GRUB2 .. Mkfs => manifest[r].fstab = Filesystems(r)
    /\ req[r].pc \in Sfdisk .. Mkfs => manifest[r].grub2 \subseteq Filesystems(r)

ManifestAgrees(r) ==
    /\ manifest[r].fstab = manifest[r].mkfs
    /\ manifest[r].grub2 \subseteq manifest[r].mkfs
    /\ \A f \in manifest[r].mkfs : f[2] \in {Fixed, <<r, f[1]>>}

Alone(r) ==
    r \notin together => /\ Running(r) => UUIDsAreOwn(r) /\ StagesAgree(r)
                         /\ Done(r) => ManifestAgrees(r)

TogetherIsKnown == \A r, q \in Requests : Running(r) /\ Running(q) /\ r # q => r \in together

IInv ==
    /\ Shapes
    /\ TableIsKept /\ HeapIsOfTable
    /\ TogetherIsKnown
    /\ \A r \in Requests : Holds(r) /\ Alone(r)

(***************************************************************************)
(* A second layer: where partitions are.  A table for these mountpoints is *)
(* the base table, but for the size of its root partition, and a partition *)
(* for each mountpoint but the root behind it.                             *)
(***************************************************************************)
IsSeq(s, n) == s = [i \in 1 .. n |-> s[i]]

IsFor(parts, table, mounts) ==
    LET n == Len(parts)
        l == Len(table)
    IN  /\ n \in Nat /\ l <= n /\ IsSeq(parts, n)
        /\ \A i \in 1 .. n : parts[i].start \in Sectors /\ parts[i].size \in Sectors
        /\ \A i \in 1 .. l : /\ parts[i].mount = table[i].mount
                             /\ parts[i].mount # "/" => parts[i].size = table[i].size
        /\ \A i \in l + 1 .. n : parts[i].mount \in Allowed \ {"/"}
        /\ \A j \in DOMAIN mounts :
             mounts[j].mount # "/" => \E i \in l + 1 .. n : /\ parts[i].mount = mounts[j].mount
                                                          /\ parts[i].size = mounts[j].MinSize \div sectorSize
        /\ AsksOnce(mounts) => \A i, j \in l + 1 .. n : i # j => parts[i].mount # parts[j].mount
        /\ Total(OtherSizes(parts)) = Total(OtherSizes(table)) + Total(AskedSectors(mounts))

OnlyRoot(mounts) == \A i \in DOMAIN mounts : mounts[i].mount = "/"

\* partitions follow one another, as long as integers can hold their sectors
Before(parts, i) == Totals(OtherSizes(parts))[IF parts[i].mount = "/" THEN Len(parts) ELSE i - 1]

Placed(parts) == \A i \in 1 .. Len(parts) : parts[i].start = (FirstSector + Before(parts, i)) % Word

(***************************************************************************)
(* The root partition: the one of the source, one that an image of up to   *)
(* the largest size has left behind, or one that fills this image.         *)
(***************************************************************************)
RootAt(table) == CHOOSE i \in DOMAIN table : table[i].mount = "/"

Leftover(parts, table, bound) ==
    \/ parts[RootAt(table)].size = table[RootAt(table)].size
    \/ FirstSector + Spare + Total(OtherSizes(table)) + parts[RootAt(table)].size <= bound \div sectorSize

Fills(parts, table, size) == parts[RootAt(table)].start + parts[RootAt(table)].size + Spare = size \div sectorSize

TableIsFound ==
    /\ IsFor(shared, literal, <<>>)
    /\ ~misfit => Leftover(shared, literal, largest)
    /\ largest \in Sectors /\ restarts \in 0 .. Restarts

Handled(r) ==
    /\ req[r].size \in Sectors
    /\ req[r].pc > Mountpoints /\ req[r].own => IsFor(req[r].parts, literal, req[r].ask.mounts)
    /\ req[r].pc > Mountpoints /\ ~req[r].own => OnlyRoot(req[r].ask.mounts)
    /\ req[r].pc = TableSize /\ req[r].own /\ ~misfit => Leftover(req[r].parts, literal, largest)
    /\ Running(r) /\ req[r].pc > Offsets => Placed(Partitions(r))
    /\ Running(r) /\ ~misfit => /\ Fits(req[r].ask)
                                /\ ImageSize(req[r].ask) <= req[r].size /\ req[r].size <= largest
    /\ Running(r) /\ r \notin disturbed => ~misfit /\ ~Dwarfed(r) /\ req[r].size = ImageSize(req[r].ask)
    /\ Running(r) /\ req[r].pc > Root /\ ~misfit /\ (r \notin together \/ req[r].own) =>
         Fills(Partitions(r), literal, req[r].size)

Written(r) ==
    req[r].pc > Sfdisk =>
        /\ IsFor(Layout(r), literal, req[r].ask.mounts) /\ Placed(Layout(r))
        /\ r \notin disturbed /\ (r \notin together \/ req[r].own) =>
             manifest[r].size = ImageSize(req[r].ask) /\ Fills(Layout(r), literal, manifest[r].size)

LInv ==
    /\ TableIsFound
    /\ \A r \in Requests : Handled(r) /\ Written(r)

-----------------------------------------------------------------------------
(***************************************************************************)
(* The mountpoint of a partition with a filesystem is found in the table.  *)
(***************************************************************************)
LEMMA Least ==
    ASSUME NEW T \in SUBSET Nat, T # {}
    PROVE  \E t \in T : \A u \in T : t <= u
<1>1. PICK t \in T : \A u \in T : ~(<<u, t>> \in OpToRel(<, Nat))
  BY NatLessThanWellFounded, WFMin
<1>2. ASSUME NEW u \in T PROVE t <= u
  <2>1. u \in Nat /\ t \in Nat
    OBVIOUS
  <2>2. u < t => <<u, t>> \in OpToRel(<, Nat)
    BY <2>1 DEF OpToRel
  <2>3. ~(u < t)
    BY <1>1, <2>2, Zenon
  <2> QED BY <2>1, <2>3
<1> QED BY <1>2

LEMMA Found ==
    ASSUME NEW parts, NEW n \in Nat, DOMAIN parts = 1 .. n, NEW i \in 1 .. n
    PROVE  IndexOf(parts, parts[i].mount) # 0
<1> DEFINE I == {j \in 1 .. Len(parts) : parts[j].mount = parts[i].mount}
<1>1. Len(parts) = n
  OBVIOUS
<1>2. I \in SUBSET Nat /\ i \in I /\ \A j \in I : j # 0
  BY <1>1
<1>3. \E t \in I : \A u \in I : t <= u
  BY <1>2, Least
<1>4. Min(I) \in I
  BY <1>3 DEF Min
<1>5. IndexOf(parts, parts[i].mount) = Min(I)
  BY <1>2 DEF IndexOf, SelectInSeq
<1> QED BY <1>2, <1>4, <1>5

-----------------------------------------------------------------------------
(***************************************************************************)
(* Induction over the naturals, for a set in the place of a predicate.     *)
(***************************************************************************)
LEMMA Induction ==
    ASSUME NEW T \in SUBSET Nat, 0 \in T, \A n \in T : n + 1 \in T
    PROVE  \A n \in Nat : n \in T
<1> DEFINE U == Nat \ T
<1>1. SUFFICES ASSUME U # {} PROVE FALSE
  OBVIOUS
<1>2. PICK u \in U : \A v \in U : u <= v
  BY <1>1, Least
<1>3. u \in Nat /\ u # 0
  OBVIOUS
<1>4. u - 1 \in T
  BY <1>2, <1>3
<1>5. (u - 1) + 1 \in T
  BY <1>4
<1> QED BY <1>3, <1>5

(***************************************************************************)
(* What the loops over sizes compute.                                      *)
(***************************************************************************)
IsTotals(f, s, n) == f = [i \in 0 .. n |-> IF i = 0 THEN 0 ELSE f[i - 1] + s[i]]

LEMMA TotalsExist ==
    ASSUME NEW s
    PROVE  \A n \in Nat : \E f : IsTotals(f, s, n)
<1> DEFINE T == {n \in Nat : \E f : IsTotals(f, s, n)}
<1>1. 0 \in T
  <2> DEFINE f == [i \in 0 .. 0 |-> 0]
  <2>1. IsTotals(f, s, 0)
    BY DEF IsTotals
  <2> QED BY <2>1
<1>2. ASSUME NEW n \in T PROVE n + 1 \in T
  <2>1. PICK f : IsTotals(f, s, n)
    OBVIOUS
  <2> DEFINE g == [i \in 0 .. n + 1 |-> IF i = n + 1 THEN f[n] + s[n + 1] ELSE f[i]]
  <2>2. IsTotals(g, s, n + 1)
    BY <2>1 DEF IsTotals
  <2> QED BY <2>2
<1> HIDE DEF T
<1>3. T \in SUBSET Nat
  BY DEF T
<1>4. \A n \in Nat : n \in T
  BY <1>1, <1>2, <1>3, Induction
<1> QED BY <1>4 DEF T

IsSizes(s, n) == DOMAIN s = 1 .. n /\ \A i \in 1 .. n : s[i] \in Nat

LEMMA TotalsAre ==
    ASSUME NEW s, NEW n \in Nat, IsSizes(s, n)
    PROVE  /\ Len(s) = n /\ Total(s) = Totals(s)[n]
           /\ Totals(s)[0] = 0
           /\ \A i \in 1 .. n : Totals(s)[i] = Totals(s)[i - 1] + s[i]
           /\ \A i \in 0 .. n : Totals(s)[i] \in Nat
<1>1. Len(s) = n
  BY DEF IsSizes
<1>2. \E f : IsTotals(f, s, n)
  BY TotalsExist
<1>3. Totals(s) = CHOOSE f : f = [i \in 0 .. Len(s) |-> IF i = 0 THEN 0 ELSE f[i - 1] + s[i]]
  BY DEF Totals
<1>4. IsTotals(Totals(s), s, n)
  BY <1>1, <1>2, <1>3, Zenon DEF IsTotals
<1> DEFINE f == Totals(s)
<1> HIDE DEF f
<1>5. f[0] = 0 /\ \A i \in 1 .. n : f[i] = f[i - 1] + s[i]
  BY <1>4 DEF IsTotals, f
<1> DEFINE T == {i \in Nat : i <= n => f[i] \in Nat}
<1>6. 0 \in T
  BY <1>5
<1>7. ASSUME NEW i \in T PROVE i + 1 \in T
  <2>1. SUFFICES ASSUME i + 1 <= n PROVE f[i + 1] \in Nat
    OBVIOUS
  <2>2. f[i] \in Nat /\ i + 1 \in 1 .. n /\ (i + 1) - 1 = i
    BY <2>1
  <2> QED BY <2>2, <1>5 DEF IsSizes
<1> HIDE DEF T
<1>8. \A i \in Nat : i \in T
  <2>1. T \in SUBSET Nat
    BY DEF T
  <2> QED BY <1>6, <1>7, <2>1, Induction
<1>9. \A i \in 0 .. n : f[i] \in Nat
  BY <1>8 DEF T
<1> QED BY <1>1, <1>5, <1>9 DEF f, Total

LEMMA TotalsGrow ==
    ASSUME NEW s, NEW n \in Nat, IsSizes(s, n), NEW i \in 0 .. n, NEW j \in i .. n
    PROVE  Totals(s)[i] <= Totals(s)[j]
<1> DEFINE f == Totals(s)
           T == {k \in Nat : i + k <= n => f[i] <= f[i + k]}
<1>a. /\ \A k \in 1 .. n : f[k] = f[k - 1] + s[k]
      /\ \A k \in 0 .. n : f[k] \in Nat
  BY TotalsAre
<1> HIDE DEF f
<1>1. /\ \A k \in 1 .. n : f[k] = f[k - 1] + s[k] /\ s[k] \in Nat
      /\ \A k \in 0 .. n : f[k] \in Nat
  BY <1>a DEF IsSizes
<1>2. 0 \in T
  BY <1>1
<1>3. ASSUME NEW k \in T PROVE k + 1 \in T
  <2>1. SUFFICES ASSUME i + (k + 1) <= n PROVE f[i] <= f[i + (k + 1)]
    OBVIOUS
  <2>2. f[i] <= f[i + k] /\ i + (k + 1) \in 1 .. n /\ (i + (k + 1)) - 1 = i + k /\ i + k \in 0 .. n
    BY <2>1
  <2> QED BY <2>2, <1>1
<1>4. T \in SUBSET Nat
  OBVIOUS
<1> HIDE DEF T
<1>5. \A k \in Nat : k \in T
  BY <1>2, <1>3, <1>4, Induction
<1>6. j - i \in T
  BY <1>5
<1> QED BY <1>6 DEF T, f

\* sums that differ by the same at each position
LEMMA TotalsDiffer ==
    ASSUME NEW s, NEW t, NEW n \in Nat, IsSizes(s, n), NEW m \in 0 .. n, NEW l \in Nat, m <= l, IsSizes(t, l),
           \A i \in 1 .. m : t[i] = s[i]
    PROVE  \A i \in 0 .. m : Totals(t)[i] = Totals(s)[i]
<1> DEFINE f == Totals(s)
           g == Totals(t)
           T == {k \in Nat : k <= m => g[k] = f[k]}
<1>1. /\ f[0] = 0 /\ g[0] = 0
      /\ \A k \in 1 .. m : f[k] = f[k - 1] + s[k] /\ g[k] = g[k - 1] + t[k]
  BY TotalsAre
<1> HIDE DEF f, g
<1>2. 0 \in T
  BY <1>1
<1>3. ASSUME NEW k \in T PROVE k + 1 \in T
  <2>1. SUFFICES ASSUME k + 1 <= m PROVE g[k + 1] = f[k + 1]
    OBVIOUS
  <2>2. g[k] = f[k] /\ k + 1 \in 1 .. m /\ (k + 1) - 1 = k
    BY <2>1
  <2> QED BY <2>2, <1>1
<1>4. T \in SUBSET Nat
  OBVIOUS
<1> HIDE DEF T
<1>5. \A k \in Nat : k \in T
  BY <1>2, <1>3, <1>4, Induction
<1> QED BY <1>5 DEF T, f, g

\* one size more
LEMMA TotalOfNext ==
    ASSUME NEW s, NEW t, NEW n \in Nat, IsSizes(s, n), IsSizes(t, n + 1), \A i \in 1 .. n : t[i] = s[i]
    PROVE  Total(t) = Total(s) + t[n + 1]
<1>1. Totals(t)[n] = Totals(s)[n]
  BY TotalsDiffer
<1>2. Total(t) = Totals(t)[n + 1] /\ Total(s) = Totals(s)[n]
  BY TotalsAre
<1>3. Totals(t)[n + 1] = Totals(t)[(n + 1) - 1] + t[n + 1]
  BY TotalsAre
<1> QED BY <1>1, <1>2, <1>3

\* all but one size, and that one
LEMMA TotalOfOthers ==
    ASSUME NEW s, NEW t, NEW n \in Nat, IsSizes(s, n), IsSizes(t, n), NEW k \in 1 .. n,
           t[k] = 0, \A i \in 1 .. n : i # k => t[i] = s[i]
    PROVE  Total(s) = Total(t) + s[k]
<1> DEFINE f == Totals(s)
           g == Totals(t)
           T == {i \in Nat : i <= n => f[i] = g[i] + (IF i < k THEN 0 ELSE s[k])}
<1>a. /\ f[0] = 0 /\ g[0] = 0
      /\ \A i \in 1 .. n : f[i] = f[i - 1] + s[i] /\ g[i] = g[i - 1] + t[i]
      /\ \A i \in 0 .. n : f[i] \in Nat /\ g[i] \in Nat
  BY TotalsAre
<1> HIDE DEF f, g
<1>1. /\ f[0] = 0 /\ g[0] = 0
      /\ \A i \in 1 .. n : f[i] = f[i - 1] + s[i] /\ g[i] = g[i - 1] + t[i] /\ s[i] \in Nat /\ t[i] \in Nat
      /\ \A i \in 0 .. n : f[i] \in Nat /\ g[i] \in Nat
  BY <1>a DEF IsSizes
<1>2. 0 \in T
  BY <1>1
<1>3. ASSUME NEW i \in T PROVE i + 1 \in T
  <2>1. SUFFICES ASSUME i + 1 <= n PROVE f[i + 1] = g[i + 1] + (IF i + 1 < k THEN 0 ELSE s[k])
    OBVIOUS
  <2>2. f[i] = g[i] + (IF i < k THEN 0 ELSE s[k]) /\ i + 1 \in 1 .. n /\ (i + 1) - 1 = i /\ i \in 0 .. n
    BY <2>1
  <2>3. f[i + 1] = f[i] + s[i + 1] /\ g[i + 1] = g[i] + t[i + 1]
    BY <2>2, <1>1
  <2>4. f[i] \in Nat /\ g[i] \in Nat /\ s[i + 1] \in Nat /\ s[k] \in Nat
    BY <2>2, <1>1
  <2>5. CASE i + 1 = k
    BY <2>2, <2>3, <2>4, <2>5
  <2>6. CASE i + 1 # k
    BY <2>2, <2>3, <2>4, <2>6
  <2> QED BY <2>5, <2>6
<1>4. T \in SUBSET Nat
  OBVIOUS
<1> HIDE DEF T
<1>5. \A i \in Nat : i \in T
  BY <1>2, <1>3, <1>4, Induction
<1>6. f[n] = g[n] + s[k]
  BY <1>5 DEF T
<1> QED BY <1>6, TotalsAre DEF f, g

LEMMA TotalOfZeros ==
    ASSUME NEW s, NEW n \in Nat, IsSizes(s, n), \A i \in 1 .. n : s[i] = 0
    PROVE  Total(s) = 0
<1> DEFINE f == Totals(s)
           T == {i \in Nat : i <= n => f[i] = 0}
<1>1. f[0] = 0 /\ \A i \in 1 .. n : f[i] = f[i - 1] + s[i]
  BY TotalsAre
<1> HIDE DEF f
<1>2. 0 \in T
  BY <1>1
<1>3. ASSUME NEW i \in T PROVE i + 1 \in T
  <2>1. SUFFICES ASSUME i + 1 <= n PROVE f[i + 1] = 0
    OBVIOUS
  <2>2. f[i] = 0 /\ i + 1 \in 1 .. n /\ (i + 1) - 1 = i
    BY <2>1
  <2> QED BY <2>2, <1>1
<1>4. T \in SUBSET Nat
  OBVIOUS
<1> HIDE DEF T
<1>5. \A i \in Nat : i \in T
  BY <1>2, <1>3, <1>4, Induction
<1>6. f[n] = 0
  BY <1>5 DEF T
<1> QED BY <1>6, TotalsAre DEF f

-----------------------------------------------------------------------------
(***************************************************************************)
(* Arithmetic of machine integers and of sectors.                          *)
(***************************************************************************)
LEMMA ModSmall ==
    ASSUME NEW w \in Nat \ {0}, NEW x \in 0 .. w - 1
    PROVE  x % w = x
  OBVIOUS

LEMMA ModIn ==
    ASSUME NEW w \in Nat \ {0}, NEW x \in Int
    PROVE  x % w \in 0 .. w - 1
  OBVIOUS

LEMMA DivIs ==
    ASSUME NEW s \in Nat \ {0}, NEW x \in Nat
    PROVE  x \div s \in Nat /\ x \div s <= x
  OBVIOUS

LEMMA DivMono ==
    ASSUME NEW s \in Nat \ {0}, NEW x \in Nat, NEW y \in Nat, x <= y
    PROVE  x \div s <= y \div s
  OBVIOUS

LEMMA DivTwice ==
    ASSUME NEW s \in Nat \ {0, 1}, NEW x \in Nat
    PROVE  2 * (x \div s) <= x
  OBVIOUS

LEMMA DivSum ==
    ASSUME NEW s \in Nat \ {0, 1}, NEW x \in Nat, NEW y \in Nat, x <= (s - 1) * y
    PROVE  x \div s + y \div s <= y
  OBVIOUS

-----------------------------------------------------------------------------
(***************************************************************************)
(* What the loop over the mountpoints builds: behind the n partitions of   *)
(* the table one for each of the first k mountpoints but the root.         *)
(***************************************************************************)
Added(r, m, parts) == IF m.mount = "/" THEN parts ELSE Append(parts, createPartition(r, m))

IsAfter(f, r, table, mounts, n) == f = [i \in 0 .. n |-> IF i = 0 THEN table ELSE Added(r, mounts[i], f[i - 1])]

LEMMA AfterExists ==
    ASSUME NEW r, NEW table, NEW mounts
    PROVE  \A n \in Nat : \E f : IsAfter(f, r, table, mounts, n)
<1> DEFINE T == {n \in Nat : \E f : IsAfter(f, r, table, mounts, n)}
<1>1. 0 \in T
  <2> DEFINE f == [i \in 0 .. 0 |-> table]
  <2>1. IsAfter(f, r, table, mounts, 0)
    BY DEF IsAfter
  <2> QED BY <2>1
<1>2. ASSUME NEW n \in T PROVE n + 1 \in T
  <2>1. PICK f : IsAfter(f, r, table, mounts, n)
    OBVIOUS
  <2> DEFINE g == [i \in 0 .. n + 1 |-> IF i = n + 1 THEN Added(r, mounts[i], f[n]) ELSE f[i]]
  <2>2. IsAfter(g, r, table, mounts, n + 1)
    BY <2>1 DEF IsAfter
  <2> QED BY <2>2
<1> HIDE DEF T
<1>3. T \in SUBSET Nat
  BY DEF T
<1>4. \A n \in Nat : n \in T
  BY <1>1, <1>2, <1>3, Induction
<1> QED BY <1>4 DEF T

IsLonger(q, p, n, e) == IsSeq(q, n + 1) /\ q[n + 1] = e /\ \A i \in 1 .. n : q[i] = p[i]

LEMMA AppendIs ==
    ASSUME NEW p, NEW n \in Nat, IsSeq(p, n), NEW e
    PROVE  IsLonger(Append(p, e), p, n, e)
<1> DEFINE S == {p[i] : i \in 1 .. n} \cup {e}
           q == Append(p, e)
<1>1. p \in Seq(S) /\ e \in S
  BY DEF IsSeq
<1>2. Len(p) = n
  BY DEF IsSeq
<1> HIDE DEF S
<1>3. q \in Seq(S) /\ Len(q) = n + 1 /\ \A i \in 1 .. n + 1 : q[i] = IF i = n + 1 THEN e ELSE p[i]
  BY <1>1, <1>2
<1> HIDE DEF q
<1>4. IsSeq(q, n + 1)
  BY <1>3 DEF IsSeq
<1>5. IsLonger(q, p, n, e)
  BY <1>3, <1>4 DEF IsLonger
<1> QED BY <1>5 DEF q

AreSizes(mounts, m) ==
    DOMAIN mounts = 1 .. m /\ \A i \in 1 .. m : mounts[i].MinSize \in Nat

LEMMA AskedAreSizes ==
    ASSUME NEW mounts, NEW m \in Nat, AreSizes(mounts, m)
    PROVE  /\ IsSizes(AskedSectors(mounts), m)
           /\ \A i \in 1 .. m : /\ mounts[i].mount = "/" => AskedSectors(mounts)[i] = 0
                                /\ mounts[i].mount # "/" => AskedSectors(mounts)[i] = mounts[i].MinSize \div sectorSize
           /\ \A i \in 1 .. m : mounts[i].MinSize \div sectorSize \in Nat
<1>1. \A i \in 1 .. m : mounts[i].MinSize \div sectorSize \in Nat
  BY DivIs, ScaleAssumption DEF AreSizes
<1> QED BY <1>1 DEF AreSizes, AskedSectors, IsSizes

LEMMA AskIs ==
    ASSUME NEW ask \in Asks
    PROVE  LET m == Len(ask.mounts)
           IN  /\ m \in Nat /\ AreSizes(ask.mounts, m) /\ ask.Size \in Sectors
               /\ \A i \in 1 .. m : ask.mounts[i].MinSize \in Sectors
<1>1. ask.mounts \in Seq(Range(ask.mounts)) /\ \A i \in DOMAIN ask.mounts : ask.mounts[i].MinSize \in Sectors
  BY AsksAssumption
<1>2. Len(ask.mounts) \in Nat /\ DOMAIN ask.mounts = 1 .. Len(ask.mounts)
  BY <1>1
<1>3. Sectors \subseteq Nat
  BY ScaleAssumption DEF Sectors
<1>4. ask.Size \in Sectors
  BY AsksAssumption
<1> QED BY <1>1, <1>2, <1>3, <1>4 DEF AreSizes

IsBuilt(p, n, r, table, l, mounts, k) ==
    /\ n \in Nat /\ l <= n /\ IsSeq(p, n)
    /\ \A i \in 1 .. l : p[i] = table[i]
    /\ \A i \in l + 1 .. n : \E j \in 1 .. k : mounts[j].mount # "/" /\ p[i] = createPartition(r, mounts[j])
    /\ \A j \in 1 .. k : mounts[j].mount # "/" => \E i \in l + 1 .. n : p[i] = createPartition(r, mounts[j])
    /\ AsksOnce(mounts) => \A i, j \in l + 1 .. n : i # j => p[i].mount # p[j].mount
    /\ (\A i \in 1 .. l : table[i].size \in Nat) =>
         Total(OtherSizes(p)) = Total(OtherSizes(table)) + Totals(AskedSectors(mounts))[k]

LEMMA OthersAreSizes ==
    ASSUME NEW p, NEW n \in Nat, IsSeq(p, n), \A i \in 1 .. n : p[i].size \in Nat
    PROVE  IsSizes(OtherSizes(p), n) /\ IsSizes(Sizes(p), n)
<1>1. DOMAIN p = 1 .. n
  BY DEF IsSeq
<1> QED BY <1>1 DEF IsSizes, OtherSizes, Sizes

LEMMA BuiltAreSizes ==
    ASSUME NEW p, NEW n, NEW r, NEW table, NEW l \in Nat, NEW mounts, NEW m \in Nat, NEW k \in 0 .. m,
           IsBuilt(p, n, r, table, l, mounts, k), AreSizes(mounts, m), \A i \in 1 .. l : table[i].size \in Nat
    PROVE  \A i \in 1 .. n : p[i].size \in Nat
<1>1. \A i \in 1 .. m : createPartition(r, mounts[i]).size \in Nat
  BY AskedAreSizes DEF createPartition
<1>2. ASSUME NEW i \in l + 1 .. n PROVE p[i].size \in Nat
  BY <1>1 DEF IsBuilt
<1>3. ASSUME NEW i \in 1 .. l PROVE p[i].size \in Nat
  BY DEF IsBuilt
<1>4. n \in Nat
  BY DEF IsBuilt
<1> QED BY <1>2, <1>3, <1>4

LEMMA BuiltNext ==
    ASSUME NEW p, NEW n, NEW r, NEW table, NEW l \in Nat, NEW mounts, NEW m \in Nat, NEW k \in 0 .. m - 1,
           IsSeq(table, l), IsBuilt(p, n, r, table, l, mounts, k), AreSizes(mounts, m), mounts[k + 1].mount # "/"
    PROVE  IsBuilt(Append(p, createPartition(r, mounts[k + 1])), n + 1, r, table, l, mounts, k + 1)
<1> DEFINE e == createPartition(r, mounts[k + 1])
           q == Append(p, e)
<1>1. n \in Nat /\ l <= n /\ IsSeq(p, n)
  BY DEF IsBuilt
<1>2. IsSeq(q, n + 1) /\ q[n + 1] = e /\ \A i \in 1 .. n : q[i] = p[i]
  <2> HIDE DEF e
  <2>1. IsLonger(q, p, n, e)
    BY <1>1, AppendIs, Zenon
  <2> HIDE DEF q
  <2> QED BY <2>1 DEF IsLonger
<1> HIDE DEF q
<1>3. \A i \in 1 .. l : q[i] = table[i]
  BY <1>1, <1>2 DEF IsBuilt
<1>4. ASSUME NEW i \in l + 1 .. n + 1
      PROVE  \E j \in 1 .. k + 1 : mounts[j].mount # "/" /\ q[i] = createPartition(r, mounts[j])
  <2>1. CASE i = n + 1
    BY <1>2, <2>1
  <2>2. CASE i # n + 1
    <3>1. i \in l + 1 .. n /\ q[i] = p[i]
      BY <1>1, <1>2, <2>2
    <3>2. PICK j \in 1 .. k : mounts[j].mount # "/" /\ p[i] = createPartition(r, mounts[j])
      BY <3>1 DEF IsBuilt
    <3> QED BY <3>1, <3>2
  <2> QED BY <2>1, <2>2
<1>5. ASSUME NEW j \in 1 .. k + 1, mounts[j].mount # "/"
      PROVE  \E i \in l + 1 .. n + 1 : q[i] = createPartition(r, mounts[j])
  <2>1. CASE j = k + 1
    BY <1>1, <1>2, <2>1
  <2>2. CASE j # k + 1
    <3>1. PICK i \in l + 1 .. n : p[i] = createPartition(r, mounts[j])
      BY <1>5, <2>2 DEF IsBuilt
    <3> QED BY <1>1, <1>2, <3>1
  <2> QED BY <2>1, <2>2
<1>6. ASSUME AsksOnce(mounts), NEW i \in l + 1 .. n + 1, NEW j \in l + 1 .. n + 1, i # j
      PROVE  q[i].mount # q[j].mount
  <2>1. ASSUME NEW x \in l + 1 .. n PROVE q[x].mount # e.mount
    <3>1. PICK y \in 1 .. k : mounts[y].mount # "/" /\ p[x] = createPartition(r, mounts[y])
      BY DEF IsBuilt
    <3>2. mounts[y].mount # mounts[k + 1].mount
      BY <1>6, <3>1 DEF AsksOnce, AreSizes
    <3>3. q[x] = p[x]
      BY <1>1, <1>2
    <3> QED BY <3>1, <3>2, <3>3 DEF createPartition
  <2> HIDE DEF e
  <2>2. CASE i # n + 1 /\ j # n + 1
    <3>1. i \in l + 1 .. n /\ j \in l + 1 .. n /\ q[i] = p[i] /\ q[j] = p[j]
      BY <1>1, <1>2, <2>2
    <3>2. p[i].mount # p[j].mount
      BY <1>6, <3>1 DEF IsBuilt
    <3> QED BY <3>1, <3>2
  <2>3. CASE i = n + 1
    <3>1. j \in l + 1 .. n
      BY <1>1, <1>6, <2>3
    <3> QED BY <1>2, <2>1, <2>3, <3>1
  <2>4. CASE j = n + 1
    <3>1. i \in l + 1 .. n
      BY <1>1, <1>6, <2>4
    <3> QED BY <1>2, <2>1, <2>4, <3>1
  <2> QED BY <2>2, <2>3, <2>4
<1>7. ASSUME \A i \in 1 .. l : table[i].size \in Nat
      PROVE  Total(OtherSizes(q)) = Total(OtherSizes(table)) + Totals(AskedSectors(mounts))[k + 1]
  <2> DEFINE a == AskedSectors(mounts)
             s == OtherSizes(p)
             u == OtherSizes(q)
  <2>1. Total(s) = Total(OtherSizes(table)) + Totals(a)[k]
    BY <1>7 DEF IsBuilt
  <2>2. \A i \in 1 .. n : p[i].size \in Nat
    <3>1. k \in 0 .. m
      OBVIOUS
    <3> QED BY <1>7, <3>1, BuiltAreSizes
  <2>3. e.size = a[k + 1] /\ e.size \in Nat /\ e.mount # "/"
    <3>1. e.size = mounts[k + 1].MinSize \div sectorSize /\ e.mount = mounts[k + 1].mount
      BY DEF createPartition
    <3>2. k + 1 \in 1 .. m
      OBVIOUS
    <3>3. a[k + 1] = mounts[k + 1].MinSize \div sectorSize /\ mounts[k + 1].MinSize \div sectorSize \in Nat
      BY <3>2, AskedAreSizes
    <3> QED BY <3>1, <3>3
  <2> HIDE DEF e
  <2>4. \A i \in 1 .. n + 1 : q[i].size \in Nat
    BY <1>1, <1>2, <2>2, <2>3
  <2>5. IsSizes(s, n) /\ IsSizes(u, n + 1)
    <3>1. n + 1 \in Nat
      BY <1>1
    <3> QED BY <1>1, <1>2, <2>2, <2>4, <3>1, OthersAreSizes
  <2>6. u[n + 1] = a[k + 1] /\ \A i \in 1 .. n : u[i] = s[i]
    <3>1. DOMAIN q = 1 .. n + 1 /\ DOMAIN p = 1 .. n
      BY <1>1, <1>2 DEF IsSeq
    <3> HIDE DEF a
    <3> QED BY <1>1, <1>2, <2>3, <3>1 DEF OtherSizes
  <2>7. IsSizes(a, m)
    BY AskedAreSizes
  <2> HIDE DEF a, s, u
  <2>8. Total(u) = Total(s) + u[n + 1]
    BY <1>1, <2>5, <2>6, TotalOfNext
  <2>9. /\ \A i \in 1 .. m : Totals(a)[i] = Totals(a)[i - 1] + a[i]
        /\ \A i \in 0 .. m : Totals(a)[i] \in Nat
    BY <2>7, TotalsAre
  <2>10. Totals(a)[k + 1] = Totals(a)[k] + a[k + 1] /\ Totals(a)[k] \in Nat /\ a[k + 1] \in Nat
    BY <2>7, <2>9 DEF IsSizes
  <2>11. Total(OtherSizes(table)) \in Nat
    <3>1. IsSizes(OtherSizes(table), l)
      BY <1>7, OthersAreSizes
    <3> QED BY <3>1, TotalsAre
  <2> QED BY <2>1, <2>6, <2>8, <2>10, <2>11 DEF a, u
<1>8. n + 1 \in Nat /\ l <= n + 1
  BY <1>1
<1>9. IsBuilt(q, n + 1, r, table, l, mounts, k + 1)
  BY <1>2, <1>3, <1>4, <1>5, <1>6, <1>7, <1>8, Zenon DEF IsBuilt
<1> QED BY <1>9 DEF q

LEMMA BuiltSame ==
    ASSUME NEW p, NEW n, NEW r, NEW table, NEW l \in Nat, NEW mounts, NEW m \in Nat, NEW k \in 0 .. m - 1,
           IsBuilt(p, n, r, table, l, mounts, k), AreSizes(mounts, m), mounts[k + 1].mount = "/"
    PROVE  IsBuilt(p, n, r, table, l, mounts, k + 1)
<1> DEFINE a == AskedSectors(mounts)
<1>1. IsSizes(a, m) /\ a[k + 1] = 0
  BY AskedAreSizes
<1> HIDE DEF a
<1>2. /\ \A i \in 1 .. m : Totals(a)[i] = Totals(a)[i - 1] + a[i]
      /\ \A i \in 0 .. m : Totals(a)[i] \in Nat
  BY <1>1, TotalsAre
<1>3. Totals(a)[k + 1] = Totals(a)[k]
  BY <1>1, <1>2
<1>4. \A i \in l + 1 .. n : \E j \in 1 .. k + 1 : mounts[j].mount # "/" /\ p[i] = createPartition(r, mounts[j])
  BY DEF IsBuilt
<1>5. \A j \in 1 .. k + 1 : mounts[j].mount # "/" => \E i \in l + 1 .. n : p[i] = createPartition(r, mounts[j])
  BY DEF IsBuilt
<1> QED BY <1>3, <1>4, <1>5 DEF IsBuilt, a

LEMMA AppendedIs ==
    ASSUME NEW r, NEW table, NEW l \in Nat, IsSeq(table, l), NEW mounts, NEW m \in Nat, AreSizes(mounts, m)
    PROVE  \E n \in Nat : IsBuilt(Appended(r, table, mounts), n, r, table, l, mounts, m)
<1>1. Len(mounts) = m
  BY DEF AreSizes
<1>2. \E f : IsAfter(f, r, table, mounts, m)
  BY AfterExists
<1> DEFINE f == CHOOSE f : IsAfter(f, r, table, mounts, m)
<1>3. IsAfter(f, r, table, mounts, m)
  BY <1>2
<1>4. Appended(r, table, mounts) = f[m]
  BY <1>1 DEF Appended, IsAfter, Added
<1> HIDE DEF f
<1>5. /\ f[0] = table
      /\ \A i \in 1 .. m : f[i] = Added(r, mounts[i], f[i - 1])
  BY <1>3 DEF IsAfter
<1> DEFINE T == {k \in Nat : k <= m => \E n \in Nat : IsBuilt(f[k], n, r, table, l, mounts, k)}
<1>6. 0 \in T
  <2>1. IsSizes(AskedSectors(mounts), m)
    BY AskedAreSizes
  <2>2. Totals(AskedSectors(mounts))[0] = 0
    BY <2>1, TotalsAre
  <2>3. ASSUME \A i \in 1 .. l : table[i].size \in Nat
        PROVE  Total(OtherSizes(table)) = Total(OtherSizes(table)) + Totals(AskedSectors(mounts))[0]
    <3>1. IsSizes(OtherSizes(table), l)
      BY <2>3, OthersAreSizes
    <3>2. Total(OtherSizes(table)) \in Nat
      BY <3>1, TotalsAre
    <3> QED BY <2>2, <3>2
  <2>4. IsBuilt(table, l, r, table, l, mounts, 0)
    BY <2>3 DEF IsBuilt
  <2> QED BY <1>5, <2>4
<1>7. ASSUME NEW k \in T PROVE k + 1 \in T
  <2>1. SUFFICES ASSUME k + 1 <= m PROVE \E n \in Nat : IsBuilt(f[k + 1], n, r, table, l, mounts, k + 1)
    OBVIOUS
  <2>2. k \in 0 .. m - 1 /\ k + 1 \in 1 .. m /\ (k + 1) - 1 = k
    BY <2>1
  <2>3. PICK n \in Nat : IsBuilt(f[k], n, r, table, l, mounts, k)
    BY <2>2
  <2>4. f[k + 1] = Added(r, mounts[k + 1], f[k])
    BY <1>5, <2>2
  <2> HIDE DEF T
  <2>5. CASE mounts[k + 1].mount = "/"
    <3>1. IsBuilt(f[k], n, r, table, l, mounts, k + 1)
      BY <2>2, <2>3, <2>5, BuiltSame
    <3> QED BY <2>4, <2>5, <3>1, Zenon DEF Added
  <2>6. CASE mounts[k + 1].mount # "/"
    <3>1. IsBuilt(Append(f[k], createPartition(r, mounts[k + 1])), n + 1, r, table, l, mounts, k + 1)
      BY <2>2, <2>3, <2>6, BuiltNext
    <3>2. n + 1 \in Nat
      OBVIOUS
    <3> QED BY <2>4, <2>6, <3>1, <3>2, Zenon DEF Added
  <2> QED BY <2>5, <2>6
<1>8. T \in SUBSET Nat
  OBVIOUS
<1> HIDE DEF T
<1>9. \A k \in Nat : k \in T
  BY <1>6, <1>7, <1>8, Induction
<1>10. m \in T
  BY <1>9
<1> QED BY <1>4, <1>10 DEF T

-----------------------------------------------------------------------------
(***************************************************************************)
(* What the steps do to an array of partitions.                            *)
(***************************************************************************)
LEMMA OffsetsKeep ==
    ASSUME NEW parts, NEW start, IsTable(parts)
    PROVE  LET new == updatePartitionStartPointOffsets(parts, start)
           IN  IsTable(new) /\ SameFilesystems(parts, new)
<1> DEFINE before(i) == Totals(OtherSizes(parts))[IF parts[i].mount = "/" THEN Len(parts) ELSE i - 1]
           at(i) == (start + before(i)) % Word
           new == [i \in DOMAIN parts |-> [parts[i] EXCEPT !.start = at(i)]]
<1>1. updatePartitionStartPointOffsets(parts, start) = new
  BY DEF updatePartitionStartPointOffsets
<1>2. DOMAIN new = DOMAIN parts /\ \A i \in DOMAIN parts : new[i] = [parts[i] EXCEPT !.start = at(i)]
  OBVIOUS
<1>3. new = [i \in DOMAIN new |-> new[i]]
  OBVIOUS
<1> HIDE DEF at, new
<1>4. ASSUME NEW i \in DOMAIN parts
      PROVE  IsPartition(new[i]) /\ new[i].mount = parts[i].mount /\ new[i].fs = parts[i].fs
  BY <1>2 DEF IsTable, IsPartition
<1> QED BY <1>1, <1>2, <1>3, <1>4 DEF IsTable, SameFilesystems

LEMMA RootKeeps ==
    ASSUME NEW parts, NEW k, NEW size, IsTable(parts)
    PROVE  LET new == [parts EXCEPT ![k].size = size]
           IN  IsTable(new) /\ SameFilesystems(parts, new)
<1> DEFINE new == [parts EXCEPT ![k].size = size]
<1>1. DOMAIN new = DOMAIN parts /\ new = [i \in DOMAIN new |-> new[i]]
  OBVIOUS
<1>2. ASSUME NEW i \in DOMAIN parts
      PROVE  IsPartition(new[i]) /\ new[i].mount = parts[i].mount /\ new[i].fs = parts[i].fs
  BY DEF IsTable, IsPartition
<1> HIDE DEF new
<1>3. IsTable(new) /\ SameFilesystems(parts, new)
  BY <1>1, <1>2 DEF IsTable, SameFilesystems
<1> QED BY <1>3 DEF new

LEMMA SharedIsKept ==
    ASSUME NEW old, NEW new, SameFilesystems(old, new)
    PROVE  Shared(new) = Shared(old)
  BY DEF SameFilesystems, Shared

LEMMA SameIsTransitive ==
    ASSUME NEW a, NEW b, NEW c, SameFilesystems(a, b), SameFilesystems(b, c)
    PROVE  SameFilesystems(a, c)
  BY DEF SameFilesystems

-----------------------------------------------------------------------------
(***************************************************************************)
(* The table as it stands in the source.                                   *)
(***************************************************************************)
LEMMA LiteralIsTable ==
    ASSUME literal \in BaseTables
    PROVE  /\ IsTable(literal) /\ SameFilesystems(literal, literal)
           /\ \E n \in Nat : DOMAIN literal = 1 .. n
           /\ \A i \in DOMAIN literal : literal[i].fs \in {"none", "shared"}
           /\ Shared(literal) \subseteq {"/", "/boot", "/boot/efi"}
<1>1. literal \in Seq(Range(literal))
  BY TablesAssumption
<1>2. literal = [i \in DOMAIN literal |-> literal[i]] /\ Len(literal) \in Nat /\ DOMAIN literal = 1 .. Len(literal)
  BY <1>1
<1>3. ASSUME NEW i \in DOMAIN literal
      PROVE  /\ IsPartition(literal[i]) /\ literal[i].fs \in {"none", "shared"}
             /\ literal[i].fs = "shared" => literal[i].mount \in {"/", "/boot", "/boot/efi"}
  <2>1. literal[i] = [mount |-> literal[i].mount, start |-> 0, size |-> literal[i].size, fs |-> literal[i].fs]
    BY TablesAssumption
  <2>2. literal[i].start = 0
    BY <2>1
  <2>3. IsPartition(literal[i])
    BY <2>1, <2>2 DEF IsPartition
  <2> QED BY <2>3, TablesAssumption
<1> QED BY <1>2, <1>3 DEF IsTable, SameFilesystems, Shared

LEMMA LiteralHeap ==
    ASSUME literal \in BaseTables
    PROVE  LET h == LiteralUUIDs(literal)
           IN  /\ DOMAIN h = Shared(literal) /\ h = [m \in DOMAIN h |-> h[m]]
               /\ "/boot/efi" \in DOMAIN h => h["/boot/efi"] = Fixed
<1> DEFINE h == LiteralUUIDs(literal)
           D == {p.mount : p \in {p \in ToSet(literal) : HasFilesystem(p)}}
<1>1. D = Shared(literal)
  <2>1. D \subseteq Shared(literal)
    BY LiteralIsTable DEF ToSet, HasFilesystem, Shared
  <2>2. Shared(literal) \subseteq D
    BY LiteralIsTable DEF ToSet, HasFilesystem, Shared
  <2> QED BY <2>1, <2>2
<1>2. h = [m \in D |-> IF m = "/boot/efi" THEN Fixed ELSE NoUUID]
  BY DEF LiteralUUIDs
<1> HIDE DEF h, D
<1>3. DOMAIN h = D /\ h = [m \in DOMAIN h |-> h[m]] /\ ("/boot/efi" \in D => h["/boot/efi"] = Fixed)
  BY <1>2
<1>4. DOMAIN h = Shared(literal) /\ h = [m \in DOMAIN h |-> h[m]] /\ ("/boot/efi" \in DOMAIN h => h["/boot/efi"] = Fixed)
  BY <1>1, <1>3
<1> QED BY <1>4 DEF h

-----------------------------------------------------------------------------
(***************************************************************************)
(* The root partition of the source, and of every table made from it.      *)
(***************************************************************************)
LEMMA SectorsAre == Sectors \subseteq Nat /\ 0 \in Sectors /\ \A x \in Nat : x \in Sectors <=> x < Word
  BY ScaleAssumption DEF Sectors

LEMMA LiteralIs ==
    ASSUME literal \in BaseTables
    PROVE  /\ Len(literal) \in Nat /\ IsSeq(literal, Len(literal)) /\ DOMAIN literal = 1 .. Len(literal)
           /\ \A i \in 1 .. Len(literal) : /\ literal[i].size \in Sectors /\ literal[i].start = 0
                                           /\ literal[i].mount \in {"/", "/boot", "/boot/efi", Raw}
           /\ \A i, j \in 1 .. Len(literal) : i # j /\ literal[i].mount # Raw => literal[i].mount # literal[j].mount
<1>1. literal \in Seq(Range(literal))
  BY TablesAssumption
<1>2. Len(literal) \in Nat /\ DOMAIN literal = 1 .. Len(literal) /\ literal = [i \in DOMAIN literal |-> literal[i]]
  BY <1>1
<1>3. ASSUME NEW i \in DOMAIN literal
      PROVE  /\ literal[i].size \in Sectors /\ literal[i].start = 0
             /\ literal[i].mount \in {"/", "/boot", "/boot/efi", Raw}
  <2>1. literal[i] = [mount |-> literal[i].mount, start |-> 0, size |-> literal[i].size, fs |-> literal[i].fs]
    BY TablesAssumption
  <2>2. literal[i].start = 0
    BY <2>1
  <2> QED BY <2>2, TablesAssumption
<1>4. \A i, j \in DOMAIN literal : i # j /\ literal[i].mount # Raw => literal[i].mount # literal[j].mount
  BY TablesAssumption
<1>5. IsSeq(literal, Len(literal))
  BY <1>2 DEF IsSeq
<1> QED BY <1>2, <1>3, <1>4, <1>5

LEMMA RootIsOne ==
    ASSUME literal \in BaseTables
    PROVE  RootAt(literal) \in 1 .. Len(literal) /\ \A i \in 1 .. Len(literal) : literal[i].mount = "/" <=> i = RootAt(literal)
<1>1. \E i \in DOMAIN literal : literal[i].mount = "/"
  BY TablesAssumption
<1>2. RootAt(literal) \in DOMAIN literal /\ literal[RootAt(literal)].mount = "/"
  BY <1>1 DEF RootAt
<1>3. Raw # "/"
  BY DEF Raw
<1>4. /\ DOMAIN literal = 1 .. Len(literal)
      /\ \A i, j \in 1 .. Len(literal) : i # j /\ literal[i].mount # Raw => literal[i].mount # literal[j].mount
  BY LiteralIs
<1> QED BY <1>2, <1>3, <1>4

LEMMA ForIs ==
    ASSUME NEW parts, NEW mounts, IsFor(parts, literal, mounts)
    PROVE  /\ Len(parts) \in Nat /\ Len(literal) <= Len(parts) /\ IsSeq(parts, Len(parts))
           /\ DOMAIN parts = 1 .. Len(parts)
           /\ \A i \in 1 .. Len(parts) : parts[i].start \in Sectors /\ parts[i].size \in Sectors
           /\ \A i \in 1 .. Len(literal) : /\ parts[i].mount = literal[i].mount
                                           /\ parts[i].mount # "/" => parts[i].size = literal[i].size
           /\ \A i \in Len(literal) + 1 .. Len(parts) : parts[i].mount \in Allowed /\ parts[i].mount # "/"
           /\ Total(OtherSizes(parts)) = Total(OtherSizes(literal)) + Total(AskedSectors(mounts))
<1>1. Len(parts) \in Nat /\ IsSeq(parts, Len(parts))
  BY DEF IsFor
<1>2. DOMAIN parts = 1 .. Len(parts)
  BY <1>1 DEF IsSeq
<1> QED BY <1>1, <1>2 DEF IsFor

LEMMA RootIsFound ==
    ASSUME literal \in BaseTables, NEW parts, NEW mounts, IsFor(parts, literal, mounts)
    PROVE  /\ RootAt(literal) \in 1 .. Len(parts) /\ \A i \in 1 .. Len(parts) : parts[i].mount = "/" <=> i = RootAt(literal)
           /\ IndexOf(parts, "/") = RootAt(literal)
<1>1. Len(literal) \in Nat
  BY LiteralIs
<1>2. RootAt(literal) \in 1 .. Len(literal) /\ \A i \in 1 .. Len(literal) : literal[i].mount = "/" <=> i = RootAt(literal)
  BY RootIsOne
<1>3. /\ Len(parts) \in Nat /\ Len(literal) <= Len(parts)
      /\ \A i \in 1 .. Len(literal) : parts[i].mount = literal[i].mount
      /\ \A i \in Len(literal) + 1 .. Len(parts) : parts[i].mount # "/"
  BY ForIs
<1>4. RootAt(literal) \in 1 .. Len(parts) /\ \A i \in 1 .. Len(parts) : parts[i].mount = "/" <=> i = RootAt(literal)
  BY <1>1, <1>2, <1>3
<1> DEFINE I == {i \in 1 .. Len(parts) : parts[i].mount = "/"}
<1>5. IndexOf(parts, "/") = IF I = {} THEN 0 ELSE Min(I)
  BY DEF IndexOf, SelectInSeq
<1>6. I = {RootAt(literal)} /\ RootAt(literal) \in Nat
  BY <1>4
<1> HIDE DEF I
<1>7. Min(I) = RootAt(literal)
  BY <1>6 DEF Min
<1> QED BY <1>4, <1>5, <1>6, <1>7

LEMMA ForTotals ==
    ASSUME literal \in BaseTables, NEW parts, NEW mounts, IsFor(parts, literal, mounts)
    PROVE  /\ IsSizes(OtherSizes(parts), Len(parts)) /\ IsSizes(Sizes(parts), Len(parts))
           /\ Total(OtherSizes(parts)) \in Nat
           /\ Total(Sizes(parts)) = Total(OtherSizes(parts)) + parts[RootAt(literal)].size
<1> DEFINE n == Len(parts)
           s == Sizes(parts)
           u == OtherSizes(parts)
<1>1. /\ n \in Nat /\ IsSeq(parts, n) /\ DOMAIN parts = 1 .. n
      /\ \A i \in 1 .. n : parts[i].size \in Sectors
  BY ForIs
<1>2. \A i \in 1 .. n : parts[i].size \in Nat
  BY <1>1, SectorsAre
<1>3. IsSizes(u, n) /\ IsSizes(s, n)
  BY <1>1, <1>2, OthersAreSizes
<1>4. RootAt(literal) \in 1 .. n /\ \A i \in 1 .. n : parts[i].mount = "/" <=> i = RootAt(literal)
  BY RootIsFound
<1>5. u[RootAt(literal)] = 0 /\ s[RootAt(literal)] = parts[RootAt(literal)].size /\ \A i \in 1 .. n : i # RootAt(literal) => u[i] = s[i]
  BY <1>1, <1>4 DEF OtherSizes, Sizes
<1> HIDE DEF n, s, u
<1>6. Total(s) = Total(u) + s[RootAt(literal)]
  BY <1>1, <1>3, <1>4, <1>5, TotalOfOthers
<1>7. Total(u) \in Nat
  BY <1>1, <1>3, TotalsAre
<1> QED BY <1>3, <1>5, <1>6, <1>7 DEF n, s, u

LEMMA AskedTotal ==
    ASSUME NEW mounts, NEW m \in Nat, AreSizes(mounts, m)
    PROVE  /\ Total(AskedSectors(mounts)) \in Nat /\ Totals(AskedSectors(mounts))[m] = Total(AskedSectors(mounts))
           /\ OnlyRoot(mounts) => Total(AskedSectors(mounts)) = 0
<1> DEFINE a == AskedSectors(mounts)
<1>1. IsSizes(a, m)
  BY AskedAreSizes
<1>2. OnlyRoot(mounts) => \A i \in 1 .. m : a[i] = 0
  <2>1. \A i \in 1 .. m : mounts[i].mount = "/" => AskedSectors(mounts)[i] = 0
    BY AskedAreSizes
  <2> QED BY <2>1 DEF OnlyRoot, AreSizes
<1> HIDE DEF a
<1>3. Total(a) = Totals(a)[m] /\ \A i \in 0 .. m : Totals(a)[i] \in Nat
  BY <1>1, TotalsAre
<1>4. OnlyRoot(mounts) => Total(a) = 0
  BY <1>1, <1>2, TotalOfZeros
<1> QED BY <1>3, <1>4 DEF a

LEMMA NothingAsked == AreSizes(<<>>, 0) /\ OnlyRoot(<<>>) /\ Total(AskedSectors(<<>>)) = 0
<1>1. AreSizes(<<>>, 0) /\ OnlyRoot(<<>>)
  BY DEF AreSizes, OnlyRoot
<1> QED BY <1>1, AskedTotal

LEMMA LiteralIsFor ==
    ASSUME literal \in BaseTables
    PROVE  IsFor(literal, literal, <<>>) /\ Total(OtherSizes(literal)) \in Nat
<1> DEFINE l == Len(literal)
<1>1. /\ l \in Nat /\ IsSeq(literal, l)
      /\ \A i \in 1 .. l : literal[i].size \in Sectors /\ literal[i].start = 0
  BY LiteralIs
<1>2. \A i \in 1 .. l : literal[i].size \in Nat
  BY <1>1, SectorsAre
<1>3. IsSizes(OtherSizes(literal), l)
  BY <1>1, <1>2, OthersAreSizes
<1>4. Total(OtherSizes(literal)) \in Nat
  BY <1>1, <1>3, TotalsAre
<1>5. Total(OtherSizes(literal)) = Total(OtherSizes(literal)) + Total(AskedSectors(<<>>))
  BY <1>4, NothingAsked
<1>6. 0 \in Sectors
  BY SectorsAre
<1> QED BY <1>1, <1>4, <1>5, <1>6 DEF IsFor

LEMMA ForRootOnly ==
    ASSUME NEW parts, IsFor(parts, literal, <<>>), NEW mounts, NEW m \in Nat, AreSizes(mounts, m), OnlyRoot(mounts)
    PROVE  IsFor(parts, literal, mounts)
<1>1. Total(AskedSectors(mounts)) = Total(AskedSectors(<<>>))
  BY AskedTotal, NothingAsked
<1>2. AsksOnce(<<>>)
  BY DEF AsksOnce
<1>3. \A j \in DOMAIN mounts : mounts[j].mount = "/"
  BY DEF OnlyRoot
<1> QED BY <1>1, <1>2, <1>3 DEF IsFor

(***************************************************************************)
(* What the steps do to a table for these mountpoints.                     *)
(***************************************************************************)
LEMMA ForKept ==
    ASSUME literal \in BaseTables, NEW old, NEW mounts, IsFor(old, literal, mounts), NEW new, IsSeq(new, Len(old)),
           \A i \in 1 .. Len(old) : /\ new[i].mount = old[i].mount
                                    /\ new[i].start \in Sectors /\ new[i].size \in Sectors
                                    /\ old[i].mount # "/" => new[i].size = old[i].size
    PROVE  IsFor(new, literal, mounts) /\ Len(new) = Len(old) /\ OtherSizes(new) = OtherSizes(old)
<1> DEFINE n == Len(old)
           l == Len(literal)
<1>1. /\ n \in Nat /\ l <= n /\ DOMAIN old = 1 .. n
      /\ \A i \in 1 .. l : /\ old[i].mount = literal[i].mount
                           /\ old[i].mount # "/" => old[i].size = literal[i].size
      /\ \A i \in l + 1 .. n : old[i].mount \in Allowed /\ old[i].mount # "/"
      /\ Total(OtherSizes(old)) = Total(OtherSizes(literal)) + Total(AskedSectors(mounts))
  BY ForIs
<1>2. l \in Nat
  BY LiteralIs
<1>3. /\ \A j \in DOMAIN mounts :
           mounts[j].mount # "/" => \E i \in l + 1 .. n : /\ old[i].mount = mounts[j].mount
                                                        /\ old[i].size = mounts[j].MinSize \div sectorSize
      /\ AsksOnce(mounts) => \A i, j \in l + 1 .. n : i # j => old[i].mount # old[j].mount
  BY DEF IsFor
<1> HIDE DEF n, l
<1>4. IsSeq(new, n) /\ \A i \in 1 .. n : /\ new[i].mount = old[i].mount
                                         /\ new[i].start \in Sectors /\ new[i].size \in Sectors
                                         /\ old[i].mount # "/" => new[i].size = old[i].size
  BY DEF n
<1>5. DOMAIN new = 1 .. n /\ Len(new) = n
  BY <1>1, <1>4 DEF IsSeq
<1>6. OtherSizes(new) = OtherSizes(old)
  BY <1>1, <1>4, <1>5 DEF OtherSizes
<1>7. \A i \in l + 1 .. n : i \in 1 .. n
  BY <1>1, <1>2
<1>8. \A i \in 1 .. l : i \in 1 .. n
  BY <1>1, <1>2
<1>9. \A j \in DOMAIN mounts :
        mounts[j].mount # "/" => \E i \in l + 1 .. n : /\ new[i].mount = mounts[j].mount
                                                     /\ new[i].size = mounts[j].MinSize \div sectorSize
  BY <1>1, <1>3, <1>4, <1>7
<1>10. AsksOnce(mounts) => \A i, j \in l + 1 .. n : i # j => new[i].mount # new[j].mount
  BY <1>3, <1>4, <1>7
<1>11. \A i \in 1 .. l : /\ new[i].mount = literal[i].mount
                         /\ new[i].mount # "/" => new[i].size = literal[i].size
  BY <1>1, <1>4, <1>8
<1>12. \A i \in l + 1 .. n : new[i].mount \in Allowed \ {"/"}
  BY <1>1, <1>4, <1>7
<1>13. Total(OtherSizes(new)) = Total(OtherSizes(literal)) + Total(AskedSectors(mounts))
  BY <1>1, <1>6
<1>14. IsFor(new, literal, mounts)
  BY <1>1, <1>4, <1>5, <1>9, <1>10, <1>11, <1>12, <1>13 DEF IsFor, l
<1> QED BY <1>5, <1>6, <1>14 DEF n

LEMMA BuiltIsFor ==
    ASSUME literal \in BaseTables, NEW table, IsFor(table, literal, <<>>), Len(table) = Len(literal),
           NEW ask \in Asks, checkOptions(ask), NEW r, NEW p, NEW n,
           IsBuilt(p, n, r, table, Len(table), ask.mounts, Len(ask.mounts))
    PROVE  IsFor(p, literal, ask.mounts) /\ p[RootAt(literal)] = table[RootAt(literal)]
<1> DEFINE l == Len(literal)
           mounts == ask.mounts
           m == Len(mounts)
<1>1. m \in Nat /\ AreSizes(mounts, m) /\ \A i \in 1 .. m : mounts[i].MinSize \in Sectors
  BY AskIs
<1>2. \A i \in 1 .. m : mounts[i].mount \in Allowed
  BY <1>1 DEF checkOptions, AreSizes
<1>3. l \in Nat /\ RootAt(literal) \in 1 .. l
  BY LiteralIs, RootIsOne
<1>4. /\ \A i \in 1 .. l : table[i].start \in Sectors /\ table[i].size \in Sectors
      /\ \A i \in 1 .. l : /\ table[i].mount = literal[i].mount
                           /\ table[i].mount # "/" => table[i].size = literal[i].size
      /\ Total(OtherSizes(table)) = Total(OtherSizes(literal)) + Total(AskedSectors(<<>>))
  BY ForIs
<1>5. IsBuilt(p, n, r, table, l, mounts, m)
  OBVIOUS
<1>6. ASSUME NEW j \in 1 .. m
      PROVE  LET e == createPartition(r, mounts[j])
             IN  /\ e.mount = mounts[j].mount /\ e.start = 0 /\ e.size = mounts[j].MinSize \div sectorSize
                 /\ e.size \in Sectors
  <2>1. mounts[j].MinSize \in Nat /\ mounts[j].MinSize < Word
    BY <1>1, SectorsAre
  <2>2. mounts[j].MinSize \div sectorSize \in Nat /\ mounts[j].MinSize \div sectorSize <= mounts[j].MinSize
    BY <2>1, DivIs, ScaleAssumption
  <2>3. mounts[j].MinSize \div sectorSize \in Sectors
    BY <2>1, <2>2, SectorsAre, ScaleAssumption
  <2> QED BY <2>3 DEF createPartition
<1>7. DOMAIN mounts = 1 .. m
  BY <1>1 DEF AreSizes
<1>8. 0 \in Sectors /\ \A x \in Sectors : x \in Nat
  BY SectorsAre
<1>9. Total(OtherSizes(p)) = Total(OtherSizes(literal)) + Total(AskedSectors(mounts))
  <2>1. Totals(AskedSectors(mounts))[m] = Total(AskedSectors(mounts))
    BY <1>1, AskedTotal
  <2>2. \A i \in 1 .. l : table[i].size \in Nat
    BY <1>4, <1>8
  <2>3. Total(OtherSizes(p)) = Total(OtherSizes(table)) + Totals(AskedSectors(mounts))[m]
    BY <1>5, <2>2 DEF IsBuilt
  <2>4. Total(OtherSizes(literal)) \in Nat
    BY LiteralIsFor
  <2>5. Total(OtherSizes(table)) = Total(OtherSizes(literal))
    BY <1>4, <2>4, NothingAsked
  <2> QED BY <2>1, <2>3, <2>5
<1> HIDE DEF l, mounts, m
<1>10. /\ n \in Nat /\ l <= n /\ IsSeq(p, n)
       /\ \A i \in 1 .. l : p[i] = table[i]
       /\ \A i \in l + 1 .. n : \E j \in 1 .. m : mounts[j].mount # "/" /\ p[i] = createPartition(r, mounts[j])
       /\ \A j \in 1 .. m : mounts[j].mount # "/" => \E i \in l + 1 .. n : p[i] = createPartition(r, mounts[j])
       /\ AsksOnce(mounts) => \A i, j \in l + 1 .. n : i # j => p[i].mount # p[j].mount
  BY <1>5 DEF IsBuilt
<1>11. Len(p) = n
  BY <1>10 DEF IsSeq
<1>12. ASSUME NEW i \in l + 1 .. n
       PROVE  p[i].start \in Sectors /\ p[i].size \in Sectors /\ p[i].mount \in Allowed \ {"/"}
  <2>1. PICK j \in 1 .. m : mounts[j].mount # "/" /\ p[i] = createPartition(r, mounts[j])
    BY <1>10
  <2> QED BY <2>1, <1>2, <1>6, <1>8 DEF mounts, m
<1>13. \A i \in 1 .. n : p[i].start \in Sectors /\ p[i].size \in Sectors
  BY <1>3, <1>4, <1>10, <1>12
<1>14. ASSUME NEW j \in 1 .. m, mounts[j].mount # "/"
       PROVE  \E i \in l + 1 .. n : p[i].mount = mounts[j].mount /\ p[i].size = mounts[j].MinSize \div sectorSize
  <2>1. PICK i \in l + 1 .. n : p[i] = createPartition(r, mounts[j])
    BY <1>10, <1>14
  <2> QED BY <2>1, <1>6 DEF mounts
<1>15. \A i \in 1 .. l : /\ p[i].mount = literal[i].mount
                         /\ p[i].mount # "/" => p[i].size = literal[i].size
  BY <1>4, <1>10
<1>16. DOMAIN mounts = 1 .. m
  BY <1>7 DEF mounts, m
<1>17. IsFor(p, literal, mounts)
  <2>1. n \in Nat /\ l <= n /\ IsSeq(p, n)
    BY <1>10
  <2>2. \A i \in l + 1 .. n : p[i].mount \in Allowed \ {"/"}
    BY <1>12
  <2>3. \A j \in DOMAIN mounts :
          mounts[j].mount # "/" => \E i \in l + 1 .. n : /\ p[i].mount = mounts[j].mount
                                                       /\ p[i].size = mounts[j].MinSize \div sectorSize
    BY <1>14, <1>16
  <2>4. AsksOnce(mounts) => \A i, j \in l + 1 .. n : i # j => p[i].mount # p[j].mount
    BY <1>10
  <2>5. Total(OtherSizes(p)) = Total(OtherSizes(literal)) + Total(AskedSectors(mounts))
    BY <1>9 DEF mounts
  <2> QED BY <2>1, <2>2, <2>3, <2>4, <2>5, <1>11, <1>13, <1>15, Zenon DEF IsFor, l
<1> QED BY <1>3, <1>10, <1>17 DEF mounts

LEMMA PlacesAre ==
    ASSUME literal \in BaseTables, NEW parts, NEW mounts, IsFor(parts, literal, mounts)
    PROVE  \A i \in 1 .. Len(parts) : Before(parts, i) \in Nat /\ (FirstSector + Before(parts, i)) % Word \in Sectors
<1> DEFINE n == Len(parts)
           u == OtherSizes(parts)
<1>1. n \in Nat /\ IsSizes(u, n)
  BY ForIs, ForTotals
<1> HIDE DEF n, u
<1>2. \A i \in 0 .. n : Totals(u)[i] \in Nat
  BY <1>1, TotalsAre
<1>3. ASSUME NEW i \in 1 .. n
      PROVE  Before(parts, i) \in Nat
  <2> DEFINE k == IF parts[i].mount = "/" THEN n ELSE i - 1
  <2>1. k \in 0 .. n
    BY <1>1
  <2>2. Before(parts, i) = Totals(u)[k]
    BY DEF Before, n, u
  <2> QED BY <1>2, <2>1, <2>2
<1>4. ASSUME NEW x \in Nat
      PROVE  (FirstSector + x) % Word \in Sectors
  <2>1. FirstSector + x \in Int
    BY ScaleAssumption
  <2> QED BY <2>1, ModIn, ScaleAssumption DEF Sectors
<1> QED BY <1>3, <1>4 DEF n

LEMMA OffsetsPlace ==
    ASSUME literal \in BaseTables, NEW parts, NEW mounts, IsFor(parts, literal, mounts), IsTable(parts)
    PROVE  LET new == updatePartitionStartPointOffsets(parts, FirstSector)
           IN  IsFor(new, literal, mounts) /\ Placed(new) /\ new[RootAt(literal)].size = parts[RootAt(literal)].size
<1> DEFINE n == Len(parts)
           at(i) == (FirstSector + Before(parts, i)) % Word
           new == [i \in DOMAIN parts |-> [parts[i] EXCEPT !.start = at(i)]]
<1>1. updatePartitionStartPointOffsets(parts, FirstSector) = new
  BY DEF updatePartitionStartPointOffsets, Before
<1>2. /\ n \in Nat /\ DOMAIN parts = 1 .. n
      /\ \A i \in 1 .. n : parts[i].start \in Sectors /\ parts[i].size \in Sectors
  BY ForIs
<1>3. \A i \in 1 .. n : at(i) \in Sectors
  BY PlacesAre
<1>4. RootAt(literal) \in 1 .. n
  BY RootIsFound
<1> HIDE DEF n, at
<1>5. IsSeq(new, n) /\ \A i \in 1 .. n : new[i] = [parts[i] EXCEPT !.start = at(i)]
  BY <1>2 DEF IsSeq
<1>6. \A i \in 1 .. n : IsPartition(parts[i])
  BY <1>2 DEF IsTable
<1> HIDE DEF new
<1>7. \A i \in 1 .. n : new[i].mount = parts[i].mount /\ new[i].start = at(i) /\ new[i].size = parts[i].size
  BY <1>5, <1>6 DEF IsPartition
<1>8. IsFor(new, literal, mounts) /\ Len(new) = n /\ OtherSizes(new) = OtherSizes(parts)
  BY <1>2, <1>3, <1>5, <1>7, ForKept DEF n
<1>9. Placed(new)
  <2>1. \A i \in 1 .. n : Before(new, i) = Before(parts, i)
    BY <1>7, <1>8 DEF Before, n
  <2> QED BY <2>1, <1>7, <1>8 DEF Placed, at
<1> QED BY <1>1, <1>4, <1>7, <1>8, <1>9

LEMMA RootIsSet ==
    ASSUME literal \in BaseTables, NEW parts, NEW mounts, IsFor(parts, literal, mounts), IsTable(parts), NEW x \in Sectors
    PROVE  LET new == [parts EXCEPT ![RootAt(literal)].size = x]
           IN  /\ IsFor(new, literal, mounts) /\ (Placed(parts) => Placed(new))
               /\ new[RootAt(literal)].size = x /\ new[RootAt(literal)].start = parts[RootAt(literal)].start
<1> DEFINE n == Len(parts)
           new == [parts EXCEPT ![RootAt(literal)].size = x]
<1>1. /\ n \in Nat /\ DOMAIN parts = 1 .. n
      /\ \A i \in 1 .. n : parts[i].start \in Sectors /\ parts[i].size \in Sectors
  BY ForIs
<1>2. RootAt(literal) \in 1 .. n /\ \A i \in 1 .. n : parts[i].mount = "/" <=> i = RootAt(literal)
  BY RootIsFound
<1> HIDE DEF n
<1>3. IsSeq(new, n) /\ \A i \in 1 .. n : new[i] = IF i = RootAt(literal) THEN [parts[i] EXCEPT !.size = x] ELSE parts[i]
  BY <1>1, <1>2 DEF IsSeq, IsTable
<1>4. \A i \in 1 .. n : IsPartition(parts[i])
  BY <1>1 DEF IsTable
<1> HIDE DEF new
<1>5. \A i \in 1 .. n : /\ new[i].mount = parts[i].mount /\ new[i].start = parts[i].start
                        /\ i = RootAt(literal) => new[i].size = x
                        /\ i # RootAt(literal) => new[i].size = parts[i].size
  BY <1>3, <1>4 DEF IsPartition
<1>6. IsFor(new, literal, mounts) /\ Len(new) = n /\ OtherSizes(new) = OtherSizes(parts)
  BY <1>1, <1>2, <1>3, <1>5, ForKept DEF n
<1>7. Placed(parts) => Placed(new)
  <2>1. \A i \in 1 .. n : Before(new, i) = Before(parts, i)
    BY <1>5, <1>6 DEF Before, n
  <2> QED BY <2>1, <1>5, <1>6 DEF Placed, n
<1>8. IsFor(new, literal, mounts) /\ (Placed(parts) => Placed(new))
      /\ new[RootAt(literal)].size = x /\ new[RootAt(literal)].start = parts[RootAt(literal)].start
  BY <1>2, <1>5, <1>6, <1>7
<1> QED BY <1>8 DEF new

USE DEF BootUUID, Mountpoints, TableSize, Offsets, Root, FSTab, GRUB2, Sfdisk, Mkfs, Finished, Idle

LEMMA Initially ==
    ASSUME Init
    PROVE  IInv
<1>1. literal \in BaseTables /\ shared = literal /\ heap = LiteralUUIDs(literal)
  BY DEF Init
<1>2. TableIsKept
  BY <1>1, LiteralIsTable DEF TableIsKept
<1>3. HeapIsOfTable
  BY <1>1, LiteralHeap DEF HeapIsOfTable
<1>4. Shapes
  BY DEF Init, Shapes
<1>5. ASSUME NEW r \in Requests
      PROVE  Holds(r) /\ Alone(r) /\ ~Running(r)
  <2>1. req[r] = Waiting /\ manifest[r] = Empty
    BY DEF Init
  <2> QED BY <2>1 DEF Waiting, Empty, Holds, Alone, IsHandler, IsManifest, Running, Done, At
<1>6. TogetherIsKnown
  BY <1>5 DEF TogetherIsKnown
<1> QED BY <1>2, <1>3, <1>4, <1>5, <1>6 DEF IInv

-----------------------------------------------------------------------------
(***************************************************************************)
(* A step of a running request r: any other running request is known to    *)
(* run along with it, so only r has to be looked at.                       *)
(***************************************************************************)
OthersAreUnchanged(r) ==
    /\ literal' = literal /\ together' = together
    /\ \A q \in Requests : q # r => req'[q] = req[q] /\ manifest'[q] = manifest[q]

LEMMA StepOfRunning ==
    ASSUME IInv, NEW r \in Requests, Running(r), OthersAreUnchanged(r),
           Shapes', TableIsKept', HeapIsOfTable', Holds(r)', Alone(r)'
    PROVE  IInv'
<1>1. ASSUME NEW q \in Requests, q # r
      PROVE  Holds(q)' /\ Alone(q)'
  <2>1. literal' = literal /\ together' = together /\ req'[q] = req[q] /\ manifest'[q] = manifest[q]
    BY <1>1 DEF OthersAreUnchanged
  <2>2. Holds(q) /\ Alone(q)
    BY DEF IInv
  <2>3. Holds(q)'
    BY <2>1, <2>2 DEF Holds
  <2>4. Running(q) => q \in together
    BY <1>1 DEF IInv, TogetherIsKnown
  <2>5. Running(q)' <=> Running(q)
    BY <2>1 DEF Running
  <2>6. (Done(q)' <=> Done(q)) /\ (ManifestAgrees(q)' <=> ManifestAgrees(q))
    BY <2>1 DEF Done, At, ManifestAgrees
  <2>7. Alone(q)'
    BY <2>1, <2>2, <2>4, <2>5, <2>6, Zenon DEF Alone
  <2> QED BY <2>3, <2>7
<1>2. TogetherIsKnown'
  <2>1. \A q \in Requests : Running(q)' => Running(q)
    <3> TAKE q \in Requests
    <3>1. q # r => req'[q] = req[q]
      BY DEF OthersAreUnchanged
    <3> QED BY <3>1 DEF Running
  <2>2. together' = together
    BY DEF OthersAreUnchanged
  <2> QED BY <2>1, <2>2, Zenon DEF TogetherIsKnown, IInv
<1>3. \A q \in Requests : Holds(q)' /\ Alone(q)'
  BY <1>1
<1> QED BY <1>2, <1>3 DEF IInv

(***************************************************************************)
(* What a handler reads of the tables when it is alone.                    *)
(***************************************************************************)
LEMMA PartitionsAre ==
    ASSUME IInv, NEW r \in Requests
    PROVE  IsTable(Partitions(r)) /\ Shared(Partitions(r)) \subseteq Shared(literal)
<1>1. Holds(r) /\ IsTable(shared) /\ SameFilesystems(literal, shared)
  BY DEF IInv, TableIsKept
<1>2. Shared(shared) = Shared(literal)
  BY <1>1, SharedIsKept
<1> QED BY <1>1, <1>2 DEF Holds, Partitions

\* the UUID of each filesystem is fixed or the request's own
LEMMA FilesystemsAreOwn ==
    ASSUME IInv, NEW r \in Requests, UUIDsAreOwn(r), req[r].pc > Root
    PROVE  \A f \in Filesystems(r) : f[2] \in {Fixed, <<r, f[1]>>}
<1>1. literal \in BaseTables /\ DOMAIN heap = Shared(literal)
  BY DEF IInv, TableIsKept, HeapIsOfTable
<1>2. Shared(literal) \subseteq {"/", "/boot", "/boot/efi"}
  BY <1>1, LiteralIsTable
<1>3. req[r].pc \in 0 .. 10
  BY DEF IInv, Holds
<1>4. \A m \in DOMAIN heap : heap[m] \in {Fixed, <<r, m>>}
  <2> TAKE m \in DOMAIN heap
  <2>1. m \in {"/", "/boot", "/boot/efi"}
    BY <1>1, <1>2
  <2>2. CASE m = "/"
    BY <2>2 DEF UUIDsAreOwn
  <2>3. CASE m = "/boot"
    BY <2>3, <1>3 DEF UUIDsAreOwn
  <2>4. CASE m = "/boot/efi"
    BY <2>4 DEF IInv, HeapIsOfTable
  <2> QED BY <2>1, <2>2, <2>3, <2>4
<1>5. ASSUME NEW p \in ToSet(Partitions(r))
      PROVE  UUID(r, p) \in {Fixed, <<r, p.mount>>}
  <2>1. PICK i \in DOMAIN Partitions(r) : p = Partitions(r)[i]
    BY DEF ToSet
  <2>2. p.fs = "shared" => p.mount \in DOMAIN heap
    BY <2>1, <1>1, PartitionsAre DEF Shared
  <2> QED BY <2>2, <1>4 DEF UUID
<1>6. ASSUME NEW f \in Filesystems(r)
      PROVE  f[2] \in {Fixed, <<r, f[1]>>}
  <2>1. PICK p \in ToSet(Partitions(r)) : f = <<p.mount, UUID(r, p)>>
    BY DEF Filesystems
  <2>2. f[1] = p.mount /\ f[2] = UUID(r, p)
    BY <2>1
  <2> QED BY <2>2, <1>5
<1> QED BY <1>6

LEMMA FilesystemsStay ==
    ASSUME NEW r \in Requests, heap' = heap, shared' = shared,
           req'[r].own = req[r].own, req'[r].parts = req[r].parts
    PROVE  Filesystems(r)' = Filesystems(r)
<1>1. Partitions(r)' = Partitions(r)
  BY DEF Partitions
<1>2. \A p : UUID(r, p)' = UUID(r, p)
  BY DEF UUID
<1> QED BY <1>1, <1>2 DEF Filesystems

(***************************************************************************)
(* One lemma for each action.                                              *)
(***************************************************************************)
LEMMA ManifestStep ==
    ASSUME IInv, NEW r \in Requests, Manifest(r)
    PROVE  IInv'
<1> DEFINE others == {q \in Requests : Running(q)}
<1>1. PICK ask \in Asks :
        /\ checkOptions(ask)
        /\ req' = [req EXCEPT ![r] = [Waiting EXCEPT !.pc = BootUUID, !.ask = ask, !.size = ImageSize(ask)]]
  BY DEF Manifest
<1>2. /\ literal' = literal /\ shared' = shared /\ heap' = heap /\ manifest' = manifest
      /\ req[r].pc = Idle
      /\ together' = together \cup (IF others = {} THEN {} ELSE others \cup {r})
  BY DEF Manifest, At
<1>3. Shapes'
  BY <1>1, <1>2 DEF Shapes, IInv
<1>4. TableIsKept' /\ HeapIsOfTable'
  BY <1>2 DEF TableIsKept, HeapIsOfTable, IInv
<1>5. req'[r].pc = BootUUID /\ req'[r].own = FALSE /\ IsHandler(req'[r]) /\ req'[r].ask = ask
  BY <1>1 DEF IInv, Shapes, Waiting, IsHandler
<1>6. \A q \in Requests : q # r => req'[q] = req[q]
  BY <1>1 DEF IInv, Shapes
<1>7. Holds(r)'
  BY <1>1, <1>2, <1>5 DEF Holds, IInv, checkOptions
<1>8. Alone(r)'
  BY <1>5 DEF Alone, Running, Done, At, UUIDsAreOwn, StagesAgree
<1>9. ~Running(r)
  BY <1>2 DEF Running
<1>10. ASSUME NEW q \in Requests, q # r
       PROVE  Holds(q)' /\ Alone(q)' /\ (Running(q)' <=> Running(q))
  <2>1. req'[q] = req[q] /\ manifest'[q] = manifest[q] /\ literal' = literal
    BY <1>2, <1>6, <1>10
  <2>2. Holds(q) /\ Alone(q)
    BY DEF IInv
  <2>3. Holds(q)'
    BY <2>1, <2>2 DEF Holds
  <2>4. Running(q)' <=> Running(q)
    BY <2>1 DEF Running
  <2>5. (Done(q)' <=> Done(q)) /\ (ManifestAgrees(q)' <=> ManifestAgrees(q))
    BY <2>1 DEF Done, At, ManifestAgrees
  <2>6. q \notin together' => q \notin together /\ ~Running(q)
    BY <1>2
  <2>7. Alone(q)'
    BY <2>2, <2>4, <2>5, <2>6, Zenon DEF Alone
  <2> QED BY <2>3, <2>4, <2>7
<1>11. TogetherIsKnown'
  <2>1. SUFFICES ASSUME NEW a \in Requests, NEW b \in Requests, Running(a)', Running(b)', a # b
                 PROVE  a \in together'
    BY DEF TogetherIsKnown
  <2>2. CASE a = r
    <3>1. b \in others
      BY <2>1, <2>2, <1>10
    <3> QED BY <3>1, <2>2, <1>2
  <2>3. CASE a # r
    <3>1. a \in others
      BY <2>1, <2>3, <1>10
    <3> QED BY <3>1, <1>2
  <2> QED BY <2>2, <2>3
<1> QED BY <1>3, <1>4, <1>7, <1>8, <1>10, <1>11 DEF IInv

LEMMA SetBootUUIDStep ==
    ASSUME IInv, NEW r \in Requests, SetBootUUID(r)
    PROVE  IInv'
<1>1. /\ literal' = literal /\ shared' = shared /\ manifest' = manifest /\ together' = together
      /\ req[r].pc = BootUUID /\ req' = [req EXCEPT ![r].pc = @ + 1]
      /\ heap' = IF IndexOf(Partitions(r), "/boot") = 0 THEN heap ELSE [heap EXCEPT !["/boot"] = <<r, "/boot">>]
  BY DEF SetBootUUID, At, Goes
<1>2. Holds(r) /\ req[r].own = FALSE
  BY <1>1 DEF IInv, Holds
<1>3. Running(r)
  BY <1>1 DEF Running
<1>4. OthersAreUnchanged(r)
  BY <1>1 DEF OthersAreUnchanged, IInv, Shapes
<1>5. Shapes'
  BY <1>1 DEF Shapes, IInv
<1>6. TableIsKept'
  BY <1>1 DEF TableIsKept, IInv
<1>7. DOMAIN heap' = DOMAIN heap /\ HeapIsOfTable'
  BY <1>1 DEF HeapIsOfTable, IInv
<1>8. req'[r] = [req[r] EXCEPT !.pc = 2]
  BY <1>1 DEF IInv, Shapes
<1>9. req'[r].pc = 2 /\ req'[r].own = FALSE /\ IsHandler(req'[r]) /\ req'[r].ask = req[r].ask
  BY <1>2, <1>8 DEF Holds, IsHandler
<1>10. Holds(r)'
  BY <1>1, <1>2, <1>9 DEF Holds, checkOptions
<1>11. "/boot" \in DOMAIN heap => heap'["/boot"] = <<r, "/boot">>
  <2>1. HAVE "/boot" \in DOMAIN heap
  <2>2. PICK i \in DOMAIN literal : literal[i].mount = "/boot"
    BY <2>1 DEF IInv, HeapIsOfTable, Shared
  <2>3. shared[i].mount = "/boot" /\ DOMAIN shared = DOMAIN literal
    BY <2>2 DEF IInv, TableIsKept, SameFilesystems
  <2>4. PICK n \in Nat : DOMAIN shared = 1 .. n
    BY <2>3, LiteralIsTable DEF IInv, TableIsKept
  <2>5. IndexOf(shared, "/boot") # 0
    BY <2>3, <2>4, Found
  <2>6. Partitions(r) = shared
    BY <1>2 DEF Partitions
  <2> QED BY <2>1, <2>5, <2>6, <1>1
<1>12. Alone(r)'
  BY <1>7, <1>9, <1>11 DEF Alone, Done, At, UUIDsAreOwn, StagesAgree
<1> QED BY <1>3, <1>4, <1>5, <1>6, <1>7, <1>10, <1>12, StepOfRunning

(***************************************************************************)
(* A step that changes r's record only, before the root partition is set.  *)
(***************************************************************************)
LEMMA EarlyStep ==
    ASSUME IInv, NEW r \in Requests, NEW h,
           req[r].pc \in Mountpoints .. TableSize,
           req' = [req EXCEPT ![r] = h], UNCHANGED <<literal, shared, heap, manifest, together>>,
           IsHandler(h), h.pc \in TableSize .. Offsets, h.ask = req[r].ask,
           h.own => IsTable(h.parts) /\ Shared(h.parts) \subseteq Shared(literal)
    PROVE  IInv'
<1>1. Running(r)
  BY DEF Running
<1>2. OthersAreUnchanged(r)
  BY DEF OthersAreUnchanged, IInv, Shapes
<1>3. Shapes' /\ req'[r] = h
  BY DEF Shapes, IInv
<1>4. TableIsKept' /\ HeapIsOfTable'
  BY DEF TableIsKept, HeapIsOfTable, IInv
<1>5. Holds(r)
  BY DEF IInv
<1>6. Holds(r)'
  BY <1>3, <1>5 DEF Holds, checkOptions
<1>7. Alone(r)'
  <2>1. r \notin together => UUIDsAreOwn(r)
    BY <1>1 DEF IInv, Alone
  <2>2. UUIDsAreOwn(r) => UUIDsAreOwn(r)'
    BY <1>3 DEF UUIDsAreOwn
  <2>3. StagesAgree(r)' /\ ~Done(r)'
    BY <1>3 DEF StagesAgree, Done, At
  <2> QED BY <2>1, <2>2, <2>3 DEF Alone
<1> QED BY <1>1, <1>2, <1>3, <1>4, <1>6, <1>7, StepOfRunning

Moved(h, pc, own, parts) == [h EXCEPT !.pc = pc, !.own = own, !.parts = parts]

LEMMA MovedIs ==
    ASSUME NEW g, IsHandler(g), NEW pc, NEW own, NEW parts
    PROVE  LET h == Moved(g, pc, own, parts)
           IN  IsHandler(h) /\ h.pc = pc /\ h.own = own /\ h.parts = parts /\ h.ask = g.ask /\ h.size = g.size
<1> DEFINE h == Moved(g, pc, own, parts)
<1>1. DOMAIN g = {"pc", "ask", "own", "parts", "size"}
  BY DEF IsHandler
<1>2. /\ DOMAIN h = DOMAIN g /\ h = [x \in DOMAIN g |-> h[x]] /\ h.pc = pc /\ h.own = own /\ h.parts = parts
      /\ h.ask = g.ask /\ h.size = g.size
  BY <1>1 DEF Moved
<1> HIDE DEF h
<1>3. h = [pc |-> h.pc, ask |-> h.ask, own |-> h.own, parts |-> h.parts, size |-> h.size]
  BY <1>1, <1>2
<1>4. IsHandler(h)
  BY <1>3 DEF IsHandler
<1> QED BY <1>2, <1>4 DEF h

Grown(h, pc, size) == [h EXCEPT !.pc = pc, !.size = size]

LEMMA GrownIs ==
    ASSUME NEW g, IsHandler(g), NEW pc, NEW size
    PROVE  LET h == Grown(g, pc, size)
           IN  IsHandler(h) /\ h.pc = pc /\ h.own = g.own /\ h.parts = g.parts /\ h.ask = g.ask /\ h.size = size
<1> DEFINE h == Grown(g, pc, size)
<1>1. DOMAIN g = {"pc", "ask", "own", "parts", "size"}
  BY DEF IsHandler
<1>2. /\ DOMAIN h = DOMAIN g /\ h = [x \in DOMAIN g |-> h[x]] /\ h.pc = pc /\ h.own = g.own /\ h.parts = g.parts
      /\ h.ask = g.ask /\ h.size = size
  BY <1>1 DEF Grown
<1> HIDE DEF h
<1>3. h = [pc |-> h.pc, ask |-> h.ask, own |-> h.own, parts |-> h.parts, size |-> h.size]
  BY <1>1, <1>2
<1>4. IsHandler(h)
  BY <1>3 DEF IsHandler
<1> QED BY <1>2, <1>4 DEF h

LEMMA SharedIsSeq ==
    ASSUME IInv
    PROVE  /\ Len(shared) \in Nat /\ Len(shared) = Len(literal)
           /\ IsSeq(shared, Len(shared)) /\ IsSeq(literal, Len(literal)) /\ DOMAIN shared = 1 .. Len(shared)
<1>1. IsTable(literal) /\ IsTable(shared) /\ DOMAIN shared = DOMAIN literal
  BY LiteralIsTable DEF IInv, TableIsKept, SameFilesystems
<1>2. PICK n \in Nat : DOMAIN literal = 1 .. n
  BY LiteralIsTable DEF IInv, TableIsKept
<1> QED BY <1>1, <1>2 DEF IsTable, IsSeq

LEMMA SharedIsAppendedTo ==
    ASSUME IInv, NEW r \in Requests, req[r].pc # Idle
    PROVE  LET mounts == req[r].ask.mounts
           IN  \E n \in Nat : IsBuilt(Appended(r, shared, mounts), n, r, shared, Len(shared), mounts, Len(mounts))
<1>1. req[r].ask \in Asks
  BY DEF IInv, Holds
<1>2. Len(req[r].ask.mounts) \in Nat /\ AreSizes(req[r].ask.mounts, Len(req[r].ask.mounts))
  BY <1>1, AskIs
<1>3. Len(shared) \in Nat /\ IsSeq(shared, Len(shared))
  BY SharedIsSeq
<1> QED BY <1>2, <1>3, AppendedIs

LEMMA AppendMountpointsStep ==
    ASSUME IInv, NEW r \in Requests, AppendMountpoints(r)
    PROVE  IInv'
<1> DEFINE mounts == req[r].ask.mounts
           longer == Appended(r, shared, mounts)
           own == \E i \in DOMAIN mounts : mounts[i].mount # "/"
           parts == IF own THEN longer ELSE <<>>
           h == Moved(req[r], TableSize, own, parts)
<1>1. req[r].pc = Mountpoints /\ req' = [req EXCEPT ![r] = h] /\ UNCHANGED <<literal, shared, heap, manifest, together>>
  BY DEF AppendMountpoints, At, Moved
<1>2. PICK n \in Nat : IsBuilt(longer, n, r, shared, Len(shared), mounts, Len(mounts))
  BY <1>1, SharedIsAppendedTo
<1>3. \A i \in DOMAIN longer : \/ i \in DOMAIN shared /\ longer[i] = shared[i]
                               \/ \E m : longer[i] = createPartition(r, m)
  <2>1. DOMAIN shared = 1 .. Len(shared)
    BY SharedIsSeq DEF IsSeq
  <2>2. IsSeq(longer, n) /\ \A i \in 1 .. Len(shared) : longer[i] = shared[i]
    BY <1>2 DEF IsBuilt
  <2>3. \A i \in Len(shared) + 1 .. n : \E m : longer[i] = createPartition(r, m)
    BY <1>2 DEF IsBuilt
  <2> HIDE DEF longer
  <2>4. DOMAIN longer = 1 .. n
    BY <2>2 DEF IsSeq
  <2> QED BY <2>1, <2>2, <2>3, <2>4, SharedIsSeq
<1>4. IsTable(longer) /\ Shared(longer) \subseteq Shared(literal)
  <2>1. \A m : IsPartition(createPartition(r, m)) /\ createPartition(r, m).fs # "shared"
    BY DEF IsPartition, createPartition
  <2>2. IsTable(shared) /\ Shared(shared) = Shared(literal)
    BY SharedIsKept DEF IInv, TableIsKept
  <2>3. IsSeq(longer, n)
    BY <1>2 DEF IsBuilt
  <2> HIDE DEF longer
  <2>4. \A i \in DOMAIN longer : IsPartition(longer[i])
    BY <1>3, <2>1, <2>2 DEF IsTable
  <2>5. \A i \in DOMAIN longer : longer[i].fs = "shared" => longer[i].mount \in Shared(shared)
    BY <1>3, <2>1 DEF Shared
  <2>6. IsTable(longer)
    BY <2>3, <2>4 DEF IsTable, IsSeq
  <2>7. Shared(longer) \subseteq Shared(shared)
    BY <2>5 DEF Shared
  <2> QED BY <2>2, <2>6, <2>7
<1> HIDE DEF mounts, longer, own, parts
<1>5. IsHandler(req[r])
  BY DEF IInv, Holds
<1>6. IsHandler(h) /\ h.pc = TableSize /\ h.own = own /\ h.parts = parts /\ h.ask = req[r].ask
  BY <1>5, MovedIs
<1> HIDE DEF h
<1>7. h.own => IsTable(h.parts) /\ Shared(h.parts) \subseteq Shared(literal)
  <2>1. own => parts = longer
    BY DEF own, parts
  <2> QED BY <1>4, <1>6, <2>1, Zenon
<1>8. req[r].pc \in Mountpoints .. TableSize /\ h.pc \in TableSize .. Offsets
  BY <1>1, <1>6
<1> QED BY <1>1, <1>6, <1>7, <1>8, EarlyStep, Zenon

LEMMA GrowToTableStep ==
    ASSUME IInv, NEW r \in Requests, GrowToTable(r)
    PROVE  IInv'
<1> DEFINE tableSize == getPartitionTableSize(Partitions(r))
           size == IF req[r].size < tableSize THEN tableSize ELSE req[r].size
           h == Grown(req[r], Offsets, size)
<1>1. req[r].pc = TableSize /\ req' = [req EXCEPT ![r] = h] /\ UNCHANGED <<literal, shared, heap, manifest, together>>
  BY DEF GrowToTable, At, Grown
<1> HIDE DEF size
<1>2. Holds(r) /\ IsHandler(req[r])
  BY DEF IInv, Holds
<1>3. IsHandler(h) /\ h.pc = Offsets /\ h.own = req[r].own /\ h.parts = req[r].parts /\ h.ask = req[r].ask
  BY <1>2, GrownIs
<1> HIDE DEF h
<1>4. h.own => IsTable(h.parts) /\ Shared(h.parts) \subseteq Shared(literal)
  BY <1>2, <1>3 DEF Holds
<1>5. req[r].pc \in Mountpoints .. TableSize /\ h.pc \in TableSize .. Offsets
  BY <1>1, <1>3
<1> QED BY <1>1, <1>3, <1>4, <1>5, EarlyStep, Zenon

(***************************************************************************)
(* A step that writes to the array of partitions.                          *)
(***************************************************************************)
LEMMA HandlerSets ==
    ASSUME IInv, NEW r \in Requests, NEW parts,
           req' = [req EXCEPT ![r].parts = parts, ![r].pc = @ + 1]
    PROVE  /\ IsHandler(req'[r]) /\ req'[r].pc = req[r].pc + 1
           /\ req'[r].own = req[r].own /\ req'[r].parts = parts
           /\ req'[r].ask = req[r].ask /\ req'[r].size = req[r].size
<1> DEFINE g == req[r]
           h == req'[r]
<1>1. DOMAIN g = {"pc", "ask", "own", "parts", "size"} /\ req = [q \in Requests |-> req[q]]
  BY DEF IInv, Shapes, Holds, IsHandler
<1>2. /\ DOMAIN h = DOMAIN g /\ h = [x \in DOMAIN g |-> h[x]]
      /\ h.pc = req[r].pc + 1 /\ h.own = req[r].own /\ h.parts = parts
      /\ h.ask = req[r].ask /\ h.size = req[r].size
  BY <1>1
<1>3. h = [pc |-> h.pc, ask |-> h.ask, own |-> h.own, parts |-> h.parts, size |-> h.size]
  <2> HIDE DEF g, h
  <2> QED BY <1>1, <1>2
<1> QED BY <1>2, <1>3 DEF IsHandler

LEMMA HandlerGoes ==
    ASSUME IInv, NEW r \in Requests, req' = [req EXCEPT ![r].pc = @ + 1]
    PROVE  /\ IsHandler(req'[r]) /\ req'[r].pc = req[r].pc + 1
           /\ req'[r].own = req[r].own /\ req'[r].parts = req[r].parts
           /\ req'[r].ask = req[r].ask /\ req'[r].size = req[r].size
<1>1. IsHandler(req[r]) /\ req = [q \in Requests |-> req[q]]
  BY DEF IInv, Shapes, Holds
<1>2. req'[r] = [req[r] EXCEPT !.pc = req[r].pc + 1]
  BY <1>1
<1> QED BY <1>1, <1>2 DEF IsHandler

LEMMA TableStep ==
    ASSUME IInv, NEW r \in Requests, NEW new, req[r].pc \in Offsets .. Root,
           IsTable(new), SameFilesystems(Partitions(r), new), SetPartitions(r, new),
           UNCHANGED <<literal, manifest, together>>,
           HeapIsOfTable', DOMAIN heap' = DOMAIN heap, "/boot" \in DOMAIN heap => heap'["/boot"] = heap["/boot"],
           req[r].pc = Root /\ "/" \in DOMAIN heap => heap'["/"] = <<r, "/">>
    PROVE  IInv'
<1>1. Running(r) /\ Holds(r) /\ Alone(r) /\ TableIsKept
  BY DEF Running, IInv
<1>2. \/ /\ req[r].own /\ shared' = shared /\ Partitions(r) = req[r].parts
         /\ req' = [req EXCEPT ![r].parts = new, ![r].pc = @ + 1]
      \/ /\ ~req[r].own /\ shared' = new /\ Partitions(r) = shared
         /\ req' = [req EXCEPT ![r].pc = @ + 1]
  BY DEF SetPartitions, Partitions
<1>3. Shapes' /\ \A q \in Requests : q # r => req'[q] = req[q]
  BY <1>2 DEF IInv, Shapes
<1>4. OthersAreUnchanged(r)
  BY <1>3 DEF OthersAreUnchanged
<1>5. /\ IsHandler(req'[r]) /\ req'[r].pc = req[r].pc + 1
      /\ req'[r].own = req[r].own /\ req'[r].ask = req[r].ask
  BY <1>2, HandlerSets, HandlerGoes
<1>6. TableIsKept'
  <2>1. CASE shared' = shared
    BY <2>1, <1>1 DEF TableIsKept
  <2>2. CASE shared' = new /\ Partitions(r) = shared
    <3>1. SameFilesystems(literal, new)
      BY <2>2, <1>1, SameIsTransitive DEF TableIsKept
    <3> QED BY <2>2, <3>1, <1>1 DEF TableIsKept
  <2> QED BY <1>2, <2>1, <2>2
<1>7. req'[r].own => IsTable(req'[r].parts) /\ Shared(req'[r].parts) \subseteq Shared(literal)
  <2>1. HAVE req'[r].own
  <2>2. req[r].own
    BY <2>1, <1>5
  <2>3. Partitions(r) = req[r].parts /\ req' = [req EXCEPT ![r].parts = new, ![r].pc = @ + 1]
    BY <2>2, <1>2
  <2>4. req'[r].parts = new
    BY <2>3, HandlerSets
  <2>5. Shared(new) = Shared(Partitions(r))
    BY SharedIsKept
  <2> QED BY <2>4, <2>5, PartitionsAre
<1>8. req'[r].pc \in Root .. FSTab
  BY <1>5
<1>9. Holds(r)'
  BY <1>1, <1>5, <1>7, <1>8 DEF Holds, checkOptions
<1>10. Alone(r)'
  <2>1. r \notin together => UUIDsAreOwn(r)
    BY <1>1 DEF Alone
  <2>2. UUIDsAreOwn(r) => UUIDsAreOwn(r)'
    BY <1>5, <1>8 DEF UUIDsAreOwn
  <2>3. StagesAgree(r)' /\ ~Done(r)'
    BY <1>8 DEF StagesAgree, Done, At
  <2> QED BY <2>1, <2>2, <2>3 DEF Alone
<1> QED BY <1>1, <1>3, <1>4, <1>6, <1>9, <1>10, StepOfRunning

LEMMA UpdateOffsetsStep ==
    ASSUME IInv, NEW r \in Requests, UpdateOffsets(r)
    PROVE  IInv'
<1> DEFINE new == updatePartitionStartPointOffsets(Partitions(r), FirstSector)
<1>1. /\ req[r].pc = Offsets /\ SetPartitions(r, new) /\ heap' = heap
      /\ UNCHANGED <<literal, manifest, together>>
  BY DEF UpdateOffsets, At
<1>2. IsTable(new) /\ SameFilesystems(Partitions(r), new)
  BY PartitionsAre, OffsetsKeep
<1> HIDE DEF new
<1>3. HeapIsOfTable'
  BY <1>1 DEF IInv, HeapIsOfTable
<1>4. req[r].pc \in Offsets .. Root /\ req[r].pc # Root
  BY <1>1
<1>5. DOMAIN heap' = DOMAIN heap /\ ("/boot" \in DOMAIN heap => heap'["/boot"] = heap["/boot"])
  BY <1>1
<1> QED BY <1>1, <1>2, <1>3, <1>4, <1>5, TableStep, Zenon

LEMMA updateRootPartitionStep ==
    ASSUME IInv, NEW r \in Requests, updateRootPartition(r)
    PROVE  IInv'
<1> DEFINE i == IndexOf(Partitions(r), "/")
           new == [Partitions(r) EXCEPT ![i].size = rootSize(r, Partitions(r)[i].start)]
<1>1. /\ req[r].pc = Root /\ SetPartitions(r, new) /\ heap' = [heap EXCEPT !["/"] = <<r, "/">>]
      /\ UNCHANGED <<literal, manifest, together>>
  BY DEF updateRootPartition, At, rootUUID
<1>2. IsTable(new) /\ SameFilesystems(Partitions(r), new)
  <2> HIDE DEF i
  <2> QED BY PartitionsAre, RootKeeps
<1> HIDE DEF new
<1>3. HeapIsOfTable'
  BY <1>1 DEF IInv, HeapIsOfTable
<1>4. req[r].pc \in Offsets .. Root
  BY <1>1
<1>5. DOMAIN heap' = DOMAIN heap /\ ("/" \in DOMAIN heap => heap'["/"] = <<r, "/">>)
  BY <1>1
<1>6. "/boot" \in DOMAIN heap => heap'["/boot"] = heap["/boot"]
  BY <1>1
<1> QED BY <1>1, <1>2, <1>3, <1>4, <1>5, <1>6, TableStep, Zenon

(***************************************************************************)
(* A stage that reads the table: if r runs alone, what the stages before   *)
(* it have written is still so.                                            *)
(***************************************************************************)
LEMMA StageStep ==
    ASSUME IInv, NEW r \in Requests, NEW m, req[r].pc \in FSTab .. Mkfs, Goes(r), Writes(r, m),
           UNCHANGED <<literal, shared, heap, together>>, IsManifest(m),
           StagesAgree(r) =>
             /\ req[r].pc \in FSTab .. Sfdisk => m.fstab = Filesystems(r)
             /\ req[r].pc \in GRUB2 .. Sfdisk => m.grub2 \subseteq Filesystems(r)
             /\ req[r].pc = Mkfs => /\ m.fstab = m.mkfs /\ m.grub2 \subseteq m.mkfs
                                    /\ m.mkfs = Filesystems(r)
    PROVE  IInv'
<1>1. Running(r) /\ Holds(r) /\ Alone(r)
  BY DEF Running, IInv
<1>2. req' = [req EXCEPT ![r].pc = @ + 1] /\ manifest' = [manifest EXCEPT ![r] = m]
  BY DEF Goes, Writes
<1>3. /\ Shapes' /\ manifest'[r] = m
      /\ \A q \in Requests : q # r => req'[q] = req[q] /\ manifest'[q] = manifest[q]
  BY <1>2 DEF IInv, Shapes
<1>4. OthersAreUnchanged(r)
  BY <1>3 DEF OthersAreUnchanged
<1>5. /\ IsHandler(req'[r]) /\ req'[r].pc = req[r].pc + 1
      /\ req'[r].own = req[r].own /\ req'[r].parts = req[r].parts /\ req'[r].ask = req[r].ask
  BY <1>2, HandlerGoes
<1>6. TableIsKept' /\ HeapIsOfTable'
  BY DEF IInv, TableIsKept, HeapIsOfTable
<1>7. req'[r].pc \in GRUB2 .. Finished
  BY <1>5
<1>8. Holds(r)'
  BY <1>1, <1>3, <1>5, <1>7 DEF Holds, checkOptions
<1>9. Filesystems(r)' = Filesystems(r)
  BY <1>5, FilesystemsStay
<1>10. Alone(r)'
  <2>1. SUFFICES ASSUME r \notin together
                 PROVE  /\ Running(r)' => UUIDsAreOwn(r)' /\ StagesAgree(r)'
                        /\ Done(r)' => ManifestAgrees(r)'
    BY DEF Alone
  <2>2. UUIDsAreOwn(r) /\ StagesAgree(r)
    BY <2>1, <1>1 DEF Alone
  <2>3. UUIDsAreOwn(r)'
    BY <2>2, <1>7 DEF UUIDsAreOwn
  <2>4. StagesAgree(r)'
    <3>1. req'[r].pc \in GRUB2 .. Mkfs => m.fstab = Filesystems(r)
      BY <2>2, <1>5
    <3>2. req'[r].pc \in Sfdisk .. Mkfs => m.grub2 \subseteq Filesystems(r)
      BY <2>2, <1>5
    <3> QED BY <3>1, <3>2, <1>3, <1>9 DEF StagesAgree
  <2>5. Done(r)' => ManifestAgrees(r)'
    <3>1. HAVE Done(r)'
    <3>2. req[r].pc = Mkfs
      BY <3>1, <1>5 DEF Done, At
    <3>3. m.fstab = m.mkfs /\ m.grub2 \subseteq m.mkfs /\ m.mkfs = Filesystems(r)
      BY <2>2, <3>2
    <3>4. \A f \in m.mkfs : f[2] \in {Fixed, <<r, f[1]>>}
      BY <2>2, <3>2, <3>3, FilesystemsAreOwn
    <3> QED BY <3>3, <3>4, <1>3 DEF ManifestAgrees
  <2> QED BY <2>3, <2>4, <2>5
<1> QED BY <1>1, <1>3, <1>4, <1>6, <1>8, <1>10, StepOfRunning

LEMMA FSTabStep ==
    ASSUME IInv, NEW r \in Requests, FSTabStageOptionsV2(r)
    PROVE  IInv'
<1> DEFINE m == [manifest[r] EXCEPT !.fstab = Filesystems(r)]
<1>1. req[r].pc = FSTab /\ Goes(r) /\ Writes(r, m) /\ UNCHANGED <<literal, shared, heap, together>>
  BY DEF FSTabStageOptionsV2, At
<1>2. IsManifest(manifest[r])
  BY DEF IInv, Holds
<1>3. IsManifest(m) /\ m.fstab = Filesystems(r)
  BY <1>2 DEF IsManifest
<1> HIDE DEF m
<1>4. /\ req[r].pc \in FSTab .. Mkfs
      /\ req[r].pc \notin GRUB2 .. Sfdisk /\ req[r].pc # Mkfs
  BY <1>1
<1> QED BY <1>1, <1>3, <1>4, StageStep, Zenon

LEMMA grub2Step ==
    ASSUME IInv, NEW r \in Requests, grub2StageOptions(r)
    PROVE  IInv'
<1> DEFINE root == {f \in Filesystems(r) : f[1] \in {"/", "/boot"}}
           m == [manifest[r] EXCEPT !.grub2 = root]
<1>1. req[r].pc = GRUB2 /\ Goes(r) /\ Writes(r, m) /\ UNCHANGED <<literal, shared, heap, together>>
  BY DEF grub2StageOptions, At
<1>2. root \subseteq Filesystems(r)
  OBVIOUS
<1> HIDE DEF root
<1>3. IsManifest(manifest[r])
  BY DEF IInv, Holds
<1>4. IsManifest(m) /\ m.grub2 = root /\ m.fstab = manifest[r].fstab
  BY <1>3 DEF IsManifest
<1> HIDE DEF m
<1>5. req[r].pc \in FSTab .. Mkfs /\ req[r].pc # Mkfs
  BY <1>1
<1>6. StagesAgree(r) => m.fstab = Filesystems(r) /\ m.grub2 \subseteq Filesystems(r)
  BY <1>1, <1>2, <1>4 DEF StagesAgree
<1> QED BY <1>1, <1>4, <1>5, <1>6, StageStep, Zenon

LEMMA sfdiskStep ==
    ASSUME IInv, NEW r \in Requests, sfdiskStageOptions(r)
    PROVE  IInv'
<1> DEFINE size == req[r].size
           parts == Partitions(r)
           g == manifest[r]
           m == [g EXCEPT !.size = size, !.sfdisk = parts]
<1>1. req[r].pc = Sfdisk /\ Goes(r) /\ Writes(r, m) /\ UNCHANGED <<literal, shared, heap, together>>
  BY DEF sfdiskStageOptions, At
<1>2. DOMAIN g = {"fstab", "grub2", "size", "sfdisk", "mkfs"}
  <2>1. IsManifest(g)
    BY DEF IInv, Holds
  <2> HIDE DEF g
  <2> QED BY <2>1 DEF IsManifest
<1> HIDE DEF size, parts, g
<1>3. DOMAIN m = DOMAIN g /\ m = [x \in DOMAIN g |-> m[x]] /\ m.fstab = g.fstab /\ m.grub2 = g.grub2
  BY <1>2
<1> HIDE DEF m
<1>4. m = [fstab |-> m.fstab, grub2 |-> m.grub2, size |-> m.size, sfdisk |-> m.sfdisk, mkfs |-> m.mkfs]
  BY <1>2, <1>3
<1>5. IsManifest(m)
  BY <1>4 DEF IsManifest
<1>6. req[r].pc \in FSTab .. Mkfs /\ req[r].pc # Mkfs
  BY <1>1
<1>7. StagesAgree(r) => m.fstab = Filesystems(r) /\ m.grub2 \subseteq Filesystems(r)
  <2>1. StagesAgree(r) => manifest[r].fstab = Filesystems(r) /\ manifest[r].grub2 \subseteq Filesystems(r)
    BY <1>1 DEF StagesAgree
  <2>2. g = manifest[r]
    BY DEF g
  <2> QED BY <2>1, <2>2, <1>3, Zenon
<1> QED BY <1>1, <1>5, <1>6, <1>7, StageStep, Zenon

LEMMA mkfsStep ==
    ASSUME IInv, NEW r \in Requests, mkfsStages(r)
    PROVE  IInv'
<1> DEFINE m == [manifest[r] EXCEPT !.mkfs = Filesystems(r)]
<1>1. req[r].pc = Mkfs /\ Goes(r) /\ Writes(r, m) /\ UNCHANGED <<literal, shared, heap, together>>
  BY DEF mkfsStages, At
<1>2. IsManifest(manifest[r])
  BY DEF IInv, Holds
<1>3. IsManifest(m) /\ m.mkfs = Filesystems(r) /\ m.fstab = manifest[r].fstab /\ m.grub2 = manifest[r].grub2
  BY <1>2 DEF IsManifest
<1> HIDE DEF m
<1>4. req[r].pc \in FSTab .. Mkfs /\ req[r].pc \notin FSTab .. Sfdisk /\ req[r].pc \notin GRUB2 .. Sfdisk
  BY <1>1
<1>5. StagesAgree(r) => m.fstab = m.mkfs /\ m.grub2 \subseteq m.mkfs
  BY <1>1, <1>3 DEF StagesAgree
<1> QED BY <1>1, <1>3, <1>4, <1>5, StageStep, Zenon

LEMMA RestartStep ==
    ASSUME IInv, Restart
    PROVE  IInv'
<1>1. literal' = literal /\ literal \in BaseTables /\ shared' = literal /\ heap' = LiteralUUIDs(literal)
  BY DEF Restart, IInv, TableIsKept
<1>2. TableIsKept'
  BY <1>1, LiteralIsTable DEF TableIsKept
<1>3. HeapIsOfTable'
  BY <1>1, LiteralHeap DEF HeapIsOfTable
<1>4. Shapes'
  BY DEF Restart, Shapes
<1>5. ASSUME NEW r \in Requests
      PROVE  Holds(r)' /\ Alone(r)' /\ ~Running(r)'
  <2>1. CASE Running(r)
    <3>1. req'[r] = Waiting /\ manifest'[r] = Empty
      BY <2>1 DEF Restart
    <3> QED BY <3>1 DEF Waiting, Empty, Holds, Alone, IsHandler, IsManifest, Running, Done, At
  <2>2. CASE ~Running(r)
    <3>1. req'[r] = req[r] /\ manifest'[r] = manifest[r] /\ (r \in together' <=> r \in together)
      BY <2>2 DEF Restart
    <3>2. Holds(r) /\ Alone(r)
      BY DEF IInv
    <3>3. Holds(r)'
      BY <3>1, <3>2, <1>1 DEF Holds
    <3>4. (Running(r)' <=> Running(r)) /\ (Done(r)' <=> Done(r)) /\ (ManifestAgrees(r)' <=> ManifestAgrees(r))
      BY <3>1 DEF Running, Done, At, ManifestAgrees
    <3>5. Alone(r)'
      BY <2>2, <3>1, <3>2, <3>4, Zenon DEF Alone
    <3> QED BY <2>2, <3>3, <3>4, <3>5
  <2> QED BY <2>1, <2>2
<1>6. TogetherIsKnown'
  BY <1>5 DEF TogetherIsKnown
<1> QED BY <1>2, <1>3, <1>4, <1>5, <1>6 DEF IInv

LEMMA EveryStep ==
    ASSUME IInv, [Next]_vars
    PROVE  IInv'
<1>1. CASE UNCHANGED vars
  BY <1>1 DEF vars, IInv, Shapes, TableIsKept, HeapIsOfTable, TogetherIsKnown, Holds, Alone, Running, Done, At,
              UUIDsAreOwn, StagesAgree, ManifestAgrees, Filesystems, Partitions, UUID
<1>2. CASE Restart
  BY <1>2, RestartStep
<1>3. ASSUME NEW r \in Requests, Step(r)
      PROVE  IInv'
  BY <1>3, ManifestStep, SetBootUUIDStep, AppendMountpointsStep, GrowToTableStep, UpdateOffsetsStep,
     updateRootPartitionStep, FSTabStep, grub2Step, sfdiskStep, mkfsStep, Zenon DEF Step
<1> QED BY <1>1, <1>2, <1>3, Zenon DEF Next

-----------------------------------------------------------------------------
(***************************************************************************)
(* The second layer, from the first.  The size of an image first.          *)
(***************************************************************************)
LEMMA RoundUpIn ==
    ASSUME NEW size \in Nat, NEW unit \in Nat \ {0}
    PROVE  RoundUp(size, unit) \in Sectors
<1> DEFINE q == (size + unit - 1) \div unit
<1>1. size + unit - 1 \in Nat
  OBVIOUS
<1>2. q \in Nat
  BY <1>1, DivIs
<1> HIDE DEF q
<1>3. q * unit \in Int
  BY <1>2
<1>4. (q * unit) % Word \in 0 .. Word - 1
  BY <1>3, ModIn, ScaleAssumption
<1> QED BY <1>4 DEF RoundUp, q, Sectors

LEMMA ImageSizeIs ==
    ASSUME NEW ask \in Asks
    PROVE  ImageSize(ask) \in Sectors
<1> DEFINE m == Len(ask.mounts)
           s == [i \in DOMAIN ask.mounts |-> ask.mounts[i].MinSize]
           least == GetFilesystemsMinSize(ask.mounts)
<1>1. m \in Nat /\ AreSizes(ask.mounts, m) /\ ask.Size \in Sectors
  BY AskIs
<1>2. IsSizes(s, m)
  BY <1>1 DEF AreSizes, IsSizes
<1>3. least = RoundUp(Total(s) % Word, sectorSize)
  BY DEF GetFilesystemsMinSize
<1> HIDE DEF m, s, least
<1>4. Total(s) \in Nat
  BY <1>1, <1>2, TotalsAre
<1>5. Total(s) % Word \in Nat
  BY <1>4, ModIn, ScaleAssumption
<1>6. least \in Sectors
  BY <1>3, <1>5, RoundUpIn, ScaleAssumption
<1> DEFINE x == IF least > ask.Size THEN least ELSE ask.Size
<1>7. x \in Sectors /\ x \in Nat
  BY <1>1, <1>6, SectorsAre
<1>8. ImageSize(ask) = Size(ask, x)
  BY DEF ImageSize, least
<1> HIDE DEF x
<1>9. RoundUp(x, MegaByte) \in Sectors
  BY <1>7, RoundUpIn, ScaleAssumption
<1> QED BY <1>7, <1>8, <1>9, ScaleAssumption DEF Size

LEMMA LeftoverGrows ==
    ASSUME literal \in BaseTables, NEW parts, NEW mounts, IsFor(parts, literal, mounts),
           NEW a \in Nat, NEW b \in Nat, a <= b, Leftover(parts, literal, a)
    PROVE  Leftover(parts, literal, b)
<1>1. RootAt(literal) \in 1 .. Len(parts) /\ \A i \in 1 .. Len(parts) : parts[i].size \in Sectors
  BY ForIs, RootIsFound
<1>2. parts[RootAt(literal)].size \in Nat
  BY <1>1, SectorsAre
<1>3. Total(OtherSizes(literal)) \in Nat
  BY LiteralIsFor
<1>4. a \div sectorSize \in Nat /\ b \div sectorSize \in Nat /\ a \div sectorSize <= b \div sectorSize
  BY DivIs, DivMono, ScaleAssumption
<1> QED BY <1>2, <1>3, <1>4, ScaleAssumption DEF Leftover

LEMMA PartitionsAreFor ==
    ASSUME IInv, LInv, NEW r \in Requests, req[r].pc > Mountpoints
    PROVE  IsFor(Partitions(r), literal, req[r].ask.mounts) /\ IsTable(Partitions(r))
<1>1. req[r].pc \in 0 .. 10 /\ (req[r].pc # 0 => req[r].ask \in Asks)
  BY DEF IInv, Holds
<1>2. req[r].ask \in Asks
  BY <1>1
<1>3. Len(req[r].ask.mounts) \in Nat /\ AreSizes(req[r].ask.mounts, Len(req[r].ask.mounts))
  BY <1>2, AskIs
<1>4. IsFor(shared, literal, <<>>)
  BY DEF LInv, TableIsFound
<1>5. OnlyRoot(req[r].ask.mounts) => IsFor(shared, literal, req[r].ask.mounts)
  BY <1>3, <1>4, ForRootOnly
<1>6. /\ req[r].own => IsFor(req[r].parts, literal, req[r].ask.mounts)
      /\ ~req[r].own => OnlyRoot(req[r].ask.mounts)
  BY DEF LInv, Handled
<1>7. IsTable(Partitions(r))
  BY PartitionsAre
<1> QED BY <1>5, <1>6, <1>7 DEF Partitions

LEMMA LInitially ==
    ASSUME Init
    PROVE  LInv
<1>1. literal \in BaseTables /\ shared = literal /\ largest = 0 /\ restarts = 0
  BY DEF Init
<1>2. IsFor(shared, literal, <<>>)
  BY <1>1, LiteralIsFor
<1>3. Leftover(shared, literal, largest)
  BY <1>1 DEF Leftover
<1>4. TableIsFound
  BY <1>1, <1>2, <1>3, SectorsAre, ScaleAssumption DEF TableIsFound
<1>5. ASSUME NEW r \in Requests
      PROVE  Handled(r) /\ Written(r)
  <2>1. req[r].pc = 0 /\ req[r].own = FALSE /\ req[r].size = 0
    BY DEF Init, Waiting
  <2> QED BY <2>1, SectorsAre DEF Handled, Written, Running
<1> QED BY <1>4, <1>5 DEF LInv

LEMMA LRestartStep ==
    ASSUME IInv, LInv, Restart
    PROVE  LInv'
<1>1. literal' = literal /\ literal \in BaseTables /\ shared' = literal /\ largest' = 0
  BY DEF Restart, IInv, TableIsKept
<1>2. restarts' \in 0 .. Restarts
  BY ScaleAssumption DEF Restart, LInv, TableIsFound
<1>3. IsFor(shared', literal', <<>>)
  BY <1>1, LiteralIsFor
<1>4. Leftover(shared', literal', largest')
  BY <1>1 DEF Leftover
<1>5. TableIsFound'
  BY <1>1, <1>2, <1>3, <1>4, SectorsAre DEF TableIsFound
<1>6. ASSUME NEW r \in Requests
      PROVE  Handled(r)' /\ Written(r)'
  <2>1. CASE Running(r)
    <3>1. req'[r].pc = 0 /\ req'[r].own = FALSE /\ req'[r].size = 0
      BY <2>1 DEF Restart, Waiting
    <3> QED BY <3>1, SectorsAre DEF Handled, Written, Running
  <2>2. CASE ~Running(r)
    <3>1. /\ req'[r] = req[r] /\ manifest'[r] = manifest[r]
          /\ (r \in together' <=> r \in together) /\ (r \in disturbed' <=> r \in disturbed)
      BY <2>2 DEF Restart
    <3>2. Handled(r) /\ Written(r)
      BY DEF LInv
    <3>3. ~Running(r)'
      BY <2>2, <3>1 DEF Running
    <3>4. req[r].pc # 3
      BY <2>2 DEF Running
    <3>5. Handled(r)'
      BY <1>1, <3>1, <3>2, <3>3, <3>4 DEF Handled
    <3>6. Written(r)'
      BY <1>1, <3>1, <3>2 DEF Written, Layout
    <3> QED BY <3>5, <3>6
  <2> QED BY <2>1, <2>2
<1> QED BY <1>5, <1>6 DEF LInv

(***************************************************************************)
(* A step of a running request r, for the others.                          *)
(***************************************************************************)
HistoryIsUnchanged == UNCHANGED <<misfit, largest, disturbed, restarts>>

LEMMA LStepOfRunning ==
    ASSUME IInv, LInv, NEW r \in Requests, Running(r), OthersAreUnchanged(r), HistoryIsUnchanged,
           Placed(shared) => Placed(shared'),
           IsFor(shared', literal, <<>>), ~misfit => Leftover(shared', literal, largest), Handled(r)', Written(r)'
    PROVE  LInv'
<1>1. /\ literal' = literal /\ together' = together
      /\ misfit' = misfit /\ largest' = largest /\ disturbed' = disturbed /\ restarts' = restarts
  BY DEF OthersAreUnchanged, HistoryIsUnchanged
<1>2. TableIsFound'
  BY <1>1 DEF LInv, TableIsFound
<1>3. ASSUME NEW q \in Requests, q # r
      PROVE  Handled(q)' /\ Written(q)'
  <2>1. req'[q] = req[q] /\ manifest'[q] = manifest[q]
    BY <1>3 DEF OthersAreUnchanged
  <2>2. Handled(q) /\ Written(q)
    BY DEF LInv
  <2>3. Running(q)' <=> Running(q)
    BY <2>1 DEF Running
  <2>4. Running(q) => q \in together
    BY <1>3 DEF IInv, TogetherIsKnown
  <2>5. /\ req[q].own => Partitions(q)' = Partitions(q)
        /\ Placed(Partitions(q)) => Placed(Partitions(q)')
    BY <2>1 DEF Partitions
  <2>6. (Fits(req[q].ask)' <=> Fits(req[q].ask)) /\ (Dwarfed(q)' <=> Dwarfed(q))
    BY <1>1, <2>1 DEF Fits, Needed, Dwarfed
  <2>7. Handled(q)'
    BY <1>1, <2>1, <2>2, <2>3, <2>4, <2>5, <2>6 DEF Handled
  <2>8. Written(q)'
    BY <1>1, <2>1, <2>2 DEF Written, Layout
  <2> QED BY <2>7, <2>8
<1> QED BY <1>2, <1>3 DEF LInv

LEMMA LManifestStep ==
    ASSUME IInv, LInv, NEW r \in Requests, Manifest(r)
    PROVE  LInv'
<1> DEFINE others == {q \in Requests : Running(q)}
<1>1. PICK ask \in Asks :
        /\ req' = [req EXCEPT ![r] = [Waiting EXCEPT !.pc = BootUUID, !.ask = ask, !.size = ImageSize(ask)]]
        /\ misfit' = (misfit \/ ~Fits(ask))
        /\ largest' = IF ImageSize(ask) > largest THEN ImageSize(ask) ELSE largest
  BY DEF Manifest
<1>2. /\ literal' = literal /\ literal \in BaseTables /\ shared' = shared /\ manifest' = manifest
      /\ restarts' = restarts /\ req[r].pc = Idle
      /\ together' = together \cup (IF others = {} THEN {} ELSE others \cup {r})
      /\ disturbed' = disturbed \cup {q \in others \cup {r} : misfit' \/ Dwarfed(q)'}
  BY DEF Manifest, At, IInv, TableIsKept
<1>3. ImageSize(ask) \in Sectors /\ ImageSize(ask) \in Nat
  BY ImageSizeIs, SectorsAre
<1>4. largest \in Sectors /\ largest \in Nat
  BY SectorsAre DEF LInv, TableIsFound
<1>5. largest' \in Sectors /\ largest' \in Nat /\ largest <= largest' /\ ImageSize(ask) <= largest'
  BY <1>1, <1>3, <1>4
<1>6. ~misfit' => ~misfit /\ Fits(ask)
  BY <1>1
<1>7. TableIsFound'
  <2>1. IsFor(shared, literal, <<>>) /\ (~misfit => Leftover(shared, literal, largest)) /\ restarts \in 0 .. Restarts
    BY DEF LInv, TableIsFound
  <2>2. ~misfit' => Leftover(shared, literal, largest')
    BY <1>2, <1>4, <1>5, <1>6, <2>1, LeftoverGrows
  <2> QED BY <1>2, <1>5, <2>1, <2>2 DEF TableIsFound
<1>8. /\ req'[r].pc = 1 /\ req'[r].own = FALSE /\ req'[r].ask = ask /\ req'[r].size = ImageSize(ask)
      /\ \A q \in Requests : q # r => req'[q] = req[q]
  BY <1>1 DEF IInv, Shapes, Waiting
<1>9. Handled(r)' /\ Written(r)'
  <2>1. ~misfit' => Fits(req[r].ask)'
    BY <1>2, <1>6, <1>8 DEF Fits, Needed
  <2>2. r \notin disturbed' => ~misfit' /\ ~Dwarfed(r)'
    BY <1>2
  <2>3. Handled(r)'
    BY <1>3, <1>5, <1>8, <2>1, <2>2 DEF Handled
  <2> QED BY <1>8, <2>3 DEF Written
<1>10. ASSUME NEW q \in Requests, q # r
       PROVE  Handled(q)' /\ Written(q)'
  <2>1. req'[q] = req[q] /\ manifest'[q] = manifest[q]
    BY <1>2, <1>8, <1>10
  <2>2. Handled(q) /\ Written(q)
    BY DEF LInv
  <2>3. (Running(q)' <=> Running(q)) /\ Partitions(q)' = Partitions(q) /\ (Fits(req[q].ask)' <=> Fits(req[q].ask))
    BY <1>2, <2>1 DEF Running, Partitions, Fits, Needed
  <2>4. /\ q \notin together' => q \notin together
        /\ q \notin disturbed' => q \notin disturbed
        /\ Running(q) /\ q \notin disturbed' => ~misfit' /\ ~Dwarfed(q)'
    BY <1>2
  <2>5. req[q].size \in Nat
    BY <2>2, SectorsAre DEF Handled
  <2>6. req[q].pc = TableSize /\ req[q].own /\ ~misfit' => Leftover(req[q].parts, literal, largest')
    <3>1. HAVE req[q].pc = TableSize /\ req[q].own /\ ~misfit'
    <3>2. IsFor(req[q].parts, literal, req[q].ask.mounts) /\ Leftover(req[q].parts, literal, largest)
      BY <1>6, <2>2, <3>1 DEF Handled
    <3> QED BY <1>2, <1>4, <1>5, <3>2, LeftoverGrows
  <2>7. Running(q) /\ ~misfit' => req[q].size <= largest'
    BY <1>4, <1>5, <1>6, <2>2, <2>5 DEF Handled
  <2>8. Handled(q)'
    BY <1>2, <1>6, <2>1, <2>2, <2>3, <2>4, <2>6, <2>7 DEF Handled
  <2>9. Written(q)'
    BY <1>2, <2>1, <2>2, <2>4 DEF Written, Layout
  <2> QED BY <2>8, <2>9
<1> QED BY <1>7, <1>9, <1>10 DEF LInv

(***************************************************************************)
(* A step that leaves the tables alone.                                    *)
(***************************************************************************)
LEMMA GoesOn ==
    ASSUME IInv, LInv, NEW r \in Requests, req[r].pc \in {BootUUID} \cup FSTab .. Mkfs, Goes(r), OthersAreUnchanged(r),
           HistoryIsUnchanged, shared' = shared, Written(r)'
    PROVE  LInv'
<1>1. /\ literal' = literal /\ together' = together
      /\ misfit' = misfit /\ largest' = largest /\ disturbed' = disturbed
  BY DEF OthersAreUnchanged, HistoryIsUnchanged
<1>2. /\ req'[r].pc = req[r].pc + 1 /\ req'[r].own = req[r].own /\ req'[r].parts = req[r].parts
      /\ req'[r].ask = req[r].ask /\ req'[r].size = req[r].size
  BY HandlerGoes DEF Goes
<1>3. Running(r) /\ Handled(r)
  BY DEF LInv, Running
<1>4. Partitions(r)' = Partitions(r) /\ (Fits(req[r].ask)' <=> Fits(req[r].ask)) /\ (Dwarfed(r)' <=> Dwarfed(r))
  BY <1>1, <1>2 DEF Partitions, Fits, Needed, Dwarfed
<1>5. /\ req'[r].pc > 2 => req[r].pc > 2
      /\ req'[r].pc # 3
      /\ req'[r].pc > 4 => req[r].pc > 4
      /\ req'[r].pc > 5 => req[r].pc > 5
  BY <1>2
<1>6. Handled(r)'
  BY <1>1, <1>2, <1>3, <1>4, <1>5 DEF Handled
<1>7. IsFor(shared', literal, <<>>) /\ (~misfit => Leftover(shared', literal, largest))
  BY DEF LInv, TableIsFound
<1> QED BY <1>3, <1>6, <1>7, LStepOfRunning

LEMMA LSetBootUUIDStep ==
    ASSUME IInv, LInv, NEW r \in Requests, SetBootUUID(r)
    PROVE  LInv'
<1>1. req[r].pc = BootUUID /\ Goes(r) /\ shared' = shared /\ manifest' = manifest /\ HistoryIsUnchanged
  BY DEF SetBootUUID, At, HistoryIsUnchanged
<1>2. OthersAreUnchanged(r)
  BY DEF SetBootUUID, Goes, OthersAreUnchanged, IInv, Shapes
<1>3. req'[r].pc = 2
  <2>1. req'[r].pc = req[r].pc + 1
    BY <1>1, HandlerGoes DEF Goes
  <2> QED BY <1>1, <2>1
<1>4. Written(r)'
  BY <1>3 DEF Written
<1> QED BY <1>1, <1>2, <1>4, GoesOn

LEMMA StageGoesOn ==
    ASSUME IInv, LInv, NEW r \in Requests, NEW m, req[r].pc \in FSTab .. Mkfs, Goes(r), Writes(r, m),
           UNCHANGED <<literal, shared, together>>, HistoryIsUnchanged,
           req[r].pc = Sfdisk => m.size = req[r].size /\ m.sfdisk = Partitions(r),
           req[r].pc = Mkfs => m.size = manifest[r].size /\ m.sfdisk = manifest[r].sfdisk
    PROVE  LInv'
<1>1. /\ manifest'[r] = m
      /\ \A q \in Requests : q # r => req'[q] = req[q] /\ manifest'[q] = manifest[q]
  BY DEF Goes, Writes, IInv, Shapes
<1>2. OthersAreUnchanged(r)
  BY <1>1 DEF OthersAreUnchanged
<1>3. /\ req'[r].pc = req[r].pc + 1 /\ req'[r].own = req[r].own
      /\ req'[r].ask = req[r].ask /\ req'[r].size = req[r].size
  BY HandlerGoes DEF Goes
<1>4. Running(r) /\ Handled(r) /\ Written(r)
  BY DEF LInv, Running
<1>5. literal' = literal /\ together' = together /\ disturbed' = disturbed
  BY DEF HistoryIsUnchanged
<1>6. Written(r)'
  <2>1. CASE req[r].pc = Sfdisk
    <3>1. IsFor(Partitions(r), literal, req[r].ask.mounts)
      BY <2>1, PartitionsAreFor
    <3>2. Placed(Partitions(r))
      BY <1>4, <2>1 DEF Handled
    <3>3. r \notin disturbed /\ (r \notin together \/ req[r].own) =>
            req[r].size = ImageSize(req[r].ask) /\ Fills(Partitions(r), literal, req[r].size)
      BY <1>4, <2>1 DEF Handled
    <3> QED BY <1>1, <1>3, <1>5, <2>1, <3>1, <3>2, <3>3 DEF Written, Layout
  <2>2. CASE req[r].pc = Mkfs
    BY <1>1, <1>3, <1>4, <1>5, <2>2 DEF Written, Layout
  <2>3. CASE req[r].pc \notin {Sfdisk, Mkfs}
    BY <1>3, <2>3 DEF Written
  <2> QED BY <2>1, <2>2, <2>3
<1>7. req[r].pc \in {BootUUID} \cup FSTab .. Mkfs
  OBVIOUS
<1> QED BY <1>2, <1>6, <1>7, GoesOn

LEMMA LStageStep ==
    ASSUME IInv, LInv, NEW r \in Requests,
           FSTabStageOptionsV2(r) \/ grub2StageOptions(r) \/ sfdiskStageOptions(r) \/ mkfsStages(r)
    PROVE  LInv'
<1> DEFINE g == manifest[r]
<1>1. IsManifest(g)
  BY DEF IInv, Holds
<1>2. CASE FSTabStageOptionsV2(r)
  <2> DEFINE m == [g EXCEPT !.fstab = Filesystems(r)]
  <2>1. req[r].pc = 6 /\ Goes(r) /\ Writes(r, m) /\ UNCHANGED <<literal, shared, together>> /\ HistoryIsUnchanged
    BY <1>2 DEF FSTabStageOptionsV2, At, HistoryIsUnchanged
  <2> HIDE DEF m
  <2> QED BY <2>1, StageGoesOn
<1>3. CASE grub2StageOptions(r)
  <2> DEFINE m == [g EXCEPT !.grub2 = {f \in Filesystems(r) : f[1] \in {"/", "/boot"}}]
  <2>1. req[r].pc = 7 /\ Goes(r) /\ Writes(r, m) /\ UNCHANGED <<literal, shared, together>> /\ HistoryIsUnchanged
    BY <1>3 DEF grub2StageOptions, At, HistoryIsUnchanged
  <2> HIDE DEF m
  <2> QED BY <2>1, StageGoesOn
<1>4. CASE sfdiskStageOptions(r)
  <2> DEFINE size == req[r].size
             parts == Partitions(r)
             m == [g EXCEPT !.size = size, !.sfdisk = parts]
  <2>1. req[r].pc = 8 /\ Goes(r) /\ Writes(r, m) /\ UNCHANGED <<literal, shared, together>> /\ HistoryIsUnchanged
    BY <1>4 DEF sfdiskStageOptions, At, HistoryIsUnchanged
  <2> HIDE DEF g, size, parts
  <2>2. DOMAIN g = {"fstab", "grub2", "size", "sfdisk", "mkfs"}
    BY <1>1 DEF IsManifest
  <2>3. m.size = size /\ m.sfdisk = parts
    BY <2>2
  <2> HIDE DEF m
  <2> QED BY <2>1, <2>3, StageGoesOn DEF size, parts
<1>5. CASE mkfsStages(r)
  <2> DEFINE m == [g EXCEPT !.mkfs = Filesystems(r)]
  <2>1. req[r].pc = 9 /\ Goes(r) /\ Writes(r, m) /\ UNCHANGED <<literal, shared, together>> /\ HistoryIsUnchanged
    BY <1>5 DEF mkfsStages, At, HistoryIsUnchanged
  <2>2. m.size = manifest[r].size /\ m.sfdisk = manifest[r].sfdisk
    BY <1>1 DEF IsManifest
  <2> HIDE DEF m
  <2> QED BY <2>1, <2>2, StageGoesOn
<1> QED BY <1>2, <1>3, <1>4, <1>5

(***************************************************************************)
(* The arithmetic of a request that fits: the table is no larger than the  *)
(* largest image, nor than this one if none is far larger, and the root    *)
(* partition takes the rest of the disk.                                   *)
(***************************************************************************)
LEMMA FitsIs ==
    ASSUME literal \in BaseTables, NEW ask \in Asks, Fits(ask), NEW parts, IsFor(parts, literal, ask.mounts)
    PROVE  LET other == Total(OtherSizes(literal))
               asked == Total(AskedSectors(ask.mounts))
               root == literal[RootAt(literal)].size
           IN  /\ other \in Nat /\ asked \in Nat /\ root \in Nat /\ parts[RootAt(literal)].size \in Nat
               /\ Total(OtherSizes(parts)) = other + asked
               /\ Total(Sizes(parts)) = other + asked + parts[RootAt(literal)].size
               /\ ImageSize(ask) \div sectorSize > FirstSector + Spare + (other + root) + asked
<1> DEFINE other == Total(OtherSizes(literal))
           asked == Total(AskedSectors(ask.mounts))
           root == literal[RootAt(literal)].size
           size == parts[RootAt(literal)].size
<1>1. other \in Nat /\ IsFor(literal, literal, <<>>)
  BY LiteralIsFor
<1>2. asked \in Nat
  BY AskIs, AskedTotal
<1>3. Total(Sizes(literal)) = other + root
  BY <1>1, ForTotals
<1>4. root \in Sectors
  BY RootIsOne, LiteralIs
<1>5. Total(OtherSizes(parts)) = other + asked
  BY ForIs
<1>6. Total(Sizes(parts)) = Total(OtherSizes(parts)) + size
  BY ForTotals
<1>7. size \in Sectors
  BY RootIsFound, ForIs
<1>8. ImageSize(ask) \div sectorSize > FirstSector + Spare + Total(Sizes(literal)) + asked
  BY DEF Fits, Needed
<1> HIDE DEF other, asked, root, size
<1>9. root \in Nat /\ size \in Nat
  BY <1>4, <1>7, SectorsAre
<1>10. /\ other \in Nat /\ asked \in Nat /\ root \in Nat /\ size \in Nat
       /\ Total(OtherSizes(parts)) = other + asked
       /\ Total(Sizes(parts)) = other + asked + size
       /\ ImageSize(ask) \div sectorSize > FirstSector + Spare + (other + root) + asked
  BY <1>1, <1>2, <1>3, <1>5, <1>6, <1>8, <1>9
<1> QED BY <1>10 DEF other, asked, root, size

LEMMA TableFits ==
    ASSUME literal \in BaseTables, NEW ask \in Asks, Fits(ask), NEW parts, IsFor(parts, literal, ask.mounts),
           NEW bound \in Sectors, ImageSize(ask) <= bound, Leftover(parts, literal, bound)
    PROVE  LET size == getPartitionTableSize(parts)
           IN  /\ size \in Sectors /\ size <= bound
               /\ bound <= (sectorSize - 1) * ImageSize(ask) => size <= ImageSize(ask)
<1> DEFINE other == Total(OtherSizes(literal))
           asked == Total(AskedSectors(ask.mounts))
           root == literal[RootAt(literal)].size
           size == parts[RootAt(literal)].size
           image == ImageSize(ask)
           total == Total(Sizes(parts))
           a == image \div sectorSize
           b == bound \div sectorSize
<1>1. /\ other \in Nat /\ asked \in Nat /\ root \in Nat /\ size \in Nat
      /\ total = other + asked + size
      /\ a > FirstSector + Spare + (other + root) + asked
  BY FitsIs
<1>2. image \in Nat /\ bound \in Nat /\ bound < Word
  BY ImageSizeIs, SectorsAre
<1>3. size = root \/ FirstSector + Spare + other + size <= b
  BY DEF Leftover
<1>4. FirstSector \in Nat /\ Spare \in Nat
  BY ScaleAssumption
<1>5. getPartitionTableSize(parts) = total % Word
  BY DEF getPartitionTableSize
<1> HIDE DEF other, asked, root, size, image, total
<1>6. a \in Nat /\ b \in Nat /\ a <= image /\ a <= b /\ 2 * b <= bound
  BY <1>2, DivIs, DivMono, DivTwice, ScaleAssumption DEF image
<1>7. bound <= (sectorSize - 1) * image => b + a <= image
  BY <1>2, DivSum, ScaleAssumption
<1> HIDE DEF a, b
<1>8. image <= bound
  BY DEF image
<1>9. total \in Nat /\ (total <= image \/ total <= a + b)
  BY <1>1, <1>3, <1>4, <1>6
<1>10. total <= bound /\ (b + a <= image => total <= image)
  BY <1>2, <1>6, <1>8, <1>9
<1>11. total \in 0 .. Word - 1
  BY <1>2, <1>9, <1>10, ScaleAssumption
<1>12. total % Word = total
  BY <1>11, ModSmall, ScaleAssumption
<1>13. /\ total \in Sectors /\ total <= bound
       /\ bound <= (sectorSize - 1) * image => total <= image
  BY <1>7, <1>10, <1>11 DEF Sectors
<1> QED BY <1>5, <1>12, <1>13 DEF image

LEMMA RootTakesRest ==
    ASSUME literal \in BaseTables, NEW ask \in Asks, Fits(ask), NEW parts, IsFor(parts, literal, ask.mounts), Placed(parts),
           NEW size \in Sectors, ImageSize(ask) <= size, NEW bound \in Sectors, size <= bound
    PROVE  LET start == parts[RootAt(literal)].start
               x == (size \div sectorSize - start - Spare) % Word
           IN  /\ start + x + Spare = size \div sectorSize
               /\ FirstSector + Spare + Total(OtherSizes(literal)) + x <= bound \div sectorSize
<1> DEFINE other == Total(OtherSizes(literal))
           asked == Total(AskedSectors(ask.mounts))
           root == literal[RootAt(literal)].size
           start == parts[RootAt(literal)].start
           image == ImageSize(ask)
           a == image \div sectorSize
           b == bound \div sectorSize
           c == size \div sectorSize
           x == (c - start - Spare) % Word
<1>1. /\ other \in Nat /\ asked \in Nat /\ root \in Nat
      /\ Total(OtherSizes(parts)) = other + asked
      /\ a > FirstSector + Spare + (other + root) + asked
  BY FitsIs
<1>2. image \in Nat /\ size \in Nat /\ bound \in Nat /\ size < Word
  BY ImageSizeIs, SectorsAre
<1>3. FirstSector \in Nat /\ Spare \in Nat
  BY ScaleAssumption
<1>4. start = (FirstSector + Total(OtherSizes(parts))) % Word
  <2>1. /\ RootAt(literal) \in 1 .. Len(parts)
        /\ parts[RootAt(literal)].mount = "/"
    BY RootIsFound
  <2>2. Total(OtherSizes(parts)) = Totals(OtherSizes(parts))[Len(parts)]
    <3>1. Len(parts) \in Nat /\ IsSizes(OtherSizes(parts), Len(parts))
      BY ForIs, ForTotals
    <3> QED BY <3>1, TotalsAre
  <2> QED BY <2>1, <2>2 DEF Placed, Before
<1> HIDE DEF other, asked, root, start, image, x
<1>5. a \in Nat /\ b \in Nat /\ c \in Nat /\ a <= c /\ c <= b /\ c <= size
  BY <1>2, DivIs, DivMono, ScaleAssumption DEF image
<1> HIDE DEF a, b, c
<1>6. FirstSector + (other + asked) \in 0 .. Word - 1
  BY <1>1, <1>2, <1>3, <1>5, ScaleAssumption
<1>7. start = FirstSector + (other + asked)
  BY <1>1, <1>4, <1>6, ModSmall, ScaleAssumption
<1>8. c - start - Spare \in 0 .. Word - 1
  BY <1>1, <1>2, <1>3, <1>5, <1>7, ScaleAssumption
<1>9. x = c - start - Spare
  BY <1>8, ModSmall, ScaleAssumption DEF x
<1>10. start + x + Spare = c /\ FirstSector + Spare + other + x <= b
  BY <1>1, <1>3, <1>5, <1>7, <1>9
<1> QED BY <1>10 DEF other, start, x, b, c

LEMMA LAppendMountpointsStep ==
    ASSUME IInv, LInv, NEW r \in Requests, AppendMountpoints(r)
    PROVE  LInv'
<1> DEFINE mounts == req[r].ask.mounts
           longer == Appended(r, shared, mounts)
           own == \E i \in DOMAIN mounts : mounts[i].mount # "/"
           parts == IF own THEN longer ELSE <<>>
           h == Moved(req[r], TableSize, own, parts)
<1>1. req[r].pc = Mountpoints /\ req' = [req EXCEPT ![r] = h]
  BY DEF AppendMountpoints, At, Moved
<1>2. UNCHANGED <<literal, shared, heap, manifest, together>> /\ HistoryIsUnchanged
  BY DEF AppendMountpoints, HistoryIsUnchanged
<1>3. req[r].ask \in Asks /\ checkOptions(req[r].ask) /\ literal \in BaseTables
  BY <1>1 DEF IInv, Holds, TableIsKept
<1>4. PICK n \in Nat : IsBuilt(longer, n, r, shared, Len(shared), mounts, Len(mounts))
  BY <1>1, SharedIsAppendedTo
<1>5. IsFor(shared, literal, <<>>) /\ (~misfit => Leftover(shared, literal, largest))
  BY DEF LInv, TableIsFound
<1>6. IsFor(longer, literal, mounts) /\ longer[RootAt(literal)] = shared[RootAt(literal)]
  BY <1>3, <1>4, <1>5, SharedIsSeq, BuiltIsFor
<1> HIDE DEF longer
<1>7. ~misfit => Leftover(longer, literal, largest)
  BY <1>5, <1>6 DEF Leftover
<1>8. ~own => OnlyRoot(mounts)
  BY DEF OnlyRoot
<1>9. own => parts = longer
  BY DEF parts
<1>10. IsHandler(req[r])
  BY DEF IInv, Holds
<1> HIDE DEF own, parts
<1>11. h.pc = 3 /\ h.own = own /\ h.parts = parts /\ h.ask = req[r].ask /\ h.size = req[r].size
  BY <1>10, MovedIs
<1> HIDE DEF h
<1>12. req'[r] = h /\ \A q \in Requests : q # r => req'[q] = req[q]
  BY <1>1 DEF IInv, Shapes
<1>13. OthersAreUnchanged(r)
  BY <1>2, <1>12 DEF OthersAreUnchanged
<1>14. Running(r) /\ Handled(r)
  BY <1>1 DEF LInv, Running
<1>15. /\ literal' = literal /\ together' = together
       /\ misfit' = misfit /\ largest' = largest /\ disturbed' = disturbed
  BY <1>2 DEF HistoryIsUnchanged
<1>16. (Fits(req[r].ask)' <=> Fits(req[r].ask)) /\ (Dwarfed(r)' <=> Dwarfed(r))
  BY <1>11, <1>12, <1>15 DEF Fits, Needed, Dwarfed
<1>17. Handled(r)'
  <2>1. req'[r].size = req[r].size /\ req'[r].ask = req[r].ask /\ req'[r].pc = 3
    BY <1>11, <1>12
  <2>2. req'[r].own => IsFor(req'[r].parts, literal', req'[r].ask.mounts)
    BY <1>6, <1>9, <1>11, <1>12, <1>15, Zenon
  <2>3. ~req'[r].own => OnlyRoot(req'[r].ask.mounts)
    BY <1>8, <1>11, <1>12, Zenon
  <2>4. req'[r].own /\ ~misfit' => Leftover(req'[r].parts, literal', largest')
    BY <1>7, <1>9, <1>11, <1>12, <1>15, Zenon
  <2> QED BY <1>14, <1>15, <1>16, <2>1, <2>2, <2>3, <2>4 DEF Handled
<1>18. Written(r)'
  BY <1>11, <1>12 DEF Written
<1>19. /\ Placed(shared) => Placed(shared')
       /\ IsFor(shared', literal, <<>>) /\ (~misfit => Leftover(shared', literal, largest))
  BY <1>2, <1>5
<1> QED BY <1>2, <1>13, <1>14, <1>17, <1>18, <1>19, LStepOfRunning

LEMMA LGrowToTableStep ==
    ASSUME IInv, LInv, NEW r \in Requests, GrowToTable(r)
    PROVE  LInv'
<1> DEFINE tableSize == getPartitionTableSize(Partitions(r))
           size == IF req[r].size < tableSize THEN tableSize ELSE req[r].size
           h == Grown(req[r], Offsets, size)
           ask == req[r].ask
<1>1. req[r].pc = TableSize /\ req' = [req EXCEPT ![r] = h]
  BY DEF GrowToTable, At, Grown
<1>2. UNCHANGED <<literal, shared, heap, manifest, together>> /\ HistoryIsUnchanged
  BY DEF GrowToTable, HistoryIsUnchanged
<1>3. ask \in Asks /\ literal \in BaseTables /\ IsHandler(req[r])
  BY <1>1 DEF IInv, Holds, TableIsKept
<1>4. IsFor(Partitions(r), literal, ask.mounts)
  BY <1>1, PartitionsAreFor
<1>5. Running(r) /\ Handled(r) /\ TableIsFound
  BY <1>1 DEF LInv, Running
<1>6. ~misfit => Leftover(Partitions(r), literal, largest)
  BY <1>1, <1>5 DEF Handled, TableIsFound, Partitions
<1>7. largest \in Sectors /\ req[r].size \in Sectors
  BY <1>5 DEF Handled, TableIsFound
<1>8. ASSUME ~misfit
      PROVE  /\ tableSize \in Sectors /\ tableSize <= largest
             /\ ~Dwarfed(r) => tableSize <= ImageSize(ask)
  <2>1. Fits(ask) /\ ImageSize(ask) <= req[r].size /\ req[r].size <= largest
    BY <1>5, <1>8 DEF Handled
  <2>2. ImageSize(ask) \in Nat /\ req[r].size \in Nat /\ largest \in Nat
    BY <1>3, <1>7, ImageSizeIs, SectorsAre
  <2>3. ImageSize(ask) <= largest
    BY <2>1, <2>2
  <2>4. /\ tableSize \in Sectors /\ tableSize <= largest
        /\ largest <= (sectorSize - 1) * ImageSize(ask) => tableSize <= ImageSize(ask)
    BY <1>3, <1>4, <1>6, <1>7, <1>8, <2>1, <2>3, TableFits
  <2>5. (sectorSize - 1) * ImageSize(ask) \in Int
    BY <2>2, ScaleAssumption
  <2> QED BY <2>2, <2>4, <2>5 DEF Dwarfed
<1>9. tableSize \in Sectors
  <2> DEFINE s == Sizes(Partitions(r))
             n == Len(Partitions(r))
  <2>1. IsSizes(s, n) /\ n \in Nat
    BY <1>3, <1>4, ForTotals, ForIs
  <2> HIDE DEF s, n
  <2>2. Total(s) \in Nat
    BY <2>1, TotalsAre
  <2>3. Total(s) % Word \in 0 .. Word - 1
    BY <2>2, ModIn, ScaleAssumption
  <2> QED BY <2>3 DEF getPartitionTableSize, Sectors, s
<1> HIDE DEF tableSize
<1>10. size \in Sectors /\ size \in Nat
  BY <1>7, <1>9, SectorsAre
<1>11. ASSUME ~misfit
       PROVE  /\ ImageSize(ask) <= size /\ size <= largest
              /\ ~Dwarfed(r) /\ req[r].size = ImageSize(ask) => size = ImageSize(ask)
  <2>1. ImageSize(ask) <= req[r].size /\ req[r].size <= largest
    BY <1>5, <1>11 DEF Handled
  <2>2. ImageSize(ask) \in Nat /\ req[r].size \in Nat /\ largest \in Nat /\ tableSize \in Nat
    BY <1>3, <1>7, <1>9, ImageSizeIs, SectorsAre
  <2> QED BY <1>8, <1>11, <2>1, <2>2
<1> HIDE DEF size
<1>12. h.pc = 4 /\ h.own = req[r].own /\ h.parts = req[r].parts /\ h.ask = ask /\ h.size = size
  BY <1>3, GrownIs
<1> HIDE DEF h
<1>13. req'[r] = h /\ \A q \in Requests : q # r => req'[q] = req[q]
  BY <1>1 DEF IInv, Shapes
<1>14. OthersAreUnchanged(r)
  BY <1>2, <1>13 DEF OthersAreUnchanged
<1>15. /\ literal' = literal /\ together' = together
       /\ misfit' = misfit /\ largest' = largest /\ disturbed' = disturbed
  BY <1>2 DEF HistoryIsUnchanged
<1>16. (Fits(req[r].ask)' <=> Fits(req[r].ask)) /\ (Dwarfed(r)' <=> Dwarfed(r))
  BY <1>12, <1>13, <1>15 DEF Fits, Needed, Dwarfed
<1>17. Handled(r)'
  <2>1. /\ req'[r].pc = 4 /\ req'[r].own = req[r].own /\ req'[r].parts = req[r].parts
        /\ req'[r].ask = req[r].ask /\ req'[r].size = size
    BY <1>12, <1>13
  <2>2. ~misfit => Fits(req[r].ask) /\ ImageSize(req[r].ask) <= size /\ size <= largest
    BY <1>5, <1>11 DEF Handled
  <2>3. r \notin disturbed => ~misfit /\ ~Dwarfed(r) /\ size = ImageSize(req[r].ask)
    BY <1>5, <1>11 DEF Handled
  <2> HIDE DEF ask
  <2> QED BY <1>1, <1>5, <1>10, <1>15, <1>16, <2>1, <2>2, <2>3 DEF Handled
<1>18. Written(r)'
  BY <1>12, <1>13 DEF Written
<1>19. /\ Placed(shared) => Placed(shared')
       /\ IsFor(shared', literal, <<>>) /\ (~misfit => Leftover(shared', literal, largest))
  BY <1>2, <1>5 DEF TableIsFound
<1> QED BY <1>2, <1>5, <1>14, <1>17, <1>18, <1>19, LStepOfRunning

(***************************************************************************)
(* A step that writes to the array of partitions.                          *)
(***************************************************************************)
LEMMA LTableStep ==
    ASSUME IInv, LInv, NEW r \in Requests, NEW new, req[r].pc \in Offsets .. Root, SetPartitions(r, new),
           UNCHANGED <<literal, manifest, together>>, HistoryIsUnchanged, Placed(new),
           req[r].own => IsFor(new, literal, req[r].ask.mounts),
           ~req[r].own => IsFor(new, literal, <<>>) /\ (~misfit => Leftover(new, literal, largest)),
           req[r].pc = Root /\ ~misfit => Fills(new, literal, req[r].size)
    PROVE  LInv'
<1>1. Running(r) /\ Handled(r) /\ TableIsFound
  BY DEF LInv, Running
<1>2. \/ /\ req[r].own /\ shared' = shared
         /\ req' = [req EXCEPT ![r].parts = new, ![r].pc = @ + 1]
      \/ /\ ~req[r].own /\ shared' = new
         /\ req' = [req EXCEPT ![r].pc = @ + 1]
  BY DEF SetPartitions
<1>3. \A q \in Requests : q # r => req'[q] = req[q]
  BY <1>2 DEF IInv, Shapes
<1>4. OthersAreUnchanged(r)
  BY <1>3 DEF OthersAreUnchanged
<1>5. /\ req'[r].pc = req[r].pc + 1 /\ req'[r].own = req[r].own
      /\ req'[r].ask = req[r].ask /\ req'[r].size = req[r].size
      /\ req[r].own => req'[r].parts = new
  BY <1>2, HandlerSets, HandlerGoes
<1>6. Partitions(r)' = new
  BY <1>2, <1>5 DEF Partitions
<1>7. /\ literal' = literal /\ together' = together
      /\ misfit' = misfit /\ largest' = largest /\ disturbed' = disturbed
  BY DEF HistoryIsUnchanged
<1>8. (Fits(req[r].ask)' <=> Fits(req[r].ask)) /\ (Dwarfed(r)' <=> Dwarfed(r))
  BY <1>5, <1>7 DEF Fits, Needed, Dwarfed
<1>9. req'[r].pc \in Root .. FSTab /\ (req'[r].pc > Root => req[r].pc = Root) /\ req[r].pc > Mountpoints
  BY <1>5
<1>10. Handled(r)'
  BY <1>1, <1>5, <1>6, <1>7, <1>8, <1>9 DEF Handled
<1>11. Written(r)'
  BY <1>9 DEF Written
<1>12. /\ Placed(shared) => Placed(shared')
       /\ IsFor(shared', literal, <<>>) /\ (~misfit => Leftover(shared', literal, largest))
  BY <1>1, <1>2 DEF TableIsFound
<1> QED BY <1>1, <1>4, <1>10, <1>11, <1>12, LStepOfRunning

LEMMA LUpdateOffsetsStep ==
    ASSUME IInv, LInv, NEW r \in Requests, UpdateOffsets(r)
    PROVE  LInv'
<1> DEFINE parts == Partitions(r)
           new == updatePartitionStartPointOffsets(parts, FirstSector)
<1>1. req[r].pc = Offsets /\ SetPartitions(r, new) /\ UNCHANGED <<literal, manifest, together>> /\ HistoryIsUnchanged
  BY DEF UpdateOffsets, At, HistoryIsUnchanged
<1>2. IsFor(parts, literal, req[r].ask.mounts) /\ IsTable(parts) /\ literal \in BaseTables
  BY <1>1, PartitionsAreFor DEF IInv, TableIsKept
<1>3. ~req[r].own => parts = shared /\ IsFor(parts, literal, <<>>) /\ (~misfit => Leftover(parts, literal, largest))
  BY DEF Partitions, LInv, TableIsFound
<1> HIDE DEF parts
<1>4. IsFor(new, literal, req[r].ask.mounts) /\ Placed(new) /\ new[RootAt(literal)].size = parts[RootAt(literal)].size
  BY <1>2, OffsetsPlace
<1>5. IsFor(parts, literal, <<>>) => IsFor(new, literal, <<>>)
  BY <1>2, OffsetsPlace
<1> HIDE DEF new
<1>6. ~misfit /\ ~req[r].own => Leftover(new, literal, largest)
  BY <1>3, <1>4 DEF Leftover
<1>7. req[r].pc \in Offsets .. Root /\ req[r].pc # Root
  BY <1>1
<1> QED BY <1>1, <1>3, <1>4, <1>5, <1>6, <1>7, LTableStep, Zenon

LEMMA LupdateRootPartitionStep ==
    ASSUME IInv, LInv, NEW r \in Requests, updateRootPartition(r)
    PROVE  LInv'
<1> DEFINE parts == Partitions(r)
           i == IndexOf(parts, "/")
           k == RootAt(literal)
           x == rootSize(r, parts[k].start)
           new == [parts EXCEPT ![k].size = x]
           ask == req[r].ask
<1>1. /\ req[r].pc = Root /\ SetPartitions(r, [parts EXCEPT ![i].size = rootSize(r, parts[i].start)])
      /\ UNCHANGED <<literal, manifest, together>> /\ HistoryIsUnchanged
  BY DEF updateRootPartition, At, HistoryIsUnchanged
<1>2. IsFor(parts, literal, ask.mounts) /\ IsTable(parts) /\ literal \in BaseTables /\ ask \in Asks
  BY <1>1, PartitionsAreFor DEF IInv, TableIsKept, Holds
<1>3. i = k /\ parts[k].start \in Sectors
  BY <1>2, RootIsFound, ForIs
<1>4. SetPartitions(r, new)
  BY <1>1, <1>3
<1>5. ~req[r].own => IsFor(parts, literal, <<>>)
  BY DEF Partitions, LInv, TableIsFound
<1>6. Running(r) /\ Handled(r) /\ TableIsFound
  BY <1>1 DEF LInv, Running
<1>7. Placed(parts)
  BY <1>1, <1>6 DEF Handled
<1> HIDE DEF parts, i, k, new
<1>8. req[r].size \in Sectors /\ req[r].size \in Nat /\ largest \in Sectors
  BY <1>6, SectorsAre DEF Handled, TableIsFound
<1>9. x = (req[r].size \div sectorSize - parts[k].start - Spare) % Word
  BY DEF rootSize
<1> HIDE DEF x
<1>10. x \in Sectors
  <2>1. req[r].size \div sectorSize \in Nat /\ parts[k].start \in Nat /\ Spare \in Nat
    BY <1>3, <1>8, DivIs, SectorsAre, ScaleAssumption
  <2>2. req[r].size \div sectorSize - parts[k].start - Spare \in Int
    BY <2>1
  <2> QED BY <1>9, <2>2, ModIn, ScaleAssumption DEF Sectors
<1>11. /\ IsFor(new, literal, ask.mounts) /\ Placed(new)
       /\ new[k].size = x /\ new[k].start = parts[k].start
  BY <1>2, <1>7, <1>10, RootIsSet DEF new, k
<1>12. ~req[r].own => IsFor(new, literal, <<>>)
  BY <1>2, <1>5, <1>10, RootIsSet DEF new, k
<1>13. ASSUME ~misfit
       PROVE  Fills(new, literal, req[r].size) /\ Leftover(new, literal, largest)
  <2>1. Fits(ask) /\ ImageSize(ask) <= req[r].size /\ req[r].size <= largest
    BY <1>6, <1>13 DEF Handled
  <2>2. /\ parts[k].start + x + Spare = req[r].size \div sectorSize
        /\ FirstSector + Spare + Total(OtherSizes(literal)) + x <= largest \div sectorSize
    BY <1>2, <1>7, <1>8, <1>9, <2>1, RootTakesRest DEF k
  <2>3. /\ new[k].start + new[k].size + Spare = req[r].size \div sectorSize
        /\ FirstSector + Spare + Total(OtherSizes(literal)) + new[k].size <= largest \div sectorSize
    BY <1>11, <2>2
  <2> QED BY <2>3 DEF Fills, Leftover, k
<1>14. req[r].pc \in Offsets .. Root
  BY <1>1
<1> QED BY <1>1, <1>4, <1>11, <1>12, <1>13, <1>14, LTableStep, Zenon

LEMMA EveryLStep ==
    ASSUME IInv, LInv, [Next]_vars
    PROVE  LInv'
<1>1. CASE UNCHANGED vars
  <2>1. ASSUME NEW r \in Requests
        PROVE  Handled(r)' /\ Written(r)'
    <3>1. Handled(r) /\ Written(r)
      BY DEF LInv
    <3>2. Partitions(r)' = Partitions(r) /\ (Fits(req[r].ask)' <=> Fits(req[r].ask)) /\ (Dwarfed(r)' <=> Dwarfed(r))
      BY <1>1 DEF vars, Partitions, Fits, Needed, Dwarfed
    <3>3. Handled(r)'
      BY <1>1, <3>1, <3>2 DEF vars, Handled, Running
    <3>4. Written(r)'
      BY <1>1, <3>1 DEF vars, Written, Layout
    <3> QED BY <3>3, <3>4
  <2>2. TableIsFound'
    BY <1>1 DEF vars, LInv, TableIsFound
  <2> QED BY <2>1, <2>2 DEF LInv
<1>2. CASE Restart
  BY <1>2, LRestartStep
<1>3. ASSUME NEW r \in Requests, Step(r)
      PROVE  LInv'
  BY <1>3, LManifestStep, LSetBootUUIDStep, LAppendMountpointsStep, LGrowToTableStep, LUpdateOffsetsStep,
     LupdateRootPartitionStep, LStageStep, Zenon DEF Step
<1> QED BY <1>1, <1>2, <1>3, Zenon DEF Next

(***************************************************************************)
(* What the second layer says of a layout.                                 *)
(***************************************************************************)
LEMMA LayoutsAreTyped ==
    ASSUME IInv, LInv
    PROVE  TypeOK
<1>1. Len(shared) = Len(literal) /\ DOMAIN shared = 1 .. Len(shared)
  BY SharedIsSeq
<1>2. IsFor(shared, literal, <<>>) /\ restarts \in 0 .. Restarts
  BY DEF LInv, TableIsFound
<1>3. /\ \A i \in 1 .. Len(shared) : shared[i].start \in Sectors /\ shared[i].size \in Sectors
      /\ \A i \in 1 .. Len(literal) : shared[i].mount = literal[i].mount
  BY <1>2, ForIs
<1>4. \A r \in Requests : req[r].pc \in Idle .. Finished /\ req[r].size \in Sectors
  BY DEF IInv, Holds, LInv, Handled
<1> QED BY <1>1, <1>2, <1>3, <1>4 DEF TypeOK

LEMMA MountsAreDistinct ==
    ASSUME literal \in BaseTables, NEW parts, NEW mounts, IsFor(parts, literal, mounts), AsksOnce(mounts)
    PROVE  \A i, j \in 1 .. Len(parts) : i # j /\ parts[i].mount # Raw => parts[i].mount # parts[j].mount
<1> DEFINE l == Len(literal)
           n == Len(parts)
<1>1. /\ n \in Nat /\ l <= n
      /\ \A i \in 1 .. l : parts[i].mount = literal[i].mount
      /\ \A i \in l + 1 .. n : parts[i].mount \in Allowed /\ parts[i].mount # "/"
  BY ForIs
<1>2. /\ l \in Nat
      /\ \A i \in 1 .. l : literal[i].mount \in {"/", "/boot", "/boot/efi", Raw}
      /\ \A i, j \in 1 .. l : i # j /\ literal[i].mount # Raw => literal[i].mount # literal[j].mount
  BY LiteralIs
<1>3. \A i, j \in l + 1 .. n : i # j => parts[i].mount # parts[j].mount
  BY DEF IsFor
<1> HIDE DEF l, n
<1>4. \A i \in l + 1 .. n : parts[i].mount \notin {"/", "/boot", "/boot/efi", Raw}
  BY <1>1, AsksAssumption
<1>5. \A i \in 1 .. n : i \in 1 .. l \/ i \in l + 1 .. n
  BY <1>1, <1>2
<1>6. ASSUME NEW i \in 1 .. n, NEW j \in 1 .. n, i # j, parts[i].mount # Raw
      PROVE  parts[i].mount # parts[j].mount
  <2>1. CASE i \in 1 .. l /\ j \in 1 .. l
    BY <1>1, <1>2, <1>6, <2>1
  <2>2. CASE i \in l + 1 .. n /\ j \in l + 1 .. n
    BY <1>3, <1>6, <2>2
  <2>3. CASE i \in 1 .. l /\ j \in l + 1 .. n
    BY <1>1, <1>2, <1>4, <2>3
  <2>4. CASE i \in l + 1 .. n /\ j \in 1 .. l
    BY <1>1, <1>2, <1>4, <2>4
  <2> QED BY <1>5, <2>1, <2>2, <2>3, <2>4
<1> QED BY <1>6 DEF n

LEMMA PlacesAreExact ==
    ASSUME literal \in BaseTables, NEW ask \in Asks, Needed(ask) < Word,
           NEW parts, IsFor(parts, literal, ask.mounts), Placed(parts)
    PROVE  LET t == Totals(OtherSizes(parts))
               root == parts[RootAt(literal)]
           IN  /\ \A i \in 0 .. Len(parts) : t[i] \in Nat
               /\ root.start = FirstSector + t[Len(parts)]
               /\ \A i \in 1 .. Len(parts) : parts[i].mount # "/" =>
                    parts[i].start = FirstSector + t[i - 1] /\ EndOf(parts[i]) = FirstSector + t[i]
<1> DEFINE n == Len(parts)
           u == OtherSizes(parts)
           t == Totals(u)
           k == RootAt(literal)
<1>1. /\ n \in Nat /\ DOMAIN parts = 1 .. n
      /\ Total(u) = Total(OtherSizes(literal)) + Total(AskedSectors(ask.mounts))
  BY ForIs
<1>2. IsSizes(u, n)
  BY ForTotals
<1>3. /\ Total(u) = t[n] /\ \A i \in 0 .. n : t[i] \in Nat
      /\ \A i \in 1 .. n : t[i] = t[i - 1] + u[i]
  BY <1>1, <1>2, TotalsAre
<1>4. \A i \in 0 .. n : t[i] <= t[n]
  <2> TAKE i \in 0 .. n
  <2>1. n \in i .. n
    BY <1>1
  <2> QED BY <1>1, <1>2, <2>1, TotalsGrow
<1>5. FirstSector + t[n] < Word
  <2>1. Total(OtherSizes(literal)) \in Nat /\ IsFor(literal, literal, <<>>)
    BY LiteralIsFor
  <2>2. Total(Sizes(literal)) = Total(OtherSizes(literal)) + literal[k].size
    BY <2>1, ForTotals
  <2>3. literal[k].size \in Nat
    BY RootIsOne, LiteralIs, SectorsAre
  <2>4. Total(AskedSectors(ask.mounts)) \in Nat
    BY AskIs, AskedTotal
  <2>5. FirstSector + Spare + Total(Sizes(literal)) + Total(AskedSectors(ask.mounts)) < Word
    BY DEF Needed
  <2> HIDE DEF u, t, k
  <2> QED BY <1>1, <1>3, <2>1, <2>2, <2>3, <2>4, <2>5, ScaleAssumption
<1>6. k \in 1 .. n /\ \A i \in 1 .. n : parts[i].mount = "/" <=> i = k
  BY RootIsFound
<1>7. \A i \in 1 .. n : parts[i].start = (FirstSector + t[IF parts[i].mount = "/" THEN n ELSE i - 1]) % Word
  BY DEF Placed, Before
<1>8. \A i \in 1 .. n : parts[i].mount # "/" => u[i] = parts[i].size
  BY <1>1 DEF OtherSizes
<1> HIDE DEF n, u, t, k
<1>9. ASSUME NEW i \in 0 .. n
      PROVE  (FirstSector + t[i]) % Word = FirstSector + t[i]
  <2>1. FirstSector + t[i] \in 0 .. Word - 1
    BY <1>1, <1>3, <1>4, <1>5, ScaleAssumption
  <2> QED BY <2>1, ModSmall, ScaleAssumption
<1>10. parts[k].start = FirstSector + t[n]
  BY <1>1, <1>6, <1>7, <1>9
<1>11. ASSUME NEW i \in 1 .. n, parts[i].mount # "/"
       PROVE  parts[i].start = FirstSector + t[i - 1] /\ EndOf(parts[i]) = FirstSector + t[i]
  <2>1. i - 1 \in 0 .. n /\ i \in 0 .. n
    BY <1>1
  <2>2. parts[i].start = FirstSector + t[i - 1]
    BY <1>7, <1>9, <1>11, <2>1
  <2>3. t[i] = t[i - 1] + parts[i].size
    BY <1>3, <1>8, <1>11
  <2>4. u[i] \in Nat /\ u[i] = parts[i].size
    BY <1>2, <1>8, <1>11 DEF IsSizes
  <2> QED BY <1>3, <2>1, <2>2, <2>3, <2>4, ScaleAssumption DEF EndOf
<1> QED BY <1>3, <1>10, <1>11 DEF n, u, t, k

LEMMA LayoutsAreDisjoint ==
    ASSUME IInv, LInv
    PROVE  PartitionsAreDisjoint
<1> SUFFICES ASSUME NEW r \in Requests, Done(r), Needed(req[r].ask) < Word
             PROVE  LET parts == Layout(r)
                        root == parts[IndexOf(parts, "/")]
                        others == {i \in DOMAIN parts : parts[i].mount # "/"}
                    IN  /\ AsksOnce(req[r].ask.mounts) =>
                             \A i, j \in DOMAIN parts : i # j /\ parts[i].mount # Raw => parts[i].mount # parts[j].mount
                        /\ \A m \in ToSet(req[r].ask.mounts) :
                             m.mount = "/" \/ \E i \in others : /\ parts[i].mount = m.mount
                                                                /\ parts[i].size = m.MinSize \div sectorSize
                        /\ \A i \in others : parts[i].start >= FirstSector /\ EndOf(parts[i]) <= root.start
                        /\ \A i, j \in others : i < j => EndOf(parts[i]) <= parts[j].start
  BY Zenon DEF PartitionsAreDisjoint
<1> DEFINE parts == Layout(r)
           ask == req[r].ask
           n == Len(parts)
           l == Len(literal)
           t == Totals(OtherSizes(parts))
           root == parts[IndexOf(parts, "/")]
           others == {i \in DOMAIN parts : parts[i].mount # "/"}
<1>1. req[r].pc = 10
  BY DEF Done, At
<1>2. literal \in BaseTables /\ ask \in Asks
  BY <1>1 DEF IInv, TableIsKept, Holds
<1>3. IsFor(parts, literal, ask.mounts) /\ Placed(parts)
  BY <1>1 DEF LInv, Written
<1>4. DOMAIN parts = 1 .. n /\ n \in Nat /\ l \in Nat
  BY <1>2, <1>3, ForIs, LiteralIs
<1>5. IndexOf(parts, "/") = RootAt(literal)
  BY <1>2, <1>3, RootIsFound
<1>6. /\ \A i \in 0 .. n : t[i] \in Nat
      /\ root.start = FirstSector + t[n]
      /\ \A i \in 1 .. n : parts[i].mount # "/" =>
           parts[i].start = FirstSector + t[i - 1] /\ EndOf(parts[i]) = FirstSector + t[i]
  BY <1>2, <1>3, <1>5, PlacesAreExact
<1>7. AsksOnce(ask.mounts) =>
        \A i, j \in DOMAIN parts : i # j /\ parts[i].mount # Raw => parts[i].mount # parts[j].mount
  BY <1>2, <1>3, <1>4, MountsAreDistinct
<1>8. ASSUME NEW m \in ToSet(ask.mounts), m.mount # "/"
      PROVE  \E i \in others : parts[i].mount = m.mount /\ parts[i].size = m.MinSize \div sectorSize
  <2>1. PICK j \in DOMAIN ask.mounts : m = ask.mounts[j]
    BY DEF ToSet
  <2>2. PICK i \in l + 1 .. n : parts[i].mount = m.mount /\ parts[i].size = m.MinSize \div sectorSize
    BY <1>3, <1>8, <2>1 DEF IsFor
  <2>3. i \in 1 .. n
    BY <1>4
  <2> QED BY <1>4, <1>8, <2>2, <2>3
<1>9. \A i \in 0 .. n : \A j \in i .. n : t[i] <= t[j]
  <2>1. IsSizes(OtherSizes(parts), n)
    BY <1>2, <1>3, ForTotals
  <2> QED BY <1>4, <2>1, TotalsGrow
<1>10. \A i \in others : i \in 1 .. n /\ parts[i].mount # "/"
  BY <1>4
<1> HIDE DEF parts, n, t, root, others
<1>11. ASSUME NEW i \in others
       PROVE  parts[i].start >= FirstSector /\ EndOf(parts[i]) <= root.start
  <2>1. i \in 0 .. n /\ i - 1 \in 0 .. n /\ n \in i .. n
    BY <1>4, <1>10
  <2>2. t[i] <= t[n] /\ t[i] \in Nat /\ t[i - 1] \in Nat /\ t[n] \in Nat
    BY <1>4, <1>6, <1>9, <2>1
  <2> QED BY <1>6, <1>10, <2>2, ScaleAssumption
<1>12. ASSUME NEW i \in others, NEW j \in others, i < j
       PROVE  EndOf(parts[i]) <= parts[j].start
  <2>1. i \in 0 .. n /\ j - 1 \in i .. n
    BY <1>4, <1>10, <1>12
  <2>2. t[i] <= t[j - 1] /\ t[i] \in Nat /\ t[j - 1] \in Nat
    BY <1>4, <1>6, <1>9, <2>1
  <2> QED BY <1>6, <1>10, <2>2, ScaleAssumption
<1> QED BY <1>7, <1>8, <1>11, <1>12, Zenon DEF parts, root, others

LEMMA RootsFill ==
    ASSUME IInv, LInv
    PROVE  RootFillsDisk
<1>1. ASSUME NEW r \in Requests, Done(r), r \notin disturbed, r \notin together \/ req[r].own
      PROVE  LET root == Layout(r)[IndexOf(Layout(r), "/")]
             IN  /\ manifest[r].size = ImageSize(req[r].ask)
                 /\ EndOf(root) + Spare = manifest[r].size \div sectorSize
  <2>1. req[r].pc = 10 /\ literal \in BaseTables
    BY <1>1 DEF Done, At, IInv, TableIsKept
  <2>2. /\ IsFor(Layout(r), literal, req[r].ask.mounts)
        /\ manifest[r].size = ImageSize(req[r].ask) /\ Fills(Layout(r), literal, manifest[r].size)
    BY <1>1, <2>1 DEF LInv, Written
  <2>3. IndexOf(Layout(r), "/") = RootAt(literal)
    BY <2>1, <2>2, RootIsFound
  <2> QED BY <2>2, <2>3 DEF Fills, EndOf
<1> QED BY <1>1, Zenon DEF RootFillsDisk

-----------------------------------------------------------------------------
(***************************************************************************)
(* Whatever requests do to the shared tables, between restarts of composer *)
(* too, the shared filesystems are the base table's, a table of its own    *)
(* that CreatePartitionTable appends to adds none to them, and a request   *)
(* that runs alone finds its own UUIDs in them.                            *)
(***************************************************************************)
THEOREM Invariant == Spec => []IInv
<1>1. Init => IInv
  BY Initially
<1>2. IInv /\ [Next]_vars => IInv'
  BY EveryStep
<1> QED BY <1>1, <1>2, PTL DEF Spec

(***************************************************************************)
(* The manifest of a request that ran alone makes the filesystems that its *)
(* fstab and its boot loader name, with UUIDs that updateRootPartition and *)
(* CreatePartitionTable drew for it, or the fixed one of /boot/efi: never  *)
(* one that an earlier request left in the shared base table.              *)
(***************************************************************************)
THEOREM Agreement == Spec => []FilesystemsAgree
<1>1. IInv => FilesystemsAgree
  BY Zenon DEF IInv, Alone, ManifestAgrees, FilesystemsAgree
<1> QED BY <1>1, Invariant, PTL

(***************************************************************************)
(* However requests interleave on the shared base table, and whatever      *)
(* sizes an integer wraps at: the table and every array appended to it     *)
(* hold the partitions of the source and of the mountpoints asked for,     *)
(* updatePartitionStartPointOffsets puts them one behind the other, and as *)
(* long as requests fit, updateRootPartition leaves no root partition      *)
(* behind that is larger than the largest image since the last start.      *)
(***************************************************************************)
THEOREM TablesInvariant == Spec => []LInv
<1>1. Init => LInv
  BY LInitially
<1>2. IInv /\ LInv /\ [Next]_vars => LInv'
  BY EveryLStep
<1> QED BY <1>1, <1>2, Invariant, PTL DEF Spec

(***************************************************************************)
(* The layout that sfdiskStageOptions writes is the one asked for: a       *)
(* partition for each mountpoint, of its size, none on top of another and  *)
(* the root partition behind all of them, whatever other requests do to    *)
(* the shared table; and the root partition ends where the disk does, for  *)
(* a request that ran alone or has mountpoints of its own, if requests fit *)
(* and none was far larger.                                                *)
(***************************************************************************)
THEOREM Layouts == Spec => []LayoutIsSound
<1>1. IInv /\ LInv => LayoutIsSound
  BY LayoutsAreTyped, LayoutsAreDisjoint, RootsFill DEF LayoutIsSound
<1> QED BY <1>1, Invariant, TablesInvariant, PTL
=============================================================================
