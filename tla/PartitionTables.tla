--------------------------- MODULE PartitionTables ---------------------------
(***************************************************************************)
(* The partition tables of disk images (internal/disk): each request for a *)
(* disk image fills in the base table of its image type and writes what it *)
(* finds there into the stages of its manifest.                            *)
(*                                                                         *)
(* A base table is a global variable.  CreatePartitionTable is given a     *)
(* copy of its header only: the array of partitions is shared until a      *)
(* mountpoint is appended (the capacity is the length, so append copies    *)
(* it), and the filesystems, held by pointer, are shared for good.  The    *)
(* handlers of the APIs run concurrently and take no lock here.            *)
(*                                                                         *)
(* Sizes are scaled: sectorSize bytes make a sector, and the unsigned      *)
(* arithmetic of the code wraps at Word.                                   *)
(***************************************************************************)
EXTENDS Integers, Sequences, FiniteSets, SequencesExt

CONSTANTS
    Requests,      \* requests for a disk image of one image type
    BaseTables,    \* base tables: sequences of partitions
    Asks,          \* what a request may ask for: mountpoints, size, format
    Allowed,       \* mountpoints of mountpointAllowList and below them
    sectorSize,    \* bytes of a sector
    MegaByte,      \* bytes of a megabyte
    FirstSector,   \* where partitions start
    Spare,         \* sectors kept free after the root partition
    defaultSize,   \* size of the image type when none is asked for
    Word,          \* values of an unsigned integer
    NoUUID,        \* the empty string
    Fixed,         \* a UUID that is a literal of the base table
    Restarts       \* bound: how often composer is restarted

Sectors == 0 .. Word - 1

Raw == "raw"

ASSUME ScaleAssumption ==
    /\ sectorSize \in Nat \ {0, 1} /\ MegaByte \in Nat \ {0} /\ Word \in Nat \ {0}
    /\ FirstSector \in Nat /\ Spare \in Nat /\ defaultSize \in Sectors /\ Restarts \in Nat

\* the base tables in the source: filesystems for these mountpoints, one of
\* them the root, no mountpoint twice
ASSUME TablesAssumption ==
    \A table \in BaseTables :
        /\ table \in Seq(Range(table))
        /\ \A i \in DOMAIN table :
            /\ table[i] = [mount |-> table[i].mount, start |-> 0, size |-> table[i].size, fs |-> table[i].fs]
            /\ table[i].size \in Sectors
            /\ \/ table[i].fs = "none" /\ table[i].mount = Raw
               \/ table[i].fs = "shared" /\ table[i].mount \in {"/", "/boot", "/boot/efi"}
        /\ \E i \in DOMAIN table : table[i].mount = "/"
        /\ \A i, j \in DOMAIN table : i # j /\ table[i].mount # Raw => table[i].mount # table[j].mount

\* no mountpoint of a base table but the root may be asked for
ASSUME AsksAssumption ==
    /\ \A ask \in Asks :
        /\ ask.Size \in Sectors
        /\ ask.mounts \in Seq(Range(ask.mounts))
        /\ \A i \in DOMAIN ask.mounts : ask.mounts[i].MinSize \in Sectors
    /\ Allowed \cap {"/boot", "/boot/efi", Raw} = {}

VARIABLES
    literal,       \* the base table as it stands in the source
    shared,        \* its array of partitions in memory
    heap,          \* UUIDs of its filesystems, by mountpoint
    req,           \* request -> where its handler is and what it holds
    manifest,      \* request -> what has been written into its manifest
    together,      \* history: requests that ran at the same time as another
    misfit,        \* history: a request since the last start did not fit
    largest,       \* history: size of the largest image since the last start
    disturbed,     \* history: requests that ran after or along with a misfit
                   \* or with a far larger one
    restarts

vars == <<literal, shared, heap, req, manifest, together, misfit, largest, disturbed, restarts>>

(***************************************************************************)
(* A partition of the base table points to a filesystem that all holders   *)
(* of the table share, or to none; one that a request creates has a        *)
(* filesystem of its own.                                                  *)
(***************************************************************************)
Partition(mount, size) == [mount |-> mount, start |-> 0, size |-> size, fs |-> "shared"]

HasFilesystem(p) == p.fs # "none"

(***************************************************************************)
(* The UUID of the filesystem that a partition of request r points to: the *)
(* pair stands for the one drawn when r created the partition.             *)
(***************************************************************************)
UUID(r, p) == IF p.fs = "shared" THEN heap[p.mount] ELSE <<r, p.mount>>

IndexOf(parts, mount) == SelectInSeq(parts, LAMBDA p : p.mount = mount)

(***************************************************************************)
(* The array that the handler of r works on.                               *)
(***************************************************************************)
Partitions(r) == IF req[r].own THEN req[r].parts ELSE shared

SetPartitions(r, parts) ==
    IF req[r].own THEN req' = [req EXCEPT ![r].parts = parts, ![r].pc = @ + 1] /\ UNCHANGED shared
    ELSE shared' = parts /\ req' = [req EXCEPT ![r].pc = @ + 1]

(***************************************************************************)
(* The sums that a loop over sizes goes through.                           *)
(***************************************************************************)
Totals(sizes) ==
    LET total[i \in 0 .. Len(sizes)] == IF i = 0 THEN 0 ELSE total[i - 1] + sizes[i]
    IN  total

Total(sizes) == Totals(sizes)[Len(sizes)]

Sizes(parts) == [i \in DOMAIN parts |-> parts[i].size]

getPartitionTableSize(parts) == Total(Sizes(parts)) % Word

(***************************************************************************)
(* What the Weldr API asks for: the larger of the size of the request and  *)
(* of all filesystems together, made to suit the format.                   *)
(***************************************************************************)
RoundUp(size, unit) == (((size + unit - 1) \div unit) * unit) % Word

GetFilesystemsMinSize(mounts) == RoundUp(Total([i \in DOMAIN mounts |-> mounts[i].MinSize]) % Word, sectorSize)

Size(ask, size) ==
    LET rounded == IF ask.vhd THEN RoundUp(size, MegaByte) ELSE size
    IN  IF rounded = 0 THEN defaultSize ELSE rounded

ImageSize(ask) ==
    LET minSize == GetFilesystemsMinSize(ask.mounts)
    IN  Size(ask, IF minSize > ask.Size THEN minSize ELSE ask.Size)

(***************************************************************************)
(* A mountpoint outside the list is refused.  The least size of /usr that  *)
(* checkOptions sets is lost with its loop variable.                       *)
(***************************************************************************)
checkOptions(ask) == \A i \in DOMAIN ask.mounts : ask.mounts[i].mount \in Allowed

(***************************************************************************)
(* A request is handled in these steps, each an access to shared state.    *)
(***************************************************************************)
BootUUID == 1
Mountpoints == 2
TableSize == 3
Offsets == 4
Root == 5
FSTab == 6
GRUB2 == 7
Sfdisk == 8
Mkfs == 9
Finished == 10

Running(r) == req[r].pc \in BootUUID .. Mkfs

Idle == 0

Waiting == [pc |-> Idle, ask |-> <<>>, own |-> FALSE, parts |-> <<>>, size |-> 0]

Empty == [fstab |-> {}, grub2 |-> {}, size |-> 0, sfdisk |-> <<>>, mkfs |-> {}]

LiteralUUIDs(table) ==
    [m \in {p.mount : p \in {p \in ToSet(table) : HasFilesystem(p)}} |-> IF m = "/boot/efi" THEN Fixed ELSE NoUUID]

Init ==
    /\ literal \in BaseTables
    /\ shared = literal
    /\ heap = LiteralUUIDs(literal)
    /\ req = [r \in Requests |-> Waiting]
    /\ manifest = [r \in Requests |-> Empty]
    /\ together = {}
    /\ misfit = FALSE
    /\ largest = 0
    /\ disturbed = {}
    /\ restarts = 0

At(r, pc) == req[r].pc = pc

Goes(r) == req' = [req EXCEPT ![r].pc = @ + 1]

(***************************************************************************)
(* Does what r asks for leave room for a root partition?  And is another   *)
(* image so large that its size in sectors is as good as that of r in      *)
(* bytes?                                                                  *)
(***************************************************************************)
AskedSectors(mounts) ==
    [i \in DOMAIN mounts |-> IF mounts[i].mount = "/" THEN 0 ELSE mounts[i].MinSize \div sectorSize]

Needed(ask) == FirstSector + Spare + Total(Sizes(literal)) + Total(AskedSectors(ask.mounts))

Fits(ask) == ImageSize(ask) \div sectorSize > Needed(ask)

Dwarfed(r) == largest > (sectorSize - 1) * ImageSize(req[r].ask)

(***************************************************************************)
(* A handler gets its request and checks the options: a request that is    *)
(* refused touches no table.                                               *)
(***************************************************************************)
Manifest(r) ==
    /\ At(r, Idle)
    /\ \E ask \in Asks :
         /\ checkOptions(ask)
         /\ req' = [req EXCEPT ![r] = [Waiting EXCEPT !.pc = BootUUID, !.ask = ask, !.size = ImageSize(ask)]]
         /\ misfit' = (misfit \/ ~Fits(ask))
         /\ largest' = IF ImageSize(ask) > largest THEN ImageSize(ask) ELSE largest
    /\ LET others == {q \in Requests : Running(q)}
       IN  /\ together' = together \cup (IF others = {} THEN {} ELSE others \cup {r})
           /\ disturbed' = disturbed \cup {q \in others \cup {r} : misfit' \/ Dwarfed(q)'}
    /\ UNCHANGED <<literal, shared, heap, manifest, restarts>>

(***************************************************************************)
(* CreatePartitionTable: the boot filesystem gets a random UUID, for every *)
(* holder of the base table.                                               *)
(***************************************************************************)
SetBootUUID(r) ==
    /\ At(r, BootUUID)
    /\ heap' = IF IndexOf(Partitions(r), "/boot") = 0 THEN heap ELSE [heap EXCEPT !["/boot"] = <<r, "/boot">>]
    /\ Goes(r)
    /\ UNCHANGED <<literal, shared, manifest, together, misfit, largest, disturbed, restarts>>

createPartition(r, m) ==
    [mount |-> m.mount, start |-> 0, size |-> m.MinSize \div sectorSize, fs |-> "own"]

(***************************************************************************)
(* A partition for each mountpoint but the root: the first one moves the   *)
(* request to an array of its own.                                         *)
(***************************************************************************)
Appended(r, table, mounts) ==
    LET after[i \in 0 .. Len(mounts)] ==
          IF i = 0 THEN table
          ELSE IF mounts[i].mount = "/" THEN after[i - 1]
          ELSE Append(after[i - 1], createPartition(r, mounts[i]))
    IN  after[Len(mounts)]

AppendMountpoints(r) ==
    LET mounts == req[r].ask.mounts
        own == \E i \in DOMAIN mounts : mounts[i].mount # "/"
        parts == IF own THEN Appended(r, shared, mounts) ELSE <<>>
    IN  /\ At(r, Mountpoints)
        /\ req' = [req EXCEPT ![r] = [@ EXCEPT !.pc = TableSize, !.own = own, !.parts = parts]]
        /\ UNCHANGED <<literal, shared, heap, manifest, together, misfit, largest, disturbed, restarts>>

(***************************************************************************)
(* The image grows to the size of the table, of which one is in bytes and  *)
(* the other in sectors.                                                   *)
(***************************************************************************)
GrowToTable(r) ==
    LET tableSize == getPartitionTableSize(Partitions(r))
        size == IF req[r].size < tableSize THEN tableSize ELSE req[r].size
    IN  /\ At(r, TableSize)
        /\ req' = [req EXCEPT ![r] = [@ EXCEPT !.pc = Offsets, !.size = size]]
        /\ UNCHANGED <<literal, shared, heap, manifest, together, misfit, largest, disturbed, restarts>>

\* mutant: the root partition is put where it is listed
updatePartitionStartPointOffsets_InPlace(parts, start) ==
    [i \in DOMAIN parts |-> [parts[i] EXCEPT !.start = (start + Totals(Sizes(parts))[i - 1]) % Word]]

(***************************************************************************)
(* Partitions follow one another from start, the root partition comes last *)
(* wherever it is listed.                                                  *)
(***************************************************************************)
OtherSizes(parts) == [i \in DOMAIN parts |-> IF parts[i].mount = "/" THEN 0 ELSE parts[i].size]

updatePartitionStartPointOffsets(parts, start) ==
    LET before(i) == Totals(OtherSizes(parts))[IF parts[i].mount = "/" THEN Len(parts) ELSE i - 1]
    IN  [i \in DOMAIN parts |-> [parts[i] EXCEPT !.start = (start + before(i)) % Word]]

UpdateOffsets(r) ==
    /\ At(r, Offsets)
    /\ SetPartitions(r, updatePartitionStartPointOffsets(Partitions(r), FirstSector))
    /\ UNCHANGED <<literal, heap, manifest, together, misfit, largest, disturbed, restarts>>

rootSize(r, start) == (req[r].size \div sectorSize - start - Spare) % Word

\* mutant: the root filesystem keeps the UUID it has
rootUUID_Kept(r) == IF heap["/"] = NoUUID THEN <<r, "/">> ELSE heap["/"]

rootUUID(r) == <<r, "/">>

(***************************************************************************)
(* The root partition takes what is left; its entry is written back into   *)
(* the array, its UUID into the shared filesystem.                         *)
(***************************************************************************)
updateRootPartition(r) ==
    LET parts == Partitions(r)
        i == IndexOf(parts, "/")
    IN  /\ At(r, Root)
        /\ SetPartitions(r, [parts EXCEPT ![i].size = rootSize(r, parts[i].start)])
        /\ heap' = [heap EXCEPT !["/"] = rootUUID(r)]
        /\ UNCHANGED <<literal, manifest, together, misfit, largest, disturbed, restarts>>

(***************************************************************************)
(* The stages that read the table, in the order of qcow2Pipelines and of   *)
(* liveImagePipeline.                                                      *)
(***************************************************************************)
Writes(r, m) == manifest' = [manifest EXCEPT ![r] = m]

Filesystems(r) == {<<p.mount, UUID(r, p)>> : p \in {p \in ToSet(Partitions(r)) : HasFilesystem(p)}}

FSTabStageOptionsV2(r) ==
    /\ At(r, FSTab) /\ Goes(r)
    /\ Writes(r, [manifest[r] EXCEPT !.fstab = Filesystems(r)])
    /\ UNCHANGED <<literal, shared, heap, together, misfit, largest, disturbed, restarts>>

grub2StageOptions(r) ==
    /\ At(r, GRUB2) /\ Goes(r)
    /\ Writes(r, [manifest[r] EXCEPT !.grub2 = {f \in Filesystems(r) : f[1] \in {"/", "/boot"}}])
    /\ UNCHANGED <<literal, shared, heap, together, misfit, largest, disturbed, restarts>>

sfdiskStageOptions(r) ==
    /\ At(r, Sfdisk) /\ Goes(r)
    /\ Writes(r, [manifest[r] EXCEPT !.size = req[r].size, !.sfdisk = Partitions(r)])
    /\ UNCHANGED <<literal, shared, heap, together, misfit, largest, disturbed, restarts>>

mkfsStages(r) ==
    /\ At(r, Mkfs) /\ Goes(r)
    /\ Writes(r, [manifest[r] EXCEPT !.mkfs = Filesystems(r)])
    /\ UNCHANGED <<literal, shared, heap, together, misfit, largest, disturbed, restarts>>

(***************************************************************************)
(* Composer stops: the next process starts from the literal table.         *)
(***************************************************************************)
Restart ==
    /\ restarts < Restarts
    /\ restarts' = restarts + 1
    /\ shared' = literal
    /\ heap' = LiteralUUIDs(literal)
    /\ req' = [r \in Requests |-> IF Running(r) THEN Waiting ELSE req[r]]
    /\ manifest' = [r \in Requests |-> IF Running(r) THEN Empty ELSE manifest[r]]
    /\ together' = {r \in together : ~Running(r)}
    /\ misfit' = FALSE
    /\ largest' = 0
    /\ disturbed' = {r \in disturbed : ~Running(r)}
    /\ UNCHANGED literal

Step(r) ==
    \/ Manifest(r)
    \/ SetBootUUID(r)
    \/ AppendMountpoints(r)
    \/ GrowToTable(r)
    \/ UpdateOffsets(r)
    \/ updateRootPartition(r)
    \/ FSTabStageOptionsV2(r)
    \/ grub2StageOptions(r)
    \/ sfdiskStageOptions(r)
    \/ mkfsStages(r)

Next == (\E r \in Requests : Step(r)) \/ Restart

Spec == Init /\ [][Next]_vars

-----------------------------------------------------------------------------
(***************************************************************************)
(* The shared table keeps the shape of the source, and every value fits    *)
(* its integer.                                                            *)
(***************************************************************************)
TypeOK ==
    /\ Len(shared) = Len(literal)
    /\ \A i \in DOMAIN shared : /\ shared[i].mount = literal[i].mount
                                /\ shared[i].start \in Sectors /\ shared[i].size \in Sectors
    /\ \A r \in Requests : req[r].pc \in Idle .. Finished /\ req[r].size \in Sectors
    /\ restarts \in 0 .. Restarts

Done(r) == At(r, Finished)

Layout(r) == manifest[r].sfdisk

EndOf(p) == p.start + p.size

(***************************************************************************)
(* The partitions of every image, except for the size of the root          *)
(* partition, are right whatever the other requests do, as long as an      *)
(* integer can hold their sectors: one for each mountpoint, of the size    *)
(* asked for to the sector, none on top of another and the root partition  *)
(* behind all of them, so that it can take the rest.  A mountpoint that is *)
(* asked for twice gets two.                                               *)
(***************************************************************************)
AsksOnce(mounts) ==
    \A i, j \in DOMAIN mounts : i # j /\ mounts[i].mount # "/" => mounts[i].mount # mounts[j].mount

PartitionsAreDisjoint ==
    \A r \in Requests : Done(r) /\ Needed(req[r].ask) < Word =>
        LET parts == Layout(r)
            root == parts[IndexOf(parts, "/")]
            others == {i \in DOMAIN parts : parts[i].mount # "/"}
        IN  /\ AsksOnce(req[r].ask.mounts) =>
                 \A i, j \in DOMAIN parts : i # j /\ parts[i].mount # Raw => parts[i].mount # parts[j].mount
            /\ \A m \in ToSet(req[r].ask.mounts) :
                 m.mount = "/" \/ \E i \in others : /\ parts[i].mount = m.mount
                                                    /\ parts[i].size = m.MinSize \div sectorSize
            /\ \A i \in others : parts[i].start >= FirstSector /\ EndOf(parts[i]) <= root.start
            /\ \A i, j \in others : i < j => EndOf(parts[i]) <= parts[j].start

(***************************************************************************)
(* While every request fits its image and none is nearly sectorSize times  *)
(* as large as another, the root partition fills the disk that was asked   *)
(* for: for a request that ran alone whatever ran before it, and with      *)
(* mountpoints of its own even for one that did not.  After a far larger   *)
(* image the root partition that was left in the shared table makes        *)
(* CreatePartitionTable grow an image that nobody asked to be larger.      *)
(***************************************************************************)
RootFillsDisk ==
    \A r \in Requests : Done(r) /\ r \notin disturbed /\ (r \notin together \/ req[r].own) =>
        LET root == Layout(r)[IndexOf(Layout(r), "/")]
        IN  /\ manifest[r].size = ImageSize(req[r].ask)
            /\ EndOf(root) + Spare = manifest[r].size \div sectorSize

(***************************************************************************)
(* The filesystems that a request makes while it runs alone are the ones   *)
(* its fstab and its boot loader name, and no image has the UUIDs of an    *)
(* earlier one.                                                            *)
(***************************************************************************)
FilesystemsAgree ==
    \A r \in Requests : Done(r) /\ r \notin together =>
        /\ manifest[r].fstab = manifest[r].mkfs
        /\ manifest[r].grub2 \subseteq manifest[r].mkfs
        /\ \A f \in manifest[r].mkfs : f[2] \in {Fixed, <<r, f[1]>>}

(***************************************************************************)
(* The layout of every image is the one that was asked for: partitions of  *)
(* the right size, none on top of another, and the root partition to the   *)
(* end of the disk.                                                        *)
(***************************************************************************)
LayoutIsSound == TypeOK /\ PartitionsAreDisjoint /\ RootFillsDisk
=============================================================================
