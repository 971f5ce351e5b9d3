-------------------------- MODULE MCPartitionTables --------------------------
EXTENDS PartitionTables, TLC

P(mount, size) == Partition(mount, size)

Bare(size) == [Partition(Raw, size) EXCEPT !.fs = "none"]

\* x86_64, aarch64 on EC2 and s390x, their sizes scaled down
Tables == {
    <<Bare(1), P("/boot/efi", 2), P("/", 0)>>,
    <<P("/boot/efi", 1), P("/boot", 2), P("/", 0)>>,
    <<P("/", 0)>>}

M(mount, size) == [mount |-> mount, MinSize |-> size]

Ask(mounts, size, vhd) == [mounts |-> mounts, Size |-> size, vhd |-> vhd]

\* the default, sizes too small for the table and for anything, one far
\* larger than the others, an image of a whole number of megabytes, and
\* mountpoints with and without room for the root partition, one of them not
\* a whole number of sectors and one asked for twice
SomeAsks == {
    Ask(<<>>, 0, FALSE), Ask(<<>>, 4, FALSE), Ask(<<>>, 12, FALSE), Ask(<<>>, 120, FALSE), Ask(<<>>, 37, TRUE),
    Ask(<<M("/var", 4), M("/var", 8)>>, 0, FALSE),
    Ask(<<M("/var", 9)>>, 0, FALSE), Ask(<<M("/var", 9)>>, 44, FALSE),
    Ask(<<M("/", 20), M("/var", 9)>>, 0, FALSE), Ask(<<M("/boot", 8)>>, 44, FALSE)}

Symmetry == Permutations(Requests)
=============================================================================
