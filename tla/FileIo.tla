-------------------------------- MODULE FileIo --------------------------------
(***************************************************************************)
(* What a file reads as.  No byte is stored: READ computes the bytes of a  *)
(* range from the file's content seed, its size and the store's content    *)
(* policy; WRITE changes the seed and the size.  A client reads a view of  *)
(* the file from start to end in pieces, while others write, truncate,     *)
(* snapshot, set the policy or restart the server.                         *)
(*                                                                         *)
(* A byte is a value that tells apart what the generator tells apart: its  *)
(* source, its block and its place in the block.  Sizes and offsets are    *)
(* unsigned machine words of Word values.                                  *)
(***************************************************************************)
EXTENDS Integers, Sequences, FiniteSets, FiniteSetsExt, SequencesExt

CONSTANTS
    Word,          \* 2^64
    MaxFileSize,   \* FsConfig::maxfilesize, which clients keep to
    MAX_READ,      \* most bytes of one READ
    Sector,        \* 512
    Capacity,      \* FsConfig::capacityBytes
    ReportBlock,   \* FsConfig::blockSize, 1 if that is 0
    Seeds,         \* content seeds
    Configs,       \* content policies: [blockSize, flat, sparsePercent, dedupPercent, dedupCorpus]
    Default,       \* ContentConfig{}, used while the store has no policy
    hash(_, _, _), \* h(seed, block, tag)
    Starts,        \* offsets a client begins to read at
    Counts,        \* byte counts of READ
    Lengths,       \* data lengths of WRITE
    MaxSnaps,      \* bound: snapshots taken
    MaxChanges     \* bound: changes to the file, the policy and the process

ASSUME SizeAssumption ==
    /\ {Word, MaxFileSize, MAX_READ, Sector, Capacity, ReportBlock} \subseteq Nat \ {0}
    /\ MaxFileSize + MAX_READ < Word /\ MaxFileSize + ReportBlock < Word
    /\ MaxFileSize + Sector < Word
    /\ \A c \in Configs \cup {Default} : c.blockSize \in Nat /\ MaxFileSize + c.blockSize < Word
ASSUME InputAssumption == Starts \subseteq 0..Word-1 /\ Counts \subseteq Nat \ {0} /\ Lengths \subseteq Nat
ASSUME BoundsAssumption == MaxSnaps \in Nat /\ MaxChanges \in Nat

VARIABLES
    file,          \* the live file: [seed, size]
    frozen,        \* snapshot number -> the file in that snapshot
    policy,        \* the store's content_config; None while it is empty
    g_used,        \* the policy nfsv3 read when it started; None if it could not
    reader,        \* [pc, view, from, off, got]: a client's scan of a view
    changes        \* changes made so far

vars == <<file, frozen, policy, g_used, reader, changes>>

None == [none |-> TRUE]
Malformed == [malformed |-> TRUE]  \* a blob that is no serialized ContentConfig
Live == 0
Zero == <<>>

W(n) == n % Word

\* Of a blob that is not Malformed; of that one it throws.
deserialize(blob) == IF blob = None THEN Default ELSE blob

view(v) == IF v = Live THEN file ELSE frozen[v]

\* The ranges of the variables.
TypeOK ==
    /\ file \in [seed : Seeds, size : 0..MaxFileSize]
    /\ Len(frozen) <= MaxSnaps /\ \A g \in DOMAIN frozen : frozen[g] \in [seed : Seeds, size : 0..MaxFileSize]
    /\ policy \in Configs \cup {None, Malformed} /\ g_used \in Configs \cup {None}
    /\ reader.pc \in {"idle", "reading", "done", "closed"} /\ reader.view \in 0..Len(frozen)
    /\ reader.off \in 0..Word-1 /\ Len(reader.got) <= MaxFileSize
    /\ changes \in 0..MaxChanges

-----------------------------------------------------------------------------
(* The generator.                                                             *)

bsOf(c) == IF c.blockSize > 0 THEN c.blockSize ELSE 1

isHole(c, seed, b) == c.sparsePercent > 0 /\ hash(seed, b, "HOLE") % 100 < c.sparsePercent

blockSrc(c, seed, b) ==
    IF c.dedupPercent > 0 /\ c.dedupCorpus > 0 /\ hash(seed, b, "DUP") % 100 < c.dedupPercent
    THEN <<"corpus", hash(seed, b, "DUP2") % c.dedupCorpus>>
    ELSE <<"data", seed, b>>

\* Byte i of block b.  With no entropy (flat) every byte is zero; with a block size of 0
\* nothing is generated, and read's buffer of one byte stays as it was made.
genBlock(c, seed, b, i) ==
    IF isHole(c, seed, b) \/ c.flat \/ c.blockSize = 0 THEN Zero ELSE <<blockSrc(c, seed, b), b, i>>

\* Mutant: the slice of a block starts at the block's first byte.
copyFromBlockStart(c, seed, p, bstart, s) == genBlock(c, seed, bstart \div bsOf(c), p - s)

\* Position p of the slice that starts at s of the block that starts at bstart.
copy(c, seed, p, bstart, s) == genBlock(c, seed, bstart \div bsOf(c), p - bstart)

\* The bytes of [offset, offset + len) that exist.  The buffer starts out as zeros.
read(c, seed, size, offset, len) ==
    IF offset >= size \/ len = 0 THEN <<>>
    ELSE LET end    == Min({W(offset + len), size})
             bs     == bsOf(c)
             blocks == (offset \div bs)..(W(end - 1) \div bs)
             from(b) == Max({offset, W(b * bs)})
             to(b)   == Min({end, W(b * bs + bs)})
         IN [i \in 1..W(end - offset) |->
               LET p  == offset + i - 1
                   in == {b \in blocks : p \in from(b)..to(b)-1}
               IN IF in = {} THEN Zero
                  ELSE LET b == CHOOSE b \in in : TRUE IN copy(c, seed, p, W(b * bs), from(b))]

\* Mutant: the last block counts as whole.
allocBytesWhole(c, seed, size, b) == bsOf(c)

\* What block b adds to the allocated bytes.
allocBytes(c, seed, size, b) == Min({bsOf(c), size - b * bsOf(c)})

allocatedBlocks(c, seed, size) ==
    IF size = 0 THEN 0
    ELSE LET nblocks == W(size + bsOf(c) - 1) \div bsOf(c)
             sum     == MapThenSumSet(LAMBDA b : allocBytes(c, seed, size, b),
                                      {b \in 0..nblocks-1 : ~isHole(c, seed, b)})
         IN W(sum + Sector - 1) \div Sector

\* fattr3 `used'.
usedBytes(f) == IF g_used = None THEN f.size ELSE allocatedBlocks(g_used, f.seed, f.size) * Sector

-----------------------------------------------------------------------------
(* FSSTAT, in bytes; the counts of files are left out.                        *)

freeOf(used, capacity) == IF capacity > used THEN capacity - used ELSE 0

\* Mutant: the advertised total is the configured one.
totalFixed(used) == Capacity

total(used) == IF Capacity > used THEN Capacity ELSE used

fsStat(totalSize) ==
    LET used == W((W(totalSize + ReportBlock - 1) \div ReportBlock) * ReportBlock)
    IN [tbytes |-> total(used), fbytes |-> freeOf(used, total(used))]

-----------------------------------------------------------------------------
(* Requests.                                                                  *)

\* A scan goes stale when what its view reads as changes.
Stale(v) == reader' = IF reader.view = v /\ reader.pc # "idle"
                      THEN [reader EXCEPT !.pc = "idle", !.got = <<>>] ELSE reader

Change == changes < MaxChanges /\ changes' = changes + 1

\* The size after n bytes were written at off.
sizeAfter(size, off, n) == IF W(off + n) > size THEN W(off + n) ELSE size

\* WRITE of n bytes at off; mixSeed() makes seed s of the old one, off and the data.
\* The seed and the size are two transactions under one hold of the mutex: nobody
\* reads between them (NfsWrites has the process that dies there).
Write(off, n, s) ==
    /\ Change
    /\ off + n <= MaxFileSize
    /\ file' = [seed |-> s, size |-> sizeAfter(file.size, off, n)]
    /\ Stale(Live)
    /\ UNCHANGED <<frozen, policy, g_used>>

\* SETATTR of the size.
SetSize(size) ==
    /\ Change
    /\ file' = [file EXCEPT !.size = size]
    /\ Stale(Live)
    /\ UNCHANGED <<frozen, policy, g_used>>

Snapshot ==
    /\ Len(frozen) < MaxSnaps
    /\ frozen' = Append(frozen, file)
    /\ UNCHANGED <<file, policy, g_used, reader, changes>>

\* The console may set any blob.
setContentConfig(c) ==
    /\ Change
    /\ policy' = c
    /\ reader' = [reader EXCEPT !.pc = "idle", !.got = <<>>]
    /\ UNCHANGED <<file, frozen, g_used>>

\* The store and the client survive; nfsv3 reads the policy as it starts, and goes on
\* without one if it does not parse.
Restart ==
    /\ Change
    /\ g_used' = IF policy = Malformed THEN None ELSE policy
    /\ UNCHANGED <<file, frozen, policy, reader>>

\* A client starts to read a view at some offset.
StartScan(v, off) ==
    /\ reader.pc # "reading"
    /\ reader' = [pc |-> "reading", view |-> v, from |-> off, off |-> off, got |-> <<>>]
    /\ UNCHANGED <<file, frozen, policy, g_used, changes>>

\* Mutant: the end is past the last byte.
eofPast(f, off, cnt, got) == W(off + got) > f.size

\* The answer's end-of-file flag.
eof(f, off, cnt, got) == W(off + got) >= f.size

\* deserialize throws; the host asks for no bytes, and so for no policy, at the end.
throws == policy = Malformed /\ reader.off < view(reader.view).size

\* READ.
Read(cnt) ==
    /\ reader.pc = "reading"
    /\ ~throws
    /\ LET f    == view(reader.view)
           data == IF reader.off >= f.size THEN <<>>
                   ELSE read(deserialize(policy), f.seed, f.size, reader.off, Min({cnt, MAX_READ}))
       IN reader' = [reader EXCEPT !.got = @ \o data, !.off = W(@ + Len(data)),
                                   !.pc = IF eof(f, reader.off, cnt, Len(data)) THEN "done" ELSE @]
    /\ UNCHANGED <<file, frozen, policy, g_used, changes>>

\* The exception ends the session: no answer, and the connection is closed.
ReadThrows ==
    /\ reader.pc = "reading"
    /\ throws
    /\ reader' = [reader EXCEPT !.pc = "closed"]
    /\ UNCHANGED <<file, frozen, policy, g_used, changes>>

Init ==
    /\ file \in [seed : Seeds, size : {0}]
    /\ frozen = <<>>
    /\ policy \in Configs \cup {None}
    /\ g_used = policy
    /\ reader = [pc |-> "idle", view |-> Live, from |-> 0, off |-> 0, got |-> <<>>]
    /\ changes = 0

Reads == \E cnt \in Counts : Read(cnt)

Next ==
    \/ \E off \in 0..MaxFileSize, n \in Lengths, s \in Seeds : Write(off, n, s)
    \/ \E size \in 0..MaxFileSize : SetSize(size)
    \/ \E c \in Configs \cup {Malformed} : setContentConfig(c)
    \/ \E v \in 0..Len(frozen), off \in Starts : StartScan(v, off)
    \/ Snapshot \/ Restart \/ Reads \/ ReadThrows

\* A client that has begun to read goes on.
Spec == Init /\ [][Next]_vars /\ WF_vars(Reads)

-----------------------------------------------------------------------------
(* Properties. *)

\* The file's bytes as the generator's documentation defines them, one by one.
byteAt(f, p) == LET c == deserialize(policy)
                IN genBlock(c, f.seed, p \div bsOf(c), p % bsOf(c))

\* The pieces a client reads, whatever their sizes and alignment, are the bytes of the
\* file from where it began, and it is told of the end exactly there.
PiecesAssemble ==
    reader.pc # "idle" =>
        LET f == view(reader.view) IN
        /\ \A i \in DOMAIN reader.got : reader.got[i] = byteAt(f, reader.from + i - 1)
        /\ reader.pc = "done" => reader.from + Len(reader.got) = Max({f.size, reader.from})

\* A scan reaches the end of the file, unless what it reads is changed under it (then it
\* is idle again), as long as the policy parses: under one that does not, every READ
\* of a byte throws and closes the connection.
ScanEnds == reader.pc = "reading" /\ policy # Malformed ~> reader.pc \in {"done", "idle"}

\* `used' is the bytes outside holes, in whole sectors, in every view, as long as the
\* policy is the one nfsv3 started with.
UsedIsAllocated ==
    g_used = policy /\ policy # None =>
        \A v \in 0..Len(frozen) :
            LET f == view(v)
                n == Cardinality({p \in 0..f.size-1 : ~isHole(policy, f.seed, p \div bsOf(policy))})
            IN usedBytes(f) \in n..n+Sector-1 /\ usedBytes(f) % Sector = 0

\* FSSTAT never reports less space in use than the file needs, nor more free than there
\* is, however much was written beyond the advertised capacity.
VolumeCoversUse ==
    LET s == fsStat(file.size)
    IN /\ s.tbytes >= Capacity /\ s.fbytes <= s.tbytes
       /\ s.tbytes - s.fbytes \in file.size..file.size+ReportBlock-1
=============================================================================
