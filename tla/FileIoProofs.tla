----------------------------- MODULE FileIoProofs -----------------------------
(* Theorems about FileIo, for every value of its constants. *)
EXTENDS FileIo, SequenceTheorems, TLAPS

\* A number is its block times the block size and its place in the block.
LEMMA DivMod ==
    ASSUME NEW p \in Nat, NEW bs \in Nat \ {0}
    PROVE  /\ p \div bs \in Nat /\ p % bs \in 0..bs-1
           /\ p = bs * (p \div bs) + (p % bs)
  OBVIOUS

\* The block a number lies in is the only one that holds it.
LEMMA BlockUnique ==
    ASSUME NEW p \in Nat, NEW bs \in Nat \ {0}, NEW b \in Nat, b * bs <= p, p < b * bs + bs
    PROVE  b = p \div bs /\ p - b * bs = p % bs
  OBVIOUS

\* Rounding up to whole blocks adds less than a block.
LEMMA RoundUp ==
    ASSUME NEW n \in Nat, NEW bs \in Nat \ {0}
    PROVE  /\ ((n + bs - 1) \div bs) * bs \in n..(n + bs - 1)
  OBVIOUS

\* The lesser and the greater of two numbers.
LEMMA MinMax ==
    ASSUME NEW a \in Int, NEW b \in Int
    PROVE  /\ Min({a, b}) = IF a <= b THEN a ELSE b
           /\ Max({a, b}) = IF a >= b THEN a ELSE b
  BY DEF Min, Max

\* A number that fits in a word is stored as it is.
LEMMA Fits ==
    ASSUME NEW n \in 0..Word-1
    PROVE  W(n) = n
  BY SizeAssumption DEF W

Policies == Configs \cup {Default}
FileRec == [seed : Seeds, size : 0..MaxFileSize]
Bytes == {genBlock(c, s, b, i) : c \in Policies, s \in Seeds, b \in Nat, i \in Nat}

\* A policy's block size, with room for one more block in a word.
LEMMA BlockSize ==
    ASSUME NEW c \in Policies
    PROVE  bsOf(c) \in Nat \ {0} /\ MaxFileSize + bsOf(c) < Word
  BY SizeAssumption DEF Policies, bsOf

\* A later byte is in no earlier block.
LEMMA DivMonotonic ==
    ASSUME NEW p \in Nat, NEW q \in Nat, NEW bs \in Nat \ {0}, p <= q
    PROVE  p \div bs <= q \div bs
<1>1. /\ p \div bs \in Nat /\ q \div bs \in Nat
      /\ bs * (p \div bs) <= p /\ q < bs * (q \div bs) + bs
  BY DivMod
<1> DEFINE m == p \div bs
           n == q \div bs
<1>2. bs * m < bs * (n + 1)
  BY <1>1
<1> HIDE DEF m, n
<1>3. m \in Nat /\ n \in Nat
  BY <1>1 DEF m, n
<1>4. m < n + 1
  BY <1>2, <1>3
<1> QED BY <1>3, <1>4 DEF m, n

\* content::read returns the bytes of the range that exist, each of the block it lies in,
\* wherever the range begins and ends.
LEMMA ReadBytes ==
    ASSUME NEW c \in Policies, NEW seed \in Seeds, NEW size \in 0..MaxFileSize,
           NEW offset \in 0..Word-1, NEW len \in 1..MAX_READ
    PROVE  LET r == read(c, seed, size, offset, len)
           IN  /\ offset >= size => r = <<>>
               /\ offset < size =>
                     /\ r \in Seq(Bytes) /\ Len(r) \in 1..len /\ offset + Len(r) <= size
                     /\ \A i \in 1..Len(r) : r[i] = genBlock(c, seed, (offset + i - 1) \div bsOf(c),
                                                                     (offset + i - 1) % bsOf(c))
<1> DEFINE r == read(c, seed, size, offset, len)
           bs == bsOf(c)
<1>1. CASE offset >= size
  <2>1. r = <<>>
    BY <1>1 DEF read
  <2>2. ~(offset < size)
    BY <1>1, SizeAssumption
  <2> QED BY <2>1, <2>2
<1>2. CASE offset < size
  <2> DEFINE end == IF offset + len <= size THEN offset + len ELSE size
             blocks == (offset \div bs)..(W(Min({W(offset + len), size}) - 1) \div bs)
             from(b) == Max({offset, W(b * bs)})
             to(b) == Min({Min({W(offset + len), size}), W(b * bs + bs)})
             in(p) == {b \in blocks : p \in from(b)..to(b)-1}
             n == end - offset
  <2>0. /\ offset \in Nat /\ size \in Nat /\ len \in Nat \ {0} /\ offset + len < Word /\ size < Word
        /\ MaxFileSize \in Nat /\ size <= MaxFileSize /\ Word \in Nat
    BY <1>2, SizeAssumption
  <2>1. bs \in Nat \ {0} /\ size + bs < Word
    BY <2>0, BlockSize
  <2>2. /\ Min({W(offset + len), size}) = end
        /\ end \in Nat /\ offset < end /\ end <= size /\ n \in 1..len
    BY <1>2, <2>0, Fits, MinMax
  <2>3. W(end - 1) = end - 1 /\ W(end - offset) = n
    <3>1. end - 1 \in 0..Word-1 /\ end - offset \in 0..Word-1
      BY <2>0, <2>2
    <3> QED BY <3>1, Fits
  <2>4. r = [i \in 1..n |-> IF in(offset + i - 1) = {} THEN Zero
                            ELSE LET b == CHOOSE b \in in(offset + i - 1) : TRUE
                                 IN copy(c, seed, offset + i - 1, W(b * bs), from(b))]
    <3>1. ~(offset >= size \/ len = 0)
      BY <1>2, <2>0
    <3>2. W(Min({W(offset + len), size}) - offset) = n
      BY <2>2, <2>3
    <3> HIDE DEF end, n
    <3>3. r = [i \in 1..W(Min({W(offset + len), size}) - offset) |->
                 IF in(offset + i - 1) = {} THEN Zero
                 ELSE LET b == CHOOSE b \in in(offset + i - 1) : TRUE
                      IN copy(c, seed, offset + i - 1, W(b * bs), from(b))]
      BY <3>1 DEF read
    <3> QED BY <3>2, <3>3
  <2> USE DEF n
  <2> HIDE DEF bs, end, r
  <2>5. ASSUME NEW i \in 1..n
        PROVE  /\ (offset + i - 1) \div bs \in Nat /\ (offset + i - 1) % bs \in Nat
               /\ r[i] = genBlock(c, seed, (offset + i - 1) \div bs, (offset + i - 1) % bs)
    <3> DEFINE p == offset + i - 1
               q == p \div bs
    <3>1. p \in Nat /\ offset <= p /\ p <= end - 1
      BY <2>0, <2>2
    <3>2. q \in Nat /\ p % bs \in Nat /\ q * bs <= p /\ p < q * bs + bs
      <4> HIDE DEF p
      <4>1. q \in Nat /\ p % bs \in 0..bs-1 /\ p = bs * q + (p % bs)
        BY <2>1, <3>1, DivMod
      <4> HIDE DEF q
      <4>2. bs * q = q * bs /\ q * bs \in Nat
        BY <2>1, <4>1
      <4> QED BY <2>1, <3>1, <4>1, <4>2
    <3>3. blocks = (offset \div bs)..((end - 1) \div bs) /\ end - 1 \in Nat
      BY <2>0, <2>2, <2>3
    <3> HIDE DEF blocks, p, q
    <3>4. /\ offset \div bs \in Nat /\ (end - 1) \div bs \in Nat
          /\ bs * ((end - 1) \div bs) <= end - 1
      <4>1. end - 1 = bs * ((end - 1) \div bs) + ((end - 1) % bs) /\ (end - 1) % bs \in 0..bs-1
            /\ (end - 1) \div bs \in Nat /\ offset \div bs \in Nat
        BY <2>0, <2>1, <3>3, DivMod
      <4>2. bs * ((end - 1) \div bs) \in Nat
        BY <2>1, <4>1
      <4> QED BY <2>1, <3>3, <4>1, <4>2
    <3>5. q \in blocks
      <4>1. offset \div bs <= p \div bs /\ p \div bs <= (end - 1) \div bs
        BY <2>0, <2>1, <3>1, <3>3, DivMonotonic
      <4> QED BY <3>2, <3>3, <3>4, <4>1 DEF q
    <3>6. ASSUME NEW b \in blocks
          PROVE  /\ b \in Nat /\ b * bs \in Nat
                 /\ W(b * bs) = b * bs
                 /\ p \in from(b)..to(b)-1 <=> b * bs <= p /\ p < b * bs + bs
      <4>1. b \in Nat /\ b <= (end - 1) \div bs
        BY <3>3, <3>4
      <4>2. b * bs \in Nat /\ b * bs <= bs * ((end - 1) \div bs)
        BY <2>1, <3>4, <4>1
      <4>3. b * bs \in 0..Word-1 /\ b * bs + bs \in 0..Word-1
        BY <2>0, <2>1, <2>2, <3>4, <4>2
      <4>4. W(b * bs) = b * bs /\ W(b * bs + bs) = b * bs + bs
        BY <4>3, Fits
      <4> DEFINE x == b * bs
      <4>5. from(b) = (IF offset >= x THEN offset ELSE x) /\ to(b) = (IF end <= x + bs THEN end ELSE x + bs)
        <5>1. x \in Int /\ x + bs \in Int /\ offset \in Int /\ end \in Int
          BY <2>0, <2>1, <2>2, <4>2
        <5>2. from(b) = Max({offset, x}) /\ to(b) = Min({end, x + bs})
          BY <2>2, <4>4
        <5> HIDE DEF x, from, to
        <5> QED BY <5>1, <5>2, MinMax
      <4> HIDE DEF from, to
      <4>6. p \in from(b)..to(b)-1 <=> x <= p /\ p < x + bs
        BY <2>0, <2>1, <2>2, <3>1, <4>2, <4>5
      <4> QED BY <4>1, <4>2, <4>4, <4>6
    <3>7. in(p) = {q}
      <4>1. q \in in(p)
        BY <3>2, <3>5, <3>6
      <4>2. ASSUME NEW b \in in(p) PROVE b = q
        <5>1. b \in blocks /\ b \in Nat /\ b * bs <= p /\ p < b * bs + bs
          BY <3>6, <4>2
        <5> QED BY <2>1, <3>1, <5>1, BlockUnique DEF q
      <4> QED BY <4>1, <4>2
    <3> HIDE DEF in
    <3>8. r[i] = copy(c, seed, p, W(q * bs), from(q))
      <4>1. (CHOOSE b \in in(p) : TRUE) = q
        BY <3>7
      <4> HIDE DEF p, q, from, r, bs
      <4> QED BY <2>4, <3>7, <4>1 DEF p
    <3>9. W(q * bs) = q * bs /\ (q * bs) \div bs = q /\ p - q * bs = p % bs
      <4>1. W(q * bs) = q * bs
        BY <3>5, <3>6
      <4>2. q * bs \in Nat /\ q * bs <= q * bs /\ q * bs < q * bs + bs
        BY <2>1, <3>2
      <4>3. (q * bs) \div bs = q
        BY <2>1, <3>2, <4>2, BlockUnique
      <4>4. p - q * bs = p % bs
        BY <2>1, <3>1, <3>2, BlockUnique DEF q
      <4> QED BY <4>1, <4>3, <4>4
    <3>10. r[i] = genBlock(c, seed, q, p % bs)
      BY <3>8, <3>9 DEF copy, bs
    <3> QED BY <3>2, <3>10 DEF q, p
  <2> HIDE DEF in, from, to, blocks, end, r
  <2>6. r \in Seq(Bytes)
    <3>1. \A i \in 1..n : r[i] \in Bytes
      BY <2>5 DEF Bytes
    <3>2. n \in Nat /\ DOMAIN r = 1..n
      BY <2>2, <2>4
    <3>3. r = [i \in 1..n |-> r[i]]
      BY <2>4
    <3> QED BY <3>1, <3>2, <3>3
  <2>7. Len(r) = n
    BY <2>2, <2>4, <2>6, LenProperties
  <2>8. ~(offset >= size) /\ offset + n <= size
    BY <1>2, <2>0, <2>2
  <2> HIDE DEF n
  <2> QED BY <2>2, <2>5, <2>6, <2>7, <2>8 DEF r, bs
<1>3. offset \in Int /\ size \in Int
  BY SizeAssumption
<1> QED BY <1>1, <1>2, <1>3

-----------------------------------------------------------------------------
(* The invariant. *)

\* The ranges of the variables.
Typed ==
    /\ file \in FileRec
    /\ frozen \in Seq(FileRec) /\ Len(frozen) <= MaxSnaps
    /\ policy \in Configs \cup {None, Malformed} /\ g_used \in Configs \cup {None}
    /\ reader \in [pc : {"idle", "reading", "done", "closed"}, view : 0..Len(frozen),
                   from : 0..Word-1, off : 0..Word-1, got : Seq(Bytes)]
    /\ changes \in 0..MaxChanges

\* What a scan r has got is the bytes of f from where it began to where it is, which is
\* past the end only if it began there, and at the end when it is done.
Scanned(r, f) ==
    /\ r.off = r.from + Len(r.got)
    /\ Len(r.got) > 0 => r.off <= f.size
    /\ \A i \in 1..Len(r.got) : r.got[i] = byteAt(f, r.from + i - 1)
    /\ r.pc = "done" => r.off >= f.size

ScanInv == IF reader.pc = "idle" THEN reader.got = <<>> ELSE Scanned(reader, view(reader.view))

Inv == Typed /\ ScanInv

\* Every view is a file.
LEMMA ViewType ==
    ASSUME Typed
    PROVE  \A v \in 0..Len(frozen) : view(v) \in FileRec
<1> SUFFICES ASSUME NEW v \in 0..Len(frozen) PROVE view(v) \in FileRec
  OBVIOUS
<1>1. frozen \in Seq(FileRec) /\ Len(frozen) \in Nat
  BY DEF Typed
<1>2. CASE v = Live
  BY <1>2 DEF view, Typed
<1>3. CASE v # Live
  <2>1. v \in 1..Len(frozen)
    BY <1>1, <1>3 DEF Live
  <2> QED BY <1>1, <1>3, <2>1, ElementOfSeq DEF view
<1> QED BY <1>2, <1>3

\* The policy content::deserialize returns.
LEMMA PolicyType ==
    ASSUME Typed, policy # Malformed
    PROVE  deserialize(policy) \in Policies
  BY DEF Typed, deserialize, Policies

\* The invariant has what the properties say.
LEMMA InvGives ==
    ASSUME Inv
    PROVE  TypeOK /\ PiecesAssemble
<1>0. /\ Word \in Nat /\ MaxFileSize \in Nat
      /\ frozen \in Seq(FileRec) /\ reader.got \in Seq(Bytes) /\ Len(reader.got) \in Nat
      /\ reader.from \in 0..Word-1 /\ reader.view \in 0..Len(frozen)
  BY SizeAssumption DEF Inv, Typed
<1>1. view(reader.view) \in FileRec
  BY <1>0, ViewType DEF Inv
<1> DEFINE f == view(reader.view)
<1>2. f.size \in 0..MaxFileSize
  BY <1>1 DEF FileRec
<1> HIDE DEF f
<1>3. Len(reader.got) <= MaxFileSize
  <2>1. CASE reader.pc = "idle"
    BY <1>0, <2>1, EmptySeq DEF Inv, ScanInv
  <2>2. CASE reader.pc # "idle"
    BY <1>0, <1>2, <2>2 DEF Inv, ScanInv, Scanned, f
  <2> QED BY <2>1, <2>2
<1>4. TypeOK
  <2>1. \A g \in DOMAIN frozen : frozen[g] \in FileRec
    BY <1>0, ElementOfSeq, LenProperties
  <2> QED BY <1>3, <2>1 DEF Inv, Typed, TypeOK, FileRec
<1>5. PiecesAssemble
  <2> SUFFICES ASSUME reader.pc # "idle"
               PROVE  /\ \A i \in DOMAIN reader.got : reader.got[i] = byteAt(f, reader.from + i - 1)
                      /\ reader.pc = "done" => reader.from + Len(reader.got) = Max({f.size, reader.from})
    BY DEF PiecesAssemble, f
  <2>1. Scanned(reader, f)
    BY DEF Inv, ScanInv, f
  <2>2. DOMAIN reader.got = 1..Len(reader.got)
    BY <1>0, LenProperties
  <2>3. \A i \in DOMAIN reader.got : reader.got[i] = byteAt(f, reader.from + i - 1)
    BY <2>1, <2>2 DEF Scanned
  <2>4. ASSUME reader.pc = "done" PROVE reader.from + Len(reader.got) = Max({f.size, reader.from})
    <3>0. f.size \in Int /\ reader.from \in Int /\ Len(reader.got) \in Nat
      BY <1>0, <1>2
    <3>1. Max({f.size, reader.from}) = IF f.size >= reader.from THEN f.size ELSE reader.from
      BY <3>0, MinMax
    <3>2. /\ reader.off = reader.from + Len(reader.got) /\ reader.off >= f.size
          /\ Len(reader.got) > 0 => reader.off <= f.size
      BY <2>1, <2>4 DEF Scanned
    <3>3. CASE Len(reader.got) > 0
      BY <3>0, <3>1, <3>2, <3>3
    <3>4. CASE Len(reader.got) = 0
      BY <3>0, <3>1, <3>2, <3>4
    <3> QED BY <3>0, <3>3, <3>4
  <2> QED BY <2>3, <2>4
<1> QED BY <1>4, <1>5

\* The volume covers the file, for every size a client may give it.
LEMMA VolumeCovers ==
    ASSUME file.size \in 0..MaxFileSize
    PROVE  VolumeCoversUse
<1> DEFINE n == file.size
           up == ((n + ReportBlock - 1) \div ReportBlock) * ReportBlock
<1>0. /\ Word \in Nat /\ MaxFileSize \in Nat /\ ReportBlock \in Nat \ {0} /\ Capacity \in Nat
      /\ MaxFileSize + ReportBlock < Word /\ n \in Nat /\ n <= MaxFileSize
  BY SizeAssumption
<1> HIDE DEF n
<1>1. up \in n..(n + ReportBlock - 1)
  BY <1>0, RoundUp
<1>2. n + ReportBlock - 1 \in 0..Word-1
  BY <1>0
<1>3. W(n + ReportBlock - 1) = n + ReportBlock - 1
  BY <1>2, Fits
<1>4. up \in 0..Word-1
  BY <1>0, <1>1
<1>5. W((W(n + ReportBlock - 1) \div ReportBlock) * ReportBlock) = up
  BY <1>3, <1>4, Fits
<1> HIDE DEF up
<1>6. fsStat(n) = [tbytes |-> total(up), fbytes |-> freeOf(up, total(up))]
  BY <1>5 DEF fsStat
<1>7. /\ total(up) >= Capacity /\ freeOf(up, total(up)) <= total(up)
      /\ total(up) - freeOf(up, total(up)) = up
  BY <1>0, <1>4 DEF total, freeOf
<1> QED BY <1>1, <1>6, <1>7 DEF VolumeCoversUse, n

\* The initial states satisfy the invariant.
LEMMA InitInv == Init => Inv
<1> SUFFICES ASSUME Init PROVE Inv
  OBVIOUS
<1>1. <<>> \in Seq(FileRec) /\ <<>> \in Seq(Bytes) /\ Len(frozen) = 0
  BY EmptySeq DEF Init
<1>2. file \in FileRec /\ 0 \in 0..Word-1 /\ 0 \in 0..MaxChanges /\ 0 <= MaxSnaps
  BY SizeAssumption, BoundsAssumption DEF Init, FileRec
<1>3. Typed
  BY <1>1, <1>2 DEF Init, Typed, Live
<1> QED BY <1>3 DEF Init, Inv, ScanInv

\* A change to what a view v reads as sends the scan of v back to its start; the scans of
\* other views go on over what they read.
LEMMA StaleScan ==
    ASSUME Inv, NEW v \in 0..Len(frozen), Stale(v), Len(frozen) = Len(frozen'),
           policy' = policy,
           \A u \in 0..Len(frozen) : u # v => view(u)' = view(u)
    PROVE  ScanInv' /\ reader' \in [pc : {"idle", "reading", "done", "closed"}, view : 0..Len(frozen'),
                                    from : 0..Word-1, off : 0..Word-1, got : Seq(Bytes)]
<1>1. CASE reader.view = v /\ reader.pc # "idle"
  BY <1>1, EmptySeq DEF Inv, Typed, Stale, ScanInv
<1>2. CASE ~(reader.view = v /\ reader.pc # "idle")
  <2>1. reader' = reader
    BY <1>2 DEF Stale
  <2>2. reader.pc # "idle" => view(reader.view)' = view(reader.view)
    BY <1>2, <2>1 DEF Inv, Typed
  <2>3. ScanInv'
    BY <2>1, <2>2 DEF Inv, ScanInv, Scanned, byteAt
  <2> QED BY <2>1, <2>3 DEF Inv, Typed
<1> QED BY <1>1, <1>2

\* A change to the live file that keeps it a file keeps the invariant.
LEMMA LiveChange ==
    ASSUME Inv, Change, file' \in FileRec, Stale(Live), UNCHANGED <<frozen, policy, g_used>>
    PROVE  Inv'
<1>1. Live \in 0..Len(frozen) /\ \A u \in 0..Len(frozen) : u # Live => view(u)' = view(u)
  <2>1. Len(frozen) \in Nat
    BY DEF Inv, Typed
  <2> QED BY <2>1 DEF Live, view
<1>2. ScanInv' /\ reader' \in [pc : {"idle", "reading", "done", "closed"}, view : 0..Len(frozen'),
                               from : 0..Word-1, off : 0..Word-1, got : Seq(Bytes)]
  BY <1>1, StaleScan
<1>3. changes' \in 0..MaxChanges
  BY BoundsAssumption DEF Inv, Typed, Change
<1> QED BY <1>2, <1>3 DEF Inv, Typed

\* WRITE leaves a size clients may give.
LEMMA WriteStep ==
    ASSUME Inv, NEW off \in 0..MaxFileSize, NEW n \in Lengths, NEW s \in Seeds, Write(off, n, s)
    PROVE  Inv'
<1>1. off + n \in 0..MaxFileSize /\ MaxFileSize \in Nat /\ Word \in Nat /\ MaxFileSize < Word
  BY SizeAssumption, InputAssumption DEF Write
<1>2. W(off + n) = off + n
  BY <1>1, Fits
<1>3. file.size \in 0..MaxFileSize
  BY DEF Inv, Typed, FileRec
<1>4. file' \in FileRec
  BY <1>1, <1>2, <1>3 DEF Write, sizeAfter, FileRec
<1> QED BY <1>4, LiveChange DEF Write

\* A snapshot changes no view a scan may be reading.
LEMMA SnapshotStep ==
    ASSUME Inv, Snapshot
    PROVE  Inv'
<1>1. /\ frozen' \in Seq(FileRec) /\ Len(frozen') = Len(frozen) + 1 /\ Len(frozen) \in Nat
      /\ \A i \in 1..Len(frozen) : frozen'[i] = frozen[i]
  BY AppendProperties DEF Inv, Typed, Snapshot
<1>2. \A u \in 0..Len(frozen) : view(u)' = view(u)
  BY <1>1 DEF view, Live, Snapshot
<1>3. ScanInv'
  BY <1>2 DEF Inv, Typed, ScanInv, Scanned, byteAt, Snapshot
<1>4. Typed'
  <2>1. Len(frozen') <= MaxSnaps
    BY <1>1, BoundsAssumption DEF Snapshot
  <2>2. reader.view \in 0..Len(frozen')
    BY <1>1 DEF Inv, Typed
  <2> QED BY <1>1, <2>1, <2>2 DEF Inv, Typed, Snapshot
<1> QED BY <1>3, <1>4 DEF Inv

\* READ appends the next bytes of the view, and is told of the end where the view ends.
LEMMA ReadStep ==
    ASSUME Inv, NEW cnt \in Counts, Read(cnt)
    PROVE  Inv'
<1> DEFINE f == view(reader.view)
           c == deserialize(policy)
           data == IF reader.off >= f.size THEN <<>>
                   ELSE read(c, f.seed, f.size, reader.off, Min({cnt, MAX_READ}))
<1>0. /\ Word \in Nat /\ MaxFileSize \in Nat /\ MAX_READ \in Nat \ {0} /\ cnt \in Nat \ {0}
      /\ reader.got \in Seq(Bytes) /\ Len(reader.got) \in Nat /\ MaxFileSize < Word
      /\ reader.from \in 0..Word-1 /\ reader.off \in 0..Word-1 /\ reader.view \in 0..Len(frozen)
  BY SizeAssumption, InputAssumption DEF Inv, Typed
<1>1. /\ f.size \in 0..MaxFileSize /\ f.seed \in Seeds
      /\ reader.off < f.size => c \in Policies
  BY <1>0, ViewType, PolicyType DEF Inv, FileRec, Read, throws
<1>2. Scanned(reader, f)
  BY DEF Inv, ScanInv, Read
<1>3. Min({cnt, MAX_READ}) \in 1..MAX_READ
  BY <1>0, MinMax
<1>4. /\ UNCHANGED <<file, frozen, policy, g_used, changes>>
      /\ reader' = [reader EXCEPT !.got = @ \o data, !.off = W(@ + Len(data)),
                                  !.pc = IF eof(f, reader.off, cnt, Len(data)) THEN "done" ELSE @]
      /\ reader.pc = "reading"
  BY DEF Read
<1>5. /\ reader'.view = reader.view /\ reader'.from = reader.from
      /\ reader'.got = reader.got \o data /\ reader'.off = W(reader.off + Len(data))
      /\ reader'.pc = IF eof(f, reader.off, cnt, Len(data)) THEN "done" ELSE "reading"
  BY <1>4 DEF Inv, Typed
<1>6. view(reader.view)' = f /\ \A g, p : byteAt(g, p)' = byteAt(g, p)
  <2>1. view(reader.view)' = f
    BY <1>4, <1>5 DEF view
  <2>2. ASSUME NEW g, NEW p PROVE byteAt(g, p)' = byteAt(g, p)
    BY <1>4 DEF byteAt
  <2> QED BY <2>1, <2>2
<1>7. /\ reader.off >= f.size => data = <<>>
      /\ reader.off < f.size =>
            /\ data \in Seq(Bytes) /\ Len(data) \in 1..Min({cnt, MAX_READ})
            /\ reader.off + Len(data) <= f.size
            /\ \A i \in 1..Len(data) : data[i] = byteAt(f, reader.off + i - 1)
  <2> DEFINE sd == f.seed
             sz == f.size
             off == reader.off
             len == Min({cnt, MAX_READ})
             r == read(c, sd, sz, off, len)
  <2>1. CASE reader.off >= f.size
    <3>1. ~(reader.off < f.size)
      BY <1>0, <1>1, <2>1
    <3> QED BY <2>1, <3>1
  <2> SUFFICES ASSUME ~(reader.off >= f.size)
               PROVE  /\ data \in Seq(Bytes) /\ Len(data) \in 1..Min({cnt, MAX_READ})
                      /\ reader.off + Len(data) <= f.size
                      /\ \A i \in 1..Len(data) : data[i] = byteAt(f, reader.off + i - 1)
    BY <2>1
  <2>2. off < sz /\ data = r
    BY <1>0, <1>1
  <2>3. c \in Policies /\ sd \in Seeds /\ sz \in 0..MaxFileSize /\ off \in 0..Word-1 /\ len \in 1..MAX_READ
    BY <1>0, <1>1, <1>3, <2>2
  <2> HIDE DEF c, sd, sz, off, len
  <2>4. /\ off >= sz => r = <<>>
        /\ off < sz =>
              /\ r \in Seq(Bytes) /\ Len(r) \in 1..len /\ off + Len(r) <= sz
              /\ \A i \in 1..Len(r) : r[i] = genBlock(c, sd, (off + i - 1) \div bsOf(c),
                                                              (off + i - 1) % bsOf(c))
    BY <2>3, ReadBytes
  <2> HIDE DEF f, data, r
  <2> QED BY <2>4, <2>2 DEF byteAt, c, sd, sz, off, len
<1>8. reader.off = reader.from + Len(reader.got) /\ (Len(reader.got) > 0 => reader.off <= f.size)
  BY <1>2 DEF Scanned
<1> HIDE DEF data, f, c
<1>9. /\ data \in Seq(Bytes) /\ Len(data) \in Nat
      /\ Len(data) > 0 => reader.off + Len(data) <= f.size
      /\ Len(data) = 0 => reader.off >= f.size
      /\ \A i \in 1..Len(data) : data[i] = byteAt(f, reader.off + i - 1)
  <2>1. CASE reader.off >= f.size
    BY <1>7, <2>1, EmptySeq
  <2>2. CASE reader.off < f.size
    <3>1. Min({cnt, MAX_READ}) \in Nat
      BY <1>0, <1>3
    <3> QED BY <1>0, <1>1, <1>7, <2>2, <3>1
  <2>3. reader.off \in Int /\ f.size \in Int
    BY <1>0, <1>1
  <2> QED BY <2>1, <2>2, <2>3
<1>10. reader.off + Len(data) \in 0..Word-1
  <2>1. CASE Len(data) = 0
    BY <1>0, <2>1
  <2>2. CASE Len(data) > 0
    BY <1>0, <1>1, <1>9, <2>2
  <2> QED BY <1>9, <2>1, <2>2
<1>11. W(reader.off + Len(data)) = reader.off + Len(data)
  BY <1>10, Fits
<1>12. /\ reader'.got \in Seq(Bytes) /\ Len(reader'.got) = Len(reader.got) + Len(data)
       /\ \A i \in 1..Len(reader'.got) :
             reader'.got[i] = IF i <= Len(reader.got) THEN reader.got[i] ELSE data[i - Len(reader.got)]
  BY <1>0, <1>5, <1>9, ConcatProperties
<1>13. Scanned(reader, view(reader.view))'
  <2>1. reader'.off = reader'.from + Len(reader'.got)
    BY <1>0, <1>5, <1>8, <1>9, <1>11, <1>12
  <2>2. Len(reader'.got) > 0 => reader'.off <= f.size
    BY <1>0, <1>1, <1>5, <1>8, <1>9, <1>11, <1>12
  <2>3. ASSUME NEW i \in 1..Len(reader'.got) PROVE reader'.got[i] = byteAt(f, reader'.from + i - 1)
    <3>1. CASE i <= Len(reader.got)
      <4>1. i \in 1..Len(reader.got)
        BY <1>0, <1>9, <1>12, <3>1
      <4> QED BY <1>2, <1>5, <1>12, <3>1, <4>1 DEF Scanned
    <3>2. CASE ~(i <= Len(reader.got))
      <4> DEFINE j == i - Len(reader.got)
      <4>1. j \in 1..Len(data) /\ reader.off + j - 1 = reader.from + i - 1
        <5>1. i \in 1..(Len(reader.got) + Len(data))
          BY <1>12
        <5>2. reader.from \in Int /\ reader.off \in Int
          BY <1>0
        <5> QED BY <1>0, <1>8, <1>9, <3>2, <5>1, <5>2, SMTT(60)
      <4>2. reader'.got[i] = data[j]
        BY <1>12, <3>2
      <4>3. data[j] = byteAt(f, reader.off + j - 1)
        BY <1>9, <4>1
      <4> QED BY <1>5, <4>1, <4>2, <4>3
    <3> QED BY <3>1, <3>2
  <2>4. reader'.pc = "done" => reader'.off >= f.size
    BY <1>5, <1>11 DEF eof
  <2> QED BY <1>6, <2>1, <2>2, <2>3, <2>4 DEF Scanned
<1>14. ScanInv'
  BY <1>5, <1>13 DEF ScanInv
<1>15. Typed'
  <2>1. reader' \in [pc : {"idle", "reading", "done", "closed"}, view : 0..Len(frozen),
                     from : 0..Word-1, off : 0..Word-1, got : Seq(Bytes)]
    <3>1. reader'.pc \in {"idle", "reading", "done", "closed"} /\ reader'.off \in 0..Word-1
      BY <1>5, <1>10, <1>11
    <3>2. reader' = [pc |-> reader'.pc, view |-> reader'.view, from |-> reader'.from,
                     off |-> reader'.off, got |-> reader'.got]
      BY <1>4 DEF Inv, Typed
    <3> QED BY <1>0, <1>5, <1>12, <3>1, <3>2
  <2> QED BY <1>4, <2>1 DEF Inv, Typed
<1> QED BY <1>14, <1>15 DEF Inv

\* Every step keeps the invariant.
LEMMA StepInv == Inv /\ [Next]_vars => Inv'
<1> SUFFICES ASSUME Inv, [Next]_vars PROVE Inv'
  OBVIOUS
<1>1. CASE UNCHANGED vars
  BY <1>1 DEF vars, Inv, Typed, ScanInv, Scanned, byteAt, view
<1>2. ASSUME NEW off \in 0..MaxFileSize, NEW n \in Lengths, NEW s \in Seeds, Write(off, n, s)
      PROVE  Inv'
  BY <1>2, WriteStep
<1>3. ASSUME NEW size \in 0..MaxFileSize, SetSize(size) PROVE Inv'
  <2>1. file' \in FileRec
    BY <1>3 DEF SetSize, Inv, Typed, FileRec
  <2> QED BY <1>3, <2>1, LiveChange DEF SetSize
<1>4. ASSUME NEW c \in Configs \cup {Malformed}, setContentConfig(c) PROVE Inv'
  <2>1. changes' \in 0..MaxChanges
    BY <1>4, BoundsAssumption DEF setContentConfig, Change, Inv, Typed
  <2>2. /\ reader' \in [pc : {"idle", "reading", "done", "closed"}, view : 0..Len(frozen),
                        from : 0..Word-1, off : 0..Word-1, got : Seq(Bytes)]
        /\ reader'.pc = "idle" /\ reader'.got = <<>>
    BY <1>4, EmptySeq DEF setContentConfig, Inv, Typed
  <2> QED BY <1>4, <2>1, <2>2 DEF setContentConfig, Inv, Typed, ScanInv
<1>5. ASSUME NEW v \in 0..Len(frozen), NEW off \in Starts, StartScan(v, off) PROVE Inv'
  <2>1. off \in 0..Word-1 /\ Word \in Nat /\ <<>> \in Seq(Bytes) /\ Len(<<>>) = 0
    BY InputAssumption, SizeAssumption, EmptySeq
  <2> QED BY <1>5, <2>1 DEF StartScan, Inv, Typed, ScanInv, Scanned
<1>6. CASE Snapshot
  BY <1>6, SnapshotStep
<1>7. CASE Restart
  <2>1. changes' \in 0..MaxChanges
    BY <1>7, BoundsAssumption DEF Restart, Change, Inv, Typed
  <2>2. Typed'
    BY <1>7, <2>1 DEF Restart, Inv, Typed
  <2>3. ScanInv'
    BY <1>7 DEF Restart, Inv, ScanInv, Scanned, byteAt, view
  <2> QED BY <2>2, <2>3 DEF Inv
<1>8. CASE Reads
  BY <1>8, ReadStep DEF Reads
<1>9. CASE ReadThrows
  <2>1. /\ reader.pc = "reading" /\ reader' = [reader EXCEPT !.pc = "closed"]
        /\ UNCHANGED <<file, frozen, policy, g_used, changes>>
    BY <1>9 DEF ReadThrows
  <2>2. Typed' /\ reader'.pc = "closed" /\ reader'.view = reader.view /\ reader'.from = reader.from
        /\ reader'.off = reader.off /\ reader'.got = reader.got
    BY <2>1 DEF Inv, Typed
  <2>3. ScanInv'
    BY <2>1, <2>2 DEF Inv, ScanInv, Scanned, byteAt, view
  <2> QED BY <2>2, <2>3 DEF Inv
<1> QED BY <1>1, <1>2, <1>3, <1>4, <1>5, <1>6, <1>7, <1>8, <1>9 DEF Next

\* The invariant of files and scans.
THEOREM ScanInvariance == Spec => []Inv
  BY InitInv, StepInv, PTL DEF Spec

\* The state keeps its type.
THEOREM FileTypes == Spec => []TypeOK
  BY ScanInvariance, InvGives, PTL

\* The pieces a client reads are the file's bytes, and the end is where it is announced.
THEOREM PiecesFit == Spec => []PiecesAssemble
  BY ScanInvariance, InvGives, PTL

\* FSSTAT covers the file's bytes, whatever was written.
THEOREM VolumeFits == Spec => []VolumeCoversUse
<1>1. Inv => VolumeCoversUse
  BY VolumeCovers DEF Inv, Typed, FileRec
<1> QED BY <1>1, ScanInvariance, PTL
=============================================================================
