--------------------------- MODULE DiskServerProofs ---------------------------
(***************************************************************************)
(* Both sides of the disk protocol agree on where a block is; blocks keep  *)
(* what was written to them, and reads are not torn: for every number of   *)
(* workers, set of disk shapes whose bytes an int can count and size of a  *)
(* sector.                                                                 *)
(***************************************************************************)
EXTENDS DiskServer, TLAPS

(* Numbers that an int can hold stay what they are.                        *)
LEMMA AsIntSmall ==
    ASSUME NEW n \in Nat, n < HALF
    PROVE  AsInt(n) = n
BY GeometryAssumption DEF AsInt

(* A cylinder and a sector make the block that they came from (disk.c:84). *)
LEMMA SplitAndJoin ==
    ASSUME NEW block \in Nat, NEW s \in Nat \ {0}
    PROVE  /\ block \div s \in Nat /\ block % s \in 0 .. s - 1
           /\ (block \div s) * s + (block % s) = block
OBVIOUS

(* Multiplying keeps order, for the products of BDS.c.                     *)
LEMMA TimesMonotone ==
    ASSUME NEW a \in Nat, NEW b \in Nat, NEW k \in Nat, a <= b
    PROVE  a * k \in Nat /\ b * k \in Nat /\ a * k <= b * k
OBVIOUS

(* The cylinder of a block that exists is below the number of cylinders.   *)
LEMMA CylinderInRange ==
    ASSUME NEW c \in Nat, NEW s \in Nat \ {0}, NEW block \in 0 .. c * s - 1
    PROVE  block \div s < c
<1>1. block \in Nat /\ block < c * s /\ c * s \in Nat
  OBVIOUS
<1> DEFINE q == block \div s
           r == block % s
<1>2. q \in Nat /\ r \in 0 .. s - 1 /\ q * s + r = block
  BY <1>1, SplitAndJoin
<1> HIDE DEF q, r
<1>3. ASSUME c <= q PROVE FALSE
  <2>1. c * s <= q * s /\ q * s \in Nat
    BY <1>2, <1>3, TimesMonotone
  <2> QED
    BY <1>1, <1>2, <2>1
<1> QED
  BY <1>2, <1>3 DEF q

(* The file of a disk whose bytes an int can count has them all.           *)
LEMMA FileSizeIs ==
    ASSUME NEW g \in Geometry, Countable(g)
    PROVE  /\ NBlocks(g) \in Nat \ {0}
           /\ NBlocks(g) * sector_size \in Nat \ {0}
           /\ NBlocks(g) * sector_size < HALF
           /\ FileSize(g) = NBlocks(g) * sector_size
<1> DEFINE c == g.n_cylinders
           s == g.n_sectors
           n == NBlocks(g)
<1>1. c \in Nat \ {0} /\ s \in Nat \ {0} /\ sector_size \in Nat \ {0}
  BY GeometryAssumption DEF Geometry
<1>2. n = c * s /\ FileSize(g) = AsInt(n * sector_size)
  BY DEF FileSize, NBlocks
<1>3. n * sector_size < HALF
  BY DEF Countable
<1> HIDE DEF c, s, n
<1>4. n \in Nat \ {0} /\ n * sector_size \in Nat /\ n * sector_size > 0
  BY <1>1, <1>2
<1>5. FileSize(g) = n * sector_size
  BY <1>2, <1>3, <1>4, AsIntSmall
<1> QED
  BY <1>3, <1>4, <1>5 DEF n

(* The cylinder and the sector of a block lead to its own bytes.           *)
LEMMA BlockPlace ==
    ASSUME NEW g \in Geometry, Countable(g), NEW a \in 0 .. NBlocks(g) - 1
    PROVE  /\ Accepts(g, Cylinder(g, a), Sector(g, a))
           /\ First(g, a) = a * sector_size
           /\ a * sector_size \in Nat
           /\ a * sector_size + sector_size <= NBlocks(g) * sector_size
<1> DEFINE c == g.n_cylinders
           s == g.n_sectors
           k == sector_size
           n == NBlocks(g)
           q == a \div s
           r == a % s
<1>1. c \in Nat \ {0} /\ s \in Nat \ {0} /\ k \in Nat \ {0}
  BY GeometryAssumption DEF Geometry
<1>2. n = c * s /\ n \in Nat \ {0} /\ n * k \in Nat /\ n * k < HALF
  BY FileSizeIs DEF NBlocks
<1>3. Cylinder(g, a) = q /\ Sector(g, a) = r
  BY DEF Cylinder, Sector
<1>4. First(g, a) = AsInt((q * s + r) * k)
  BY <1>3 DEF First, Offset
<1>5. Accepts(g, q, r) <=> (0 <= q /\ q < c /\ 0 <= r /\ r < s)
  BY DEF Accepts
<1>6. a \in 0 .. n - 1
  OBVIOUS
<1> HIDE DEF c, s, k, n
<1>7. a \in Nat /\ a \in 0 .. c * s - 1 /\ a + 1 \in Nat /\ a + 1 <= n
  BY <1>2, <1>6
<1>8. q \in Nat /\ r \in 0 .. s - 1 /\ q * s + r = a
  BY <1>1, <1>7, SplitAndJoin
<1>9. q < c
  BY <1>1, <1>7, CylinderInRange
<1> HIDE DEF q, r
<1>10. Accepts(g, Cylinder(g, a), Sector(g, a))
  BY <1>1, <1>3, <1>5, <1>8, <1>9
<1>11. a * k \in Nat /\ (a + 1) * k <= n * k /\ (a + 1) * k = a * k + k
  BY <1>1, <1>2, <1>7, TimesMonotone
<1>12. a * k < HALF
  BY <1>1, <1>2, <1>11, GeometryAssumption
<1>13. First(g, a) = a * k
  BY <1>4, <1>8, <1>11, <1>12, AsIntSmall
<1> QED
  BY <1>10, <1>11, <1>13 DEF k, n

(* Blocks with smaller numbers end before those with larger ones begin.    *)
LEMMA BlocksInOrder ==
    ASSUME NEW a \in Nat, NEW b \in Nat, a < b
    PROVE  /\ a * sector_size + sector_size <= b * sector_size
           /\ a * sector_size \in Nat /\ b * sector_size \in Nat
<1>1. a + 1 \in Nat /\ a + 1 <= b /\ sector_size \in Nat
  BY GeometryAssumption
<1>2. (a + 1) * sector_size <= b * sector_size
  BY <1>1, TimesMonotone
<1> QED
  BY <1>1, <1>2

(* The blocks of one disk (disk.c, BDS.c) lie where their numbers say.     *)
THEOREM BlocksAreKeptApart == BlocksKeepApart
<1> SUFFICES ASSUME NEW g \in Geometry, Countable(g)
             PROVE  /\ Starts(g)
                    /\ \A a \in 0 .. NBlocks(g) - 1 :
                          /\ AcceptsWrite(g, Cylinder(g, a), Sector(g, a), sector_size)
                          /\ 0 <= First(g, a)
                          /\ First(g, a) + sector_size <= FileSize(g)
                          /\ \A b \in 0 .. NBlocks(g) - 1 :
                                a < b => First(g, a) + sector_size <= First(g, b)
  BY DEF BlocksKeepApart
<1>1. Starts(g)
  BY FileSizeIs DEF Starts
<1>2. ASSUME NEW a \in 0 .. NBlocks(g) - 1
      PROVE  /\ AcceptsWrite(g, Cylinder(g, a), Sector(g, a), sector_size)
             /\ 0 <= First(g, a) /\ First(g, a) + sector_size <= FileSize(g)
  <2>1. First(g, a) = Offset(g, Cylinder(g, a), Sector(g, a))
    BY DEF First
  <2>2. /\ Accepts(g, Cylinder(g, a), Sector(g, a))
        /\ 0 <= First(g, a) /\ First(g, a) + sector_size <= FileSize(g)
    BY BlockPlace, FileSizeIs
  <2> QED
    BY <2>1, <2>2 DEF AcceptsWrite
<1>3. ASSUME NEW a \in 0 .. NBlocks(g) - 1, NEW b \in 0 .. NBlocks(g) - 1, a < b
      PROVE  First(g, a) + sector_size <= First(g, b)
  <2>1. a \in Nat /\ b \in Nat
    BY FileSizeIs
  <2>2. First(g, a) = a * sector_size /\ First(g, b) = b * sector_size
    BY BlockPlace
  <2> QED
    BY <1>3, <2>1, <2>2, BlocksInOrder
<1> QED
  BY <1>1, <1>2, <1>3

-----------------------------------------------------------------------------
(* Every byte of a block of the disk is a byte of the file.                *)
LEMMA PlaceInFile ==
    ASSUME NEW b \in Block, NEW i \in 0 .. sector_size - 1
    PROVE  b * sector_size + i \in 0 .. MaxSide * MaxSide * sector_size - 1
<1> DEFINE n == MaxSide * MaxSide
<1>1. n \in Nat /\ sector_size \in Nat \ {0} /\ b \in 0 .. n - 1
  BY GeometryAssumption DEF Block
<1> HIDE DEF n
<1>2. b \in Nat /\ n \in Nat /\ b < n
  BY <1>1
<1>3. /\ b * sector_size + sector_size <= n * sector_size
      /\ b * sector_size \in Nat /\ n * sector_size \in Nat
  BY <1>2, BlocksInOrder
<1>4. b * sector_size + i \in 0 .. n * sector_size - 1
  BY <1>1, <1>3
<1> QED
  BY <1>4 DEF n

(* Two blocks share no byte, and no block has a byte twice.                *)
LEMMA PlacesApart ==
    ASSUME NEW a \in Block, NEW b \in Block,
           NEW i \in 0 .. sector_size - 1, NEW j \in 0 .. sector_size - 1,
           a * sector_size + i = b * sector_size + j
    PROVE  a = b /\ i = j
<1>1. a \in Nat /\ b \in Nat /\ sector_size \in Nat
  BY GeometryAssumption DEF Block
<1>2. a * sector_size \in Nat /\ b * sector_size \in Nat
  BY <1>1
<1>3. CASE a < b
  BY <1>1, <1>2, <1>3, BlocksInOrder
<1>4. CASE b < a
  BY <1>1, <1>2, <1>4, BlocksInOrder
<1>5. CASE a = b
  BY <1>1, <1>2, <1>5
<1> QED
  BY <1>1, <1>3, <1>4, <1>5

(* A disk has no more blocks than the largest one.                         *)
LEMMA BlocksOfDisk ==
    ASSUME NEW g \in Geometry
    PROVE  NBlocks(g) \in Nat \ {0} /\ \A b \in Nat : b < NBlocks(g) => b \in Block
<1> DEFINE c == g.n_cylinders
           s == g.n_sectors
<1>1. c \in 1 .. MaxSide /\ s \in 1 .. MaxSide /\ MaxSide \in Nat
  BY GeometryAssumption DEF Geometry
<1>2. NBlocks(g) = c * s
  BY DEF NBlocks
<1> HIDE DEF c, s
<1>3. c * s \in Nat /\ c * s > 0 /\ c * s <= MaxSide * s
  BY <1>1, TimesMonotone
<1>4. s * MaxSide <= MaxSide * MaxSide
  BY <1>1, TimesMonotone
<1>5. MaxSide * s = s * MaxSide /\ MaxSide * MaxSide \in Nat
  BY <1>1
<1>6. c * s \in Nat \ {0} /\ c * s <= MaxSide * MaxSide
  <2> DEFINE p == c * s
             q == MaxSide * s
             m == MaxSide * MaxSide
  <2>1. q = s * MaxSide /\ q \in Nat
    BY <1>1
  <2>2. p \in Nat /\ p > 0 /\ p <= q /\ q <= m /\ m \in Nat
    BY <1>3, <1>4, <1>5, <2>1
  <2> HIDE DEF p, q, m
  <2>3. p \in Nat \ {0} /\ p <= m
    BY <2>1, <2>2
  <2> QED
    BY <2>3 DEF p, m
<1> DEFINE m == MaxSide * MaxSide
<1>7. NBlocks(g) \in Nat \ {0} /\ NBlocks(g) <= m /\ m \in Nat
  BY <1>2, <1>5, <1>6
<1>8. Block = 0 .. m - 1
  BY DEF Block
<1> HIDE DEF m
<1> QED
  BY <1>7, <1>8

(* The byte that a start writes is the last one of its disk's last block.  *)
LEMMA LastByte ==
    ASSUME NEW g \in Geometry, Countable(g)
    PROVE  /\ NBlocks(g) - 1 \in Block
           /\ FileSize(g) - 1
                = (NBlocks(g) - 1) * sector_size + (sector_size - 1)
<1> DEFINE n == NBlocks(g)
<1>1. n \in Nat \ {0} /\ n - 1 \in Nat /\ n - 1 \in Block
  BY BlocksOfDisk
<1>2. FileSize(g) = n * sector_size
  BY FileSizeIs
<1> HIDE DEF n
<1>3. sector_size \in Nat
  BY GeometryAssumption
<1>4. n * sector_size = (n - 1) * sector_size + sector_size
  BY <1>1, <1>3
<1>5. (n - 1) * sector_size \in Nat
  BY <1>1, <1>3
<1> QED
  BY <1>1, <1>2, <1>3, <1>4, <1>5 DEF n

(* The request that a worker serves. *)
LEMMA CallFields ==
    ASSUME TypeOK, NEW w \in Worker
    PROVE  /\ call[w].op # "none" <=> call[w] # NoCall
           /\ call[w] # NoCall =>
                 /\ call[w] \in Call
                 /\ call[w].op \in {"R", "W"} /\ call[w].block \in Block
                 /\ call[w].data \in Contents
                 /\ call[w].at \in Waiting .. sector_size
                 /\ call[w].at # Waiting => call[w].at \in 0 .. sector_size
<1>1. call[w] \in Call \/ call[w] = NoCall
  BY DEF TypeOK
<1>2. NoCall.op = "none"
  BY DEF NoCall
<1>3. ASSUME call[w] \in Call
      PROVE  /\ call[w].op \in {"R", "W"} /\ call[w].block \in Block
             /\ call[w].data \in Contents
             /\ call[w].at \in Waiting .. sector_size
  BY <1>3 DEF Call
<1>4. sector_size \in Nat
  BY GeometryAssumption
<1> QED
  BY <1>1, <1>2, <1>3, <1>4 DEF Waiting

(* A new server has a file of zeros. *)
LEMMA InitHolds == Init => IInv
<1> SUFFICES ASSUME Init
             PROVE  IInv
  OBVIOUS
<1>1. Zeros \in Contents
  BY ServerAssumption DEF Zeros, Contents
<1>2. TypeOK
  <2>1. /\ shape \in Shape /\ mutex \in 0 .. 1
        /\ torn \subseteq Block /\ cut \subseteq Block
    BY SMT DEF Init
  <2>5. up \in BOOLEAN
    BY Zenon DEF Init
  <2>2. diskfile \in [0 .. MaxSide * MaxSide * sector_size - 1 -> Byte]
    BY ServerAssumption DEF Init
  <2>3. call \in [Worker -> Call \cup {NoCall}]
    BY DEF Init
  <2>4. stored \in [Block -> Contents]
    BY <1>1 DEF Init
  <2> QED
    BY <2>1, <2>2, <2>3, <2>4, <2>5 DEF TypeOK
<1>3. \A w \in Worker : ~Copying(w)
  BY DEF Init, Copying, NoCall
<1>4. Serialized
  BY <1>3 DEF Init, Serialized
<1>5. HalfWritten /\ ReadsAreWhole
  BY <1>3 DEF HalfWritten, ReadsAreWhole
<1>6. ASSUME NEW b \in Block, NEW i \in 0 .. sector_size - 1
      PROVE  Holds(b, i, diskfile[b * sector_size + i])
  BY <1>6, PlaceInFile DEF Init, Holds, Zeros
<1> QED
  BY <1>2, <1>4, <1>5, <1>6 DEF IInv, BlocksReadBack

-----------------------------------------------------------------------------
(* One action at a time.                                                   *)

(* The worker that copies is alone, and its block is on the disk.          *)
LEMMA CopyingWorker ==
    ASSUME TypeOK, Serialized, NEW w \in Worker, Copying(w)
    PROVE  /\ up /\ mutex = 0 /\ Countable(shape) /\ shape \in Geometry
           /\ call[w] \in Call
           /\ call[w].op \in {"R", "W"} /\ call[w].block \in Block
           /\ call[w].data \in Contents /\ call[w].at \in 0 .. sector_size
           /\ First(shape, call[w].block) = call[w].block * sector_size
           /\ \A v \in Worker : v # w => ~Copying(v)
           /\ \A b \in Block : Writing(b) <=> call[w].op = "W" /\ call[w].block = b
<1>1. /\ call[w] # NoCall /\ call[w] \in Call
      /\ call[w].op \in {"R", "W"} /\ call[w].block \in Block
      /\ call[w].data \in Contents /\ call[w].at \in 0 .. sector_size
  BY CallFields DEF Copying
<1>2. /\ up /\ call[w].block < NBlocks(shape) /\ Countable(shape)
      /\ \A v \in Worker : v # w => ~Copying(v)
      /\ mutex # 1
  BY <1>1 DEF Serialized
<1>3. shape \in Geometry /\ mutex \in 0 .. 1
  BY ServerAssumption DEF TypeOK
<1>4. mutex = 0
  BY <1>2, <1>3
<1>5. call[w].block \in 0 .. NBlocks(shape) - 1
  BY <1>1, <1>2, <1>3, BlocksOfDisk, GeometryAssumption DEF Block
<1>6. First(shape, call[w].block) = call[w].block * sector_size
  BY <1>2, <1>3, <1>5, BlockPlace
<1>7. \A b \in Block : Writing(b) <=> call[w].op = "W" /\ call[w].block = b
  BY <1>2 DEF Writing
<1> QED
  BY <1>1, <1>2, <1>3, <1>4, <1>6, <1>7

(* A step that copies nothing keeps what is known of the bytes.            *)
LEMMA NothingCopied ==
    ASSUME HalfWritten, BlocksReadBack, ReadsAreWhole,
           UNCHANGED <<diskfile, history>>,
           \A v \in Worker : Copying(v)' =>
               \/ Copying(v) /\ call'[v] = call[v]
               \/ call'[v].at = 0,
           \A b \in Block : Writing(b) => Writing(b)'
    PROVE  HalfWritten' /\ BlocksReadBack' /\ ReadsAreWhole'
<1>1. \A i \in 0 .. 0 - 1 : FALSE
  OBVIOUS
<1>2. HalfWritten'
  BY <1>1 DEF HalfWritten
<1>3. /\ torn' = torn
      /\ \A b, i, x : Holds(b, i, x)' <=> Holds(b, i, x)
  BY DEF Holds, history
<1>4. BlocksReadBack'
  BY <1>3 DEF BlocksReadBack
<1>5. ReadsAreWhole'
  BY <1>1, <1>3 DEF ReadsAreWhole
<1> QED
  BY <1>2, <1>4, <1>5

(* A request that waits holds nothing up (BDS.c, before sem_wait).         *)
LEMMA AskHolds ==
    ASSUME IInv, NEW w \in Worker, NEW op \in {"R", "W"}, NEW b \in Block,
           NEW data \in Contents, Ask(w, op, b, data)
    PROVE  IInv'
<1> DEFINE r == [op |-> op, block |-> b, data |-> data, at |-> Waiting]
<1>1. /\ TypeOK /\ Serialized /\ HalfWritten /\ BlocksReadBack /\ ReadsAreWhole
      /\ up /\ call[w] = NoCall /\ b < NBlocks(shape)
      /\ call' = [call EXCEPT ![w] = r]
      /\ UNCHANGED <<up, shape, diskfile, mutex, history>>
  BY DEF IInv, Ask
<1>2. r \in Call
  BY GeometryAssumption DEF Call, Waiting
<1>3. call' \in [Worker -> Call \cup {NoCall}]
  BY <1>1, <1>2 DEF TypeOK
<1>4. TypeOK'
  BY <1>1, <1>3 DEF TypeOK, history
<1>5. /\ call'[w] = r /\ r.at = Waiting /\ r.block = b
      /\ \A v \in Worker : v # w => call'[v] = call[v]
  BY <1>1 DEF TypeOK
<1>6. \A v \in Worker : Copying(v)' <=> Copying(v) /\ v # w
  BY <1>1, <1>5 DEF Copying
<1>7. ~Copying(w)
  BY <1>1, CallFields DEF Copying
<1> HIDE DEF r
<1>8. Serialized'
  BY <1>1, <1>5, <1>6 DEF Serialized
<1>9. \A a \in Block : Writing(a) => Writing(a)'
  BY <1>5, <1>6, <1>7 DEF Writing
<1>10. HalfWritten' /\ BlocksReadBack' /\ ReadsAreWhole'
  BY <1>1, <1>5, <1>6, <1>9, NothingCopied
<1> QED
  BY <1>4, <1>8, <1>10 DEF IInv

(* sem_wait lets one worker in (BDS.c:diskfile_read, diskfile_write).      *)
LEMMA EnterHolds ==
    ASSUME IInv, NEW w \in Worker, Enter(w)
    PROVE  IInv'
<1>1. /\ TypeOK /\ Serialized /\ HalfWritten /\ BlocksReadBack /\ ReadsAreWhole
      /\ up /\ call[w].op # "none" /\ call[w].at = Waiting
      /\ mutex > 0 /\ mutex' = mutex - 1
      /\ call' = [call EXCEPT ![w].at = 0]
      /\ UNCHANGED <<up, shape, diskfile, history>>
  BY DEF IInv, Enter
<1>2. mutex = 1 /\ mutex' = 0
  BY <1>1 DEF TypeOK
<1>3. call[w] # NoCall /\ call[w] \in Call
  BY <1>1, CallFields
<1>4. [call[w] EXCEPT !.at = 0] \in Call
  BY <1>3, GeometryAssumption DEF Call, Waiting
<1>5. call' \in [Worker -> Call \cup {NoCall}]
  BY <1>1, <1>4 DEF TypeOK
<1>6. TypeOK'
  BY <1>1, <1>2, <1>5 DEF TypeOK, history
<1>7. /\ call'[w].at = 0 /\ call'[w].block = call[w].block
      /\ \A v \in Worker : v # w => call'[v] = call[v]
  BY <1>1, <1>3 DEF TypeOK, Call
<1>8. \A v \in Worker : ~Copying(v)
  BY <1>1, <1>2 DEF Serialized
<1>9. \A v \in Worker : Copying(v)' => v = w
  BY <1>7, <1>8 DEF Copying
<1>10. Serialized'
  BY <1>1, <1>2, <1>3, <1>7, <1>9 DEF Serialized
<1>11. \A a \in Block : Writing(a) => Writing(a)'
  BY <1>8 DEF Writing
<1>12. HalfWritten' /\ BlocksReadBack' /\ ReadsAreWhole'
  BY <1>1, <1>7, <1>9, <1>11, NothingCopied
<1> QED
  BY <1>6, <1>10, <1>12 DEF IInv

(* One byte of memcpy, from the file or to it (BDS.c).                     *)
LEMMA CopyHolds ==
    ASSUME IInv, NEW w \in Worker, Copy(w)
    PROVE  IInv'
<1> DEFINE i == call[w].at
           b == call[w].block
           p == b * sector_size + i
<1>1. /\ TypeOK /\ Serialized /\ HalfWritten /\ BlocksReadBack /\ ReadsAreWhole
      /\ up /\ Copying(w) /\ i < sector_size
      /\ UNCHANGED <<up, shape, mutex, history>>
  BY DEF IInv, Copy
<1>2. /\ call[w] \in Call /\ call[w].op \in {"R", "W"} /\ b \in Block
      /\ call[w].data \in Contents /\ i \in 0 .. sector_size
      /\ First(shape, b) = b * sector_size
      /\ \A v \in Worker : v # w => ~Copying(v)
      /\ \A a \in Block : Writing(a) <=> call[w].op = "W" /\ b = a
  BY <1>1, CopyingWorker
<1>3. /\ i \in 0 .. sector_size - 1 /\ i + 1 \in 0 .. sector_size
      /\ i + 1 # Waiting
      /\ \A j \in 0 .. (i + 1) - 1 :
            j \in 0 .. sector_size - 1 /\ (j = i \/ j \in 0 .. i - 1)
  BY <1>1, <1>2, GeometryAssumption DEF Waiting
<1>4. p \in 0 .. MaxSide * MaxSide * sector_size - 1
  BY <1>2, <1>3, PlaceInFile
<1>5. /\ \A v \in Worker : v # w => call'[v] = call[v]
      /\ call'[w].op = call[w].op /\ call'[w].block = b
      /\ call'[w].at = i + 1
      /\ call'[w] # NoCall
  BY <1>1, <1>2 DEF Copy, TypeOK, Call, NoCall, Contents
<1>6. /\ \A v \in Worker : Copying(v)' <=> v = w
      /\ \A a \in Block : Writing(a)' <=> Writing(a)
  BY <1>1, <1>2, <1>3, <1>5 DEF Copying, Writing
<1>7. Serialized'
  BY <1>1, <1>2, <1>5, <1>6, CallFields DEF Serialized, Copying
<1>8. /\ torn' = torn
      /\ \A a, j, x : Holds(a, j, x)' <=> Holds(a, j, x)
  BY <1>1 DEF Holds, history
<1>9. CASE call[w].op = "R"
  <2> DEFINE r == [call[w] EXCEPT !.at = i + 1, !.data[i] = diskfile[p]]
  <2>1. diskfile' = diskfile /\ call' = [call EXCEPT ![w] = r]
    BY <1>1, <1>2, <1>9 DEF Copy
  <2>2. diskfile[p] \in Byte
    BY <1>1, <1>4 DEF TypeOK
  <2>3. r.data = [call[w].data EXCEPT ![i] = diskfile[p]] /\ r.data \in Contents
    BY <1>2, <2>2 DEF Call, Contents
  <2>4. r \in Call
    <3> DEFINE d == [call[w].data EXCEPT ![i] = diskfile[p]]
    <3>1. d \in Contents /\ r = [call[w] EXCEPT !.at = i + 1, !.data = d]
      BY <1>2, <2>3 DEF Call
    <3> HIDE DEF d, r
    <3>2. i + 1 \in Waiting .. sector_size
      BY <1>3, GeometryAssumption DEF Waiting
    <3> QED
      BY <1>2, <3>1, <3>2 DEF Call
  <2>5. call'[w] = r
    BY <1>1, <2>1 DEF TypeOK
  <2> HIDE DEF r
  <2>6. call' \in [Worker -> Call \cup {NoCall}]
    BY <1>1, <2>1, <2>4 DEF TypeOK
  <2>7. TypeOK'
    BY <1>1, <2>1, <2>6 DEF TypeOK, history
  <2>8. HalfWritten'
    BY <1>5, <1>6, <1>9 DEF HalfWritten
  <2>9. BlocksReadBack'
    BY <1>1, <1>6, <1>8, <2>1 DEF BlocksReadBack
  <2>10. ReadsAreWhole'
    <3> SUFFICES ASSUME b \notin torn, NEW j \in 0 .. (i + 1) - 1
                 PROVE  Holds(b, j, r.data[j])
      BY <1>5, <1>6, <1>8, <2>5 DEF ReadsAreWhole
    <3>1. CASE j = i
      <4>1. Holds(b, i, diskfile[p])
        BY <1>1, <1>2, <1>3, <1>9 DEF BlocksReadBack
      <4> QED
        BY <1>2, <1>3, <2>3, <3>1, <4>1 DEF Contents
    <3>2. CASE j # i
      <4>1. j \in 0 .. i - 1 /\ j \in 0 .. sector_size - 1
        BY <1>3, <3>2
      <4>2. Holds(b, j, call[w].data[j])
        BY <1>1, <1>9, <4>1 DEF ReadsAreWhole
      <4> QED
        BY <1>2, <2>3, <3>2, <4>1, <4>2 DEF Contents
    <3> QED
      BY <3>1, <3>2
  <2> QED
    BY <1>7, <2>7, <2>8, <2>9, <2>10 DEF IInv
<1>10. CASE call[w].op = "W"
  <2> DEFINE r == [call[w] EXCEPT !.at = i + 1]
  <2>1. /\ diskfile' = [diskfile EXCEPT ![p] = call[w].data[i]]
        /\ call' = [call EXCEPT ![w] = r]
    BY <1>1, <1>2, <1>10 DEF Copy
  <2>2. call[w].data[i] \in Byte
    BY <1>2, <1>3 DEF Contents
  <2>3. r \in Call /\ r.data = call[w].data
    BY <1>2, <1>3, GeometryAssumption DEF Call, Waiting
  <2>4. call'[w] = r
    BY <1>1, <2>1 DEF TypeOK
  <2> HIDE DEF r
  <2>5. call' \in [Worker -> Call \cup {NoCall}]
    BY <1>1, <2>1, <2>3 DEF TypeOK
  <2>6. diskfile' \in [0 .. MaxSide * MaxSide * sector_size - 1 -> Byte]
    BY <1>1, <2>1, <2>2 DEF TypeOK
  <2>7. TypeOK'
    BY <1>1, <2>5, <2>6 DEF TypeOK, history
  <2>8. /\ diskfile'[p] = call[w].data[i]
        /\ \A a \in Block, j \in 0 .. sector_size - 1 :
              a # b \/ j # i => diskfile'[a * sector_size + j]
                                  = diskfile[a * sector_size + j]
    <3>1. diskfile'[p] = call[w].data[i]
      BY <1>1, <1>4, <2>1 DEF TypeOK
    <3>2. ASSUME NEW a \in Block, NEW j \in 0 .. sector_size - 1, a # b \/ j # i
          PROVE  diskfile'[a * sector_size + j] = diskfile[a * sector_size + j]
      <4>1. a * sector_size + j # p
        BY <1>2, <1>3, <3>2, PlacesApart
      <4>2. a * sector_size + j \in 0 .. MaxSide * MaxSide * sector_size - 1
        BY PlaceInFile
      <4> HIDE DEF p
      <4> QED
        BY <1>1, <2>1, <4>1, <4>2 DEF TypeOK
    <3> QED
      BY <3>1, <3>2
  <2>9. HalfWritten'
    <3> SUFFICES ASSUME NEW j \in 0 .. (i + 1) - 1
                 PROVE  diskfile'[b * sector_size + j] = call[w].data[j]
      BY <1>5, <1>6, <2>3, <2>4 DEF HalfWritten
    <3>1. CASE j = i
      BY <2>8, <3>1
    <3>2. CASE j # i
      <4>1. j \in 0 .. i - 1 /\ j \in 0 .. sector_size - 1
        BY <1>3, <3>2
      <4> QED
        BY <1>1, <1>2, <1>10, <2>8, <3>2, <4>1 DEF HalfWritten
    <3> QED
      BY <3>1, <3>2
  <2>10. BlocksReadBack'
    BY <1>1, <1>2, <1>6, <1>8, <1>10, <2>8 DEF BlocksReadBack
  <2>11. ReadsAreWhole'
    BY <1>5, <1>6, <1>10 DEF ReadsAreWhole
  <2> QED
    BY <1>7, <2>7, <2>9, <2>10, <2>11 DEF IInv
<1> QED
  BY <1>2, <1>9, <1>10

(* sem_post, when all of the block is copied. *)
LEMMA AnswerHolds ==
    ASSUME IInv, NEW w \in Worker, Answer(w)
    PROVE  IInv'
<1> DEFINE b == call[w].block
<1>1. /\ TypeOK /\ Serialized /\ HalfWritten /\ BlocksReadBack /\ ReadsAreWhole
      /\ up /\ Copying(w) /\ call[w].at = sector_size
      /\ mutex' = mutex + 1
      /\ call' = [call EXCEPT ![w] = NoCall]
      /\ UNCHANGED <<up, shape, diskfile>>
  BY DEF IInv, Answer
<1>2. /\ mutex = 0
      /\ call[w].op \in {"R", "W"} /\ b \in Block /\ call[w].data \in Contents
      /\ \A v \in Worker : v # w => ~Copying(v)
      /\ \A a \in Block : Writing(a) <=> call[w].op = "W" /\ b = a
  BY <1>1, CopyingWorker
<1>3. /\ call'[w] = NoCall
      /\ \A v \in Worker : v # w => call'[v] = call[v]
  BY <1>1 DEF TypeOK
<1>4. \A v \in Worker : ~Copying(v)'
  BY <1>2, <1>3 DEF Copying, NoCall
<1>5. Serialized' /\ HalfWritten' /\ ReadsAreWhole'
  BY <1>1, <1>3, <1>4 DEF Serialized, HalfWritten, ReadsAreWhole
<1>6. call' \in [Worker -> Call \cup {NoCall}] /\ mutex' \in 0 .. 1
  BY <1>1, <1>2 DEF TypeOK
<1>7. CASE call[w].op = "R"
  <2>1. UNCHANGED history
    BY <1>7 DEF Answer, history
  <2>2. TypeOK'
    BY <1>1, <1>6, <2>1 DEF TypeOK, history
  <2>3. BlocksReadBack'
    BY <1>1, <1>2, <1>7, <2>1 DEF BlocksReadBack, Holds, history
  <2> QED
    BY <1>5, <2>2, <2>3 DEF IInv
<1>8. CASE call[w].op = "W"
  <2>1. /\ stored' = [stored EXCEPT ![b] = call[w].data]
        /\ torn' = torn \ {b} /\ cut' = cut \ {b}
    BY <1>8 DEF Answer
  <2>2. TypeOK'
    BY <1>1, <1>2, <1>6, <2>1 DEF TypeOK
  <2>3. BlocksReadBack'
    <3> SUFFICES ASSUME NEW a \in Block \ torn', NEW i \in 0 .. sector_size - 1
                 PROVE  Holds(a, i, diskfile[a * sector_size + i])'
      BY <1>1 DEF BlocksReadBack
    <3>1. CASE a = b
      <4>1. diskfile[b * sector_size + i] = call[w].data[i]
        BY <1>1, <1>8 DEF HalfWritten
      <4>2. stored'[b] = call[w].data /\ b \notin cut'
        BY <1>1, <1>2, <2>1 DEF TypeOK
      <4> QED
        BY <1>1, <3>1, <4>1, <4>2 DEF Holds
    <3>2. CASE a # b
      <4>1. /\ a \in Block \ torn /\ ~Writing(a)
            /\ stored'[a] = stored[a] /\ (a \in cut' <=> a \in cut)
        BY <1>1, <1>2, <2>1, <3>2 DEF TypeOK
      <4>2. Holds(a, i, diskfile[a * sector_size + i])
        BY <1>1, <4>1 DEF BlocksReadBack
      <4> QED
        BY <1>1, <4>1, <4>2 DEF Holds
    <3> QED
      BY <3>1, <3>2
  <2> QED
    BY <1>5, <2>2, <2>3 DEF IInv
<1> QED
  BY <1>2, <1>7, <1>8

(* A start costs the last block of its own disk its last byte, and nothing *)
(* else (BDS.c:diskfile_init).                                             *)
LEMMA StartHolds ==
    ASSUME IInv, NEW g \in Shape, Start(g)
    PROVE  IInv'
<1> DEFINE z == NBlocks(g) - 1
           p == FileSize(g) - 1
<1>1. /\ TypeOK /\ Serialized /\ HalfWritten /\ BlocksReadBack /\ ReadsAreWhole
      /\ ~up /\ Countable(g) /\ g \in Geometry
      /\ shape' = g /\ up' /\ diskfile' = [diskfile EXCEPT ![p] = 0]
      /\ cut' = cut \cup {z}
      /\ UNCHANGED <<mutex, call, stored, torn>>
  BY ServerAssumption DEF IInv, Start, Stretched
<1>2. /\ z \in Block
      /\ p = z * sector_size + (sector_size - 1)
      /\ sector_size - 1 \in 0 .. sector_size - 1
  BY <1>1, LastByte, GeometryAssumption
<1> HIDE DEF z, p
<1>3. p \in 0 .. MaxSide * MaxSide * sector_size - 1
  BY <1>2, PlaceInFile
<1>4. \A w \in Worker : call[w] = NoCall /\ ~Copying(w) /\ ~Copying(w)'
  BY <1>1 DEF Serialized, Copying, NoCall
<1>5. TypeOK'
  <2>1. diskfile' \in [0 .. MaxSide * MaxSide * sector_size - 1 -> Byte]
    BY <1>1, <1>3, ServerAssumption DEF TypeOK
  <2>2. up' \in BOOLEAN
    BY <1>1
  <2> QED
    BY <1>1, <1>2, <2>1, <2>2 DEF TypeOK
<1>6. Serialized' /\ HalfWritten' /\ ReadsAreWhole'
  BY <1>1, <1>4 DEF Serialized, HalfWritten, ReadsAreWhole
<1>7. BlocksReadBack'
  <2> SUFFICES ASSUME NEW a \in Block \ torn, NEW i \in 0 .. sector_size - 1
               PROVE  Holds(a, i, diskfile[a * sector_size + i])'
    BY <1>1 DEF BlocksReadBack
  <2>1. a * sector_size + i \in 0 .. MaxSide * MaxSide * sector_size - 1
    BY PlaceInFile
  <2>2. Holds(a, i, diskfile[a * sector_size + i])
    BY <1>1, <1>4 DEF BlocksReadBack, Writing
  <2>3. CASE a = z /\ i = sector_size - 1
    <3>1. diskfile'[a * sector_size + i] = 0
      BY <1>1, <1>2, <1>3, <2>3 DEF TypeOK
    <3> QED
      BY <1>1, <2>3, <3>1 DEF Holds
  <2>4. CASE ~(a = z /\ i = sector_size - 1)
    <3>1. a * sector_size + i # p
      BY <1>2, <2>4, PlacesApart
    <3>2. diskfile'[a * sector_size + i] = diskfile[a * sector_size + i]
      BY <1>1, <2>1, <3>1 DEF TypeOK
    <3> QED
      BY <1>1, <2>2, <2>4, <3>2 DEF Holds
  <2> QED
    BY <2>3, <2>4
<1> QED
  BY <1>5, <1>6, <1>7 DEF IInv

(* A server that ends leaves what was copied; a block that was being       *)
(* written may be torn (BDS.c:main).                                       *)
LEMMA StopHolds ==
    ASSUME IInv, Stop
    PROVE  IInv'
<1>1. /\ TypeOK /\ Serialized /\ HalfWritten /\ BlocksReadBack /\ ReadsAreWhole
      /\ up' = FALSE /\ mutex' = 1
      /\ call' = [w \in Worker |-> NoCall]
      /\ torn' = torn \cup {b \in Block : Writing(b)}
      /\ UNCHANGED <<shape, diskfile, stored, cut>>
  BY DEF IInv, Stop
<1>2. \A w \in Worker : call'[w] = NoCall /\ ~Copying(w)'
  BY <1>1 DEF Copying, NoCall
<1>3. TypeOK'
  <2>1. call' \in [Worker -> Call \cup {NoCall}]
    BY <1>1
  <2>2. up' \in BOOLEAN
    BY <1>1
  <2> QED
    BY <1>1, <2>1, <2>2 DEF TypeOK
<1>4. Serialized' /\ HalfWritten' /\ ReadsAreWhole'
  BY <1>1, <1>2 DEF Serialized, HalfWritten, ReadsAreWhole
<1>5. BlocksReadBack'
  BY <1>1 DEF BlocksReadBack, Holds
<1> QED
  BY <1>3, <1>4, <1>5 DEF IInv

LEMMA NextHolds ==
    ASSUME IInv, [Next]_vars
    PROVE  IInv'
<1>1. CASE UNCHANGED vars
  BY <1>1
  DEF vars, history, IInv, TypeOK, Serialized, HalfWritten, BlocksReadBack,
      ReadsAreWhole, Copying, Writing, Holds
<1> QED
  BY <1>1, AskHolds, EnterHolds, CopyHolds, AnswerHolds, StartHolds, StopHolds
  DEF Next

LEMMA Inductive == Spec => []IInv
<1>1. Init => IInv
  BY InitHolds
<1>2. IInv /\ [Next]_vars => IInv'
  BY NextHolds
<1> QED
  BY <1>1, <1>2, PTL DEF Spec

(* The state of the disk server is well typed, through every stop and      *)
(* every start with a disk of another shape (BDS.c).                       *)
THEOREM DiskTypeCorrect == Spec => []TypeOK
<1>1. IInv => TypeOK
  BY DEF IInv
<1> QED
  BY <1>1, Inductive, PTL

(* A block that nobody writes holds what was last written to it, through   *)
(* restarts with other shapes, unless the server ended in the middle of a  *)
(* write to it; a start harms one byte (BDS.c:diskfile_init,               *)
(* diskfile_write, disk.c:disk_write_direct).                              *)
THEOREM BlocksKeepContents == Spec => []BlocksReadBack
<1>1. IInv => BlocksReadBack
  BY DEF IInv
<1> QED
  BY <1>1, Inductive, PTL

(* A read copies out the whole of one write, however many workers write at *)
(* the time (BDS.c:diskfile_read, diskfile_write).                         *)
THEOREM ReadsAreNotTorn == Spec => []ReadsAreWhole
<1>1. IInv => ReadsAreWhole
  BY DEF IInv
<1> QED
  BY <1>1, Inductive, PTL
=============================================================================
