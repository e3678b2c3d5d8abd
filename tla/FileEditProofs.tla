--------------------------- MODULE FileEditProofs ---------------------------
(***************************************************************************)
(* The edits of a file do what they promise, for files of every size below *)
(* the double indirect region, every position and whatever the blocks of a *)
(* growing file held: first what each outcome of a resize and of a write   *)
(* is, then what each outcome of a kernel is, then every call.             *)
(***************************************************************************)
EXTENDS FileEdit, TLAPS

(* What a file is.                                                         *)
LEMMA FileType ==
    ASSUME NEW f \in File
    PROVE  /\ f.size \in Nat
           /\ f.byte \in [0 .. f.size - 1 -> Byte]
           /\ f = [size |-> f.size, byte |-> f.byte]
<1>1. PICK n \in 0 .. MaxSize : f \in [size : {n}, byte : [0 .. n - 1 -> Byte]]
  BY DEF File
<1> QED
  BY <1>1

LEMMA BlocksIsNat ==
    ASSUME NEW n \in Nat
    PROVE  Blocks(n) \in Nat /\ 0 \in 0 .. Blocks(n)
<1>1. BLOCK_SIZE \in Nat /\ BLOCK_SIZE > 0
  BY EditAssumption
<1>2. n \div BLOCK_SIZE \in Nat
  BY <1>1
<1>3. Blocks(n) \in Nat
  BY <1>2 DEF Blocks
<1> QED
  BY <1>3

(* A larger file has no fewer blocks.                                      *)
LEMMA BlocksGrow ==
    ASSUME NEW m \in Nat, NEW n \in Nat, m <= n
    PROVE  Blocks(m) <= Blocks(n)
<1> DEFINE b == BLOCK_SIZE
<1>1. b \in Nat \ {0}
  BY EditAssumption
<1> HIDE DEF b
<1>2. PICK q \in Nat, r \in 0 .. (b - 1) : q = m \div b /\ q * b + r = m
  <2>1. m \div b \in Nat /\ m % b \in 0 .. (b - 1) /\ (m \div b) * b + (m % b) = m
    BY <1>1
  <2> QED
    BY <2>1
<1>3. PICK p \in Nat, s \in 0 .. (b - 1) : p = n \div b /\ p * b + s = n
  <2>1. n \div b \in Nat /\ n % b \in 0 .. (b - 1) /\ (n \div b) * b + (n % b) = n
    BY <1>1
  <2> QED
    BY <2>1
<1>4. q <= p
  <2> SUFFICES ASSUME q >= p + 1 PROVE FALSE
    OBVIOUS
  <2>1. q * b >= (p + 1) * b
    BY <1>1
  <2> QED
    BY <1>1, <1>2, <1>3, <2>1
<1> QED
  BY <1>2, <1>3, <1>4 DEF Blocks, b

(* What a resize leaves (inodes.c:inode_file_resize).                      *)
LEMMA ResizeOutcome ==
    ASSUME NEW f, f.size \in Nat, NEW size \in Nat, NEW o \in Resize(f, size)
    PROVE  /\ o.is \in {"ok", "error", "broken"}
           /\ o.is = "broken" => Blocks(size) < Blocks(f.size) /\ o.file = Empty
           /\ o.is = "error" => o.file = f
           /\ o.is = "ok" =>
                /\ o.file.size = size
                /\ \A i \in 0 .. size - 1 : i < f.size => o.file.byte[i] = f.byte[i]
                /\ size = 0 => o.file = Empty
<1>1. ASSUME NEW stale \in Stale, o = Done(Resized(f, size, stale))
      PROVE  /\ o.is = "ok" /\ o.file.size = size
             /\ \A i \in 0 .. size - 1 : i < f.size => o.file.byte[i] = f.byte[i]
             /\ size = 0 => o.file = Empty
  <2>1. o.file = Resized(f, size, stale) /\ o.is = "ok"
    BY <1>1 DEF Done
  <2>2. /\ o.file.size = size
        /\ o.file = [size |-> size, byte |-> o.file.byte]
        /\ o.file.byte = [i \in 0 .. size - 1 |-> IF i < f.size THEN f.byte[i] ELSE stale[i]]
    BY <2>1 DEF Resized
  <2>3. \A i \in 0 .. size - 1 : i < f.size => o.file.byte[i] = f.byte[i]
    BY <2>2
  <2>4. size = 0 => o.file.byte = [i \in {} |-> 0]
    BY <2>2
  <2>5. size = 0 => o.file = Empty
    BY <2>2, <2>4 DEF Empty
  <2> QED
    BY <2>1, <2>2, <2>3, <2>5
<1>2. CASE o = Broken /\ Blocks(size) < Blocks(f.size)
  BY <1>2 DEF Broken
<1>3. CASE o = Fails(f)
  BY <1>3 DEF Fails
<1> QED
  BY <1>1, <1>2, <1>3 DEF Resize

(* g is f but for the bytes of one block.                                  *)
OneBlockOff(f, g) ==
    /\ g.size = f.size
    /\ \E k \in 0 .. Blocks(f.size) :
         \A i \in 0 .. f.size - 1 : g.byte[i] = f.byte[i] \/ i \div BLOCK_SIZE = k

(* What a write of no bytes leaves (inodes.c:inode_file_write).            *)
LEMMA EmptyWriteOutcome ==
    ASSUME NEW f, f.size \in Nat, NEW start \in Nat, NEW o \in EmptyWrite(f, start)
    PROVE  /\ o.is \in {"ok", "error", "broken"}
           /\ o.is = "broken" => Blocks(f.size) > NDIRECT /\ o.file = Empty
           /\ o.is # "broken" => OneBlockOff(f, o.file) /\ (f.size = 0 => o.file = f)
<1> DEFINE after == {f} \cup {Pasted(f, start, k, stale) :
                                 k \in 0 .. (Blocks(f.size) - 1), stale \in Stale}
<1>1. CASE o = Broken /\ Blocks(f.size) > NDIRECT
  BY <1>1 DEF Broken
<1>2. ASSUME NEW g \in after, o = Done(g) \/ o = Fails(g)
      PROVE  /\ o.is \in {"ok", "error"}
             /\ OneBlockOff(f, o.file) /\ (f.size = 0 => o.file = f)
  <2>1. o.is \in {"ok", "error"} /\ o.file = g
    BY <1>2 DEF Done, Fails
  <2>2. CASE g = f
    BY <2>1, <2>2, BlocksIsNat DEF OneBlockOff
  <2>3. CASE g # f
    <3>1. PICK k \in 0 .. (Blocks(f.size) - 1), stale \in Stale :
             g = Pasted(f, start, k, stale)
      BY <2>3
    <3>2. /\ g.size = f.size
          /\ \A i \in 0 .. f.size - 1 : g.byte[i] = f.byte[i] \/ i \div BLOCK_SIZE = k
      BY <3>1 DEF Pasted
    <3>3. f.size # 0 /\ k \in 0 .. Blocks(f.size)
      BY BlocksIsNat DEF Blocks
    <3> QED
      BY <2>1, <3>2, <3>3 DEF OneBlockOff
  <2> QED
    BY <2>2, <2>3
<1>3. \/ \E g \in after : o = Done(g) \/ o = Fails(g)
      \/ o = Broken /\ Blocks(f.size) > NDIRECT
  <2>1. EmptyWrite(f, start) =
          {Done(g) : g \in after} \cup {Fails(g) : g \in after}
              \cup {u \in {Broken} : Blocks(f.size) > NDIRECT}
    BY DEF EmptyWrite
  <2> HIDE DEF after
  <2> QED
    BY <2>1
<1> HIDE DEF after
<1> QED
  BY <1>1, <1>2, <1>3

(* What a write of bytes leaves (inodes.c:inode_file_write).               *)
LEMMA FullWriteOutcome ==
    ASSUME NEW f, f.size \in Nat, NEW buffer, buffer.size \in Nat \ {0},
           NEW start \in Nat, NEW o \in Write(f, buffer, start)
    PROVE  /\ o.is \in {"ok", "error"}
           /\ o.file.size = f.size
           /\ o.is = "ok" => o.file = Stored(f, buffer, start, buffer.size)
           /\ \A i \in 0 .. f.size - 1 :
                \/ o.file.byte[i] = f.byte[i]
                \/ /\ start <= i /\ i < start + buffer.size
                   /\ o.file.byte[i] = buffer.byte[i - start]
<1>1. PICK n \in 0 .. buffer.size :
         /\ \/ o = Done(Stored(f, buffer, start, n)) /\ n = buffer.size
            \/ o = Fails(Stored(f, buffer, start, n))
  BY DEF Write
<1>2. /\ o.is \in {"ok", "error"}
      /\ o.file = Stored(f, buffer, start, n)
      /\ o.is = "ok" => n = buffer.size
  BY <1>1 DEF Done, Fails
<1>3. \A i \in 0 .. f.size - 1 :
        o.file.byte[i] = IF start <= i /\ i < start + n THEN buffer.byte[i - start]
                                                        ELSE f.byte[i]
  BY <1>2 DEF Stored
<1>4. o.file.size = f.size
  BY <1>2 DEF Stored
<1>5. ASSUME NEW i \in 0 .. f.size - 1
      PROVE  \/ o.file.byte[i] = f.byte[i]
             \/ /\ start <= i /\ i < start + buffer.size
                /\ o.file.byte[i] = buffer.byte[i - start]
  BY <1>3
<1> QED
  BY <1>2, <1>4, <1>5

LEMMA WriteIsEmptyWrite ==
    ASSUME NEW f, NEW buffer, buffer.size = 0, NEW start
    PROVE  Write(f, buffer, start) = EmptyWrite(f, start)
BY DEF Write

-----------------------------------------------------------------------------
(* What each outcome of a kernel is.                                       *)

(* w (fs.c:write_file_kernel).                                             *)
LEMMA WriteFileOutcome ==
    ASSUME NEW f, f.size \in Nat, NEW data \in File, NEW o \in WriteFile(f, data)
    PROVE  o.is \in {"ok", "error", "broken"} /\ o.file.size \in Nat
             /\ Replaced(f, data, o)
<1>1. /\ data.size \in Nat /\ data.byte \in [0 .. data.size - 1 -> Byte]
      /\ data = [size |-> data.size, byte |-> data.byte]
  BY FileType
<1> DEFINE K(r) == IF r.is = "ok" THEN Write(r.file, data, 0) ELSE {r}
<1>2. PICK r \in Resize(f, data.size) : o \in K(r)
  <2>1. WriteFile(f, data) = UNION {K(r) : r \in Resize(f, data.size)}
    BY Zenon DEF WriteFile, Then
  <2> HIDE DEF K
  <2> QED
    BY <2>1
<1>3. /\ r.is \in {"ok", "error", "broken"}
      /\ r.is = "broken" => Blocks(data.size) < Blocks(f.size) /\ r.file = Empty
      /\ r.is = "error" => r.file = f
      /\ r.is = "ok" =>
           /\ r.file.size = data.size
           /\ \A i \in 0 .. data.size - 1 : i < f.size => r.file.byte[i] = f.byte[i]
           /\ data.size = 0 => r.file = Empty
  BY <1>1, ResizeOutcome
<1>4. CASE r.is # "ok"
  BY <1>2, <1>3, <1>4 DEF Empty, Replaced
<1>5. CASE r.is = "ok" /\ data.size = 0
  <2>1. o \in EmptyWrite(r.file, 0)
    BY <1>2, <1>5, WriteIsEmptyWrite
  <2>2. r.file.size = 0 /\ Blocks(r.file.size) = 0 /\ ~(0 > NDIRECT)
    BY <1>3, <1>5, EditAssumption DEF Blocks
  <2>3. o.is \in {"ok", "error"} /\ o.file = r.file
    BY <2>1, <2>2, EmptyWriteOutcome
  <2>4. r.file = data
    <3>1. data.byte = [i \in {} |-> 0]
      BY <1>1, <1>5
    <3> QED
      BY <1>1, <1>3, <1>5, <3>1 DEF Empty
  <2> QED
    BY <1>1, <2>3, <2>4 DEF Replaced
<1>6. CASE r.is = "ok" /\ data.size # 0
  <2>1. o \in Write(r.file, data, 0) /\ r.file.size = data.size
    BY <1>2, <1>3, <1>6
  <2>2. /\ o.is \in {"ok", "error"}
        /\ o.file.size = data.size
        /\ o.is = "ok" => o.file = Stored(r.file, data, 0, data.size)
        /\ \A i \in 0 .. data.size - 1 :
             \/ o.file.byte[i] = r.file.byte[i]
             \/ o.file.byte[i] = data.byte[i - 0]
    <3>1. data.size \in Nat \ {0} /\ r.file.size \in Nat /\ 0 \in Nat
      BY <1>1, <1>6, <2>1
    <3> QED
      BY <2>1, <3>1, FullWriteOutcome
  <2>3. Stored(r.file, data, 0, data.size) = data
    <3> DEFINE At(i) == IF 0 <= i /\ i < 0 + data.size THEN data.byte[i - 0]
                                                       ELSE r.file.byte[i]
    <3>1. Stored(r.file, data, 0, data.size) =
            [size |-> data.size, byte |-> [i \in 0 .. data.size - 1 |-> At(i)]]
      BY <2>1 DEF Stored
    <3>2. \A i \in 0 .. data.size - 1 : At(i) = data.byte[i]
      BY <1>1
    <3> HIDE DEF At
    <3>3. [i \in 0 .. data.size - 1 |-> At(i)] = data.byte
      BY <1>1, <3>2
    <3> QED
      BY <1>1, <3>1, <3>3
  <2>4. \A i \in 0 .. data.size - 1 :
             \/ o.file.byte[i] = data.byte[i]
             \/ i < f.size => o.file.byte[i] = f.byte[i]
    BY <1>1, <1>3, <1>6, <2>2
  <2> QED
    BY <1>1, <2>2, <2>3, <2>4 DEF Replaced
<1> QED
  BY <1>3, <1>4, <1>5, <1>6

(* A write of any number of bytes (inodes.c:inode_file_write) keeps the    *)
(* size and the bytes outside of its range, but for one block if it has no *)
(* bytes.                                                                  *)
WriteLeaves(f, buffer, start, o) ==
    /\ o.is \in {"ok", "error", "broken"}
    /\ o.is = "broken" =>
         buffer.size = 0 /\ Blocks(f.size) > NDIRECT /\ o.file = Empty
    /\ o.is # "broken" =>
         /\ o.file.size = f.size
         /\ \E k \in 0 .. Blocks(f.size) : \A i \in 0 .. f.size - 1 :
              \/ buffer.size = 0 /\ i \div BLOCK_SIZE = k
              \/ /\ i < start \/ i >= start + buffer.size
                 /\ o.file.byte[i] = f.byte[i]
              \/ /\ start <= i /\ i < start + buffer.size
                 /\ \/ o.file.byte[i] = buffer.byte[i - start]
                    \/ o.is = "error" /\ o.file.byte[i] = f.byte[i]

LEMMA WriteOutcome ==
    ASSUME NEW f, f.size \in Nat, NEW buffer, buffer.size \in Nat,
           NEW start \in Nat, NEW o \in Write(f, buffer, start)
    PROVE  WriteLeaves(f, buffer, start, o)
<1>1. CASE buffer.size = 0
  <2>1. o \in EmptyWrite(f, start)
    BY <1>1, WriteIsEmptyWrite
  <2>2. /\ o.is \in {"ok", "error", "broken"}
        /\ o.is = "broken" => Blocks(f.size) > NDIRECT /\ o.file = Empty
        /\ o.is # "broken" => OneBlockOff(f, o.file)
    BY <2>1, EmptyWriteOutcome
  <2> QED
    BY <1>1, <2>2 DEF OneBlockOff, WriteLeaves
<1>2. CASE buffer.size # 0
  <2>1. /\ o.is \in {"ok", "error"}
        /\ o.file.size = f.size
        /\ o.is = "ok" => o.file = Stored(f, buffer, start, buffer.size)
        /\ \A i \in 0 .. f.size - 1 :
             \/ o.file.byte[i] = f.byte[i]
             \/ /\ start <= i /\ i < start + buffer.size
                /\ o.file.byte[i] = buffer.byte[i - start]
    BY <1>2, FullWriteOutcome
  <2>2. o.is = "ok" => \A i \in 0 .. f.size - 1 :
          o.file.byte[i] = IF start <= i /\ i < start + buffer.size
                           THEN buffer.byte[i - start] ELSE f.byte[i]
    BY <2>1 DEF Stored
  <2>3. 0 \in 0 .. Blocks(f.size)
    BY BlocksIsNat
  <2>4. \A i \in 0 .. f.size - 1 :
          \/ /\ i < start \/ i >= start + buffer.size
             /\ o.file.byte[i] = f.byte[i]
          \/ /\ start <= i /\ i < start + buffer.size
             /\ \/ o.file.byte[i] = buffer.byte[i - start]
                \/ o.is = "error" /\ o.file.byte[i] = f.byte[i]
    BY <2>1, <2>2
  <2> QED
    BY <1>2, <2>1, <2>3, <2>4 DEF WriteLeaves
<1> QED
  BY <1>1, <1>2

(* i (fs.c:insert_file_kernel): the rest of the file is read before the    *)
(* data take its place.                                                    *)
LEMMA InsertDataOutcome ==
    ASSUME NEW f, f.size \in Nat, NEW data, data.size \in Nat,
           NEW position \in Nat, NEW o \in InsertData(f, position, data)
    PROVE  o.is \in {"ok", "error", "broken"} /\ o.file.size \in Nat
             /\ Spliced(f, position, data, o)
<1> DEFINE pos == Least(position, f.size)
           size == f.size + data.size
           Rest(g) == Read(g, pos, f.size - pos)
           K(r) == IF r.is = "ok" THEN Shift(r.file, pos, data, Rest(r.file)) ELSE {r}
<1>1. /\ f.size \in Nat /\ data.size \in Nat
      /\ pos \in Nat /\ pos <= f.size /\ size \in Nat /\ f.size <= size
  BY DEF Least
<1>2. PICK r \in Resize(f, size) : o \in K(r)
  <2>1. InsertData(f, position, data) = UNION {K(r) : r \in Resize(f, size)}
    BY Zenon DEF InsertData, Then
  <2> HIDE DEF K, size
  <2> QED
    BY <2>1
<1>3. /\ r.is \in {"ok", "error"}
      /\ r.is = "error" => r.file = f
      /\ r.is = "ok" => /\ r.file.size = size
                        /\ \A i \in 0 .. f.size - 1 : r.file.byte[i] = f.byte[i]
  <2>1. ~(Blocks(size) < Blocks(f.size))
    <3>1. Blocks(f.size) <= Blocks(size) /\ Blocks(f.size) \in Nat /\ Blocks(size) \in Nat
      BY <1>1, BlocksGrow, BlocksIsNat
    <3> QED
      BY <3>1
  <2>2. /\ r.is \in {"ok", "error", "broken"}
        /\ r.is = "broken" => Blocks(size) < Blocks(f.size)
        /\ r.is = "error" => r.file = f
        /\ r.is = "ok" =>
             /\ r.file.size = size
             /\ \A i \in 0 .. size - 1 : i < f.size => r.file.byte[i] = f.byte[i]
    BY <1>1, ResizeOutcome
  <2> QED
    BY <1>1, <2>1, <2>2
<1> HIDE DEF size, pos
<1>4. 0 \in 0 .. Blocks(size) /\ Blocks(size) \in Nat
  BY <1>1, BlocksIsNat
<1>5. ASSUME o.is = "error", o.file.size \in {f.size, size},
             \E k, l \in 0 .. Blocks(size) : \A i \in 0 .. pos - 1 :
                \/ o.file.byte[i] = f.byte[i]
                \/ data.size = 0 /\ i \div BLOCK_SIZE = k
                \/ pos = f.size /\ i \div BLOCK_SIZE = l
      PROVE  Spliced(f, position, data, o) /\ o.file.size \in Nat
  BY <1>1, <1>5 DEF Spliced, pos, size
<1>6. CASE r.is = "error"
  BY <1>2, <1>3, <1>4, <1>5, <1>6
<1>7. CASE r.is = "ok"
  <2> DEFINE g == r.file
             rest == Rest(g)
             L(w) == IF w.is = "ok" THEN Write(w.file, rest, pos + data.size) ELSE {w}
  <2>1. /\ g.size = size
        /\ \A i \in 0 .. f.size - 1 : g.byte[i] = f.byte[i]
    BY <1>3, <1>7
  <2>2. /\ rest.size = f.size - pos
        /\ \A i \in 0 .. f.size - pos - 1 : rest.byte[i] = f.byte[pos + i]
    <3>1. \A i \in 0 .. f.size - pos - 1 : rest.byte[i] = g.byte[pos + i]
      BY DEF Read
    <3>2. rest.size = f.size - pos
      BY DEF Read
    <3> QED
      BY <1>1, <2>1, <3>1, <3>2
  <2>3. \/ o = Fails(g)
        \/ \E w \in Write(g, data, pos) : o \in L(w)
    <3>1. Shift(g, pos, data, rest) = {Fails(g)} \cup UNION {L(w) : w \in Write(g, data, pos)}
      BY Zenon DEF Shift, Then
    <3>2. o \in Shift(g, pos, data, rest)
      BY <1>2, <1>7
    <3> HIDE DEF L, rest, g
    <3> QED
      BY <3>1, <3>2
  <2> HIDE DEF g, rest
  <2>4. CASE o = Fails(g)
    <3>1. o.is = "error" /\ o.file = g
      BY <2>4 DEF Fails
    <3>2. \A i \in 0 .. pos - 1 : o.file.byte[i] = f.byte[i]
      BY <1>1, <2>1, <3>1
    <3> QED
      BY <1>4, <1>5, <2>1, <3>1, <3>2
  <2>5. ASSUME NEW w \in Write(g, data, pos), o \in L(w)
        PROVE  o.is \in {"ok", "error", "broken"} /\ o.file.size \in Nat
                 /\ Spliced(f, position, data, o)
    <3>1. /\ w.is \in {"ok", "error", "broken"}
          /\ w.is = "broken" => data.size = 0 /\ Blocks(size) > NDIRECT /\ w.file = Empty
          /\ w.is # "broken" =>
               /\ w.file.size = size
               /\ \E k \in 0 .. Blocks(size) : \A i \in 0 .. size - 1 :
                    \/ data.size = 0 /\ i \div BLOCK_SIZE = k
                    \/ /\ i < pos \/ i >= pos + data.size
                       /\ w.file.byte[i] = g.byte[i]
                    \/ /\ pos <= i /\ i < pos + data.size
                       /\ \/ w.file.byte[i] = data.byte[i - pos]
                          \/ w.is = "error" /\ w.file.byte[i] = g.byte[i]
      <4>1. g.size \in Nat
        BY <1>1, <2>1
      <4> HIDE DEF L
      <4>2. WriteLeaves(g, data, pos, w)
        BY <1>1, <4>1, WriteOutcome
      <4> QED
        BY <2>1, <4>2 DEF WriteLeaves
    <3>2. CASE w.is = "broken"
      <4>1. o = w
        BY <2>5, <3>2
      <4> QED
        BY <1>1, <3>1, <3>2, <4>1 DEF Spliced, Empty, size
    <3>3. CASE w.is = "error"
      <4>1. o = w /\ w.file.size = size
        BY <2>5, <3>1, <3>3
      <4>2. PICK k \in 0 .. Blocks(size) : \A i \in 0 .. pos - 1 :
              (data.size = 0 /\ i \div BLOCK_SIZE = k) \/ w.file.byte[i] = f.byte[i]
        BY <1>1, <2>1, <3>1, <3>3 DEF size
      <4> QED
        BY <1>4, <1>5, <3>3, <4>1, <4>2
    <3>4. CASE w.is = "ok"
      <4>1. PICK k \in 0 .. Blocks(size) : \A i \in 0 .. size - 1 :
               \/ data.size = 0 /\ i \div BLOCK_SIZE = k
               \/ /\ i < pos \/ i >= pos + data.size
                  /\ w.file.byte[i] = g.byte[i]
               \/ /\ pos <= i /\ i < pos + data.size
                  /\ w.file.byte[i] = data.byte[i - pos]
        BY <3>1, <3>4
      <4>2. w.file.size = size /\ o \in Write(w.file, rest, pos + data.size)
        BY <2>5, <3>1, <3>4
      <4>3. /\ o.is \in {"ok", "error", "broken"}
            /\ o.is = "broken" =>
                 rest.size = 0 /\ Blocks(size) > NDIRECT /\ o.file = Empty
            /\ o.is # "broken" =>
                 /\ o.file.size = size
                 /\ \E l \in 0 .. Blocks(size) : \A i \in 0 .. size - 1 :
                      \/ rest.size = 0 /\ i \div BLOCK_SIZE = l
                      \/ /\ i < pos + data.size \/ i >= pos + data.size + rest.size
                         /\ o.file.byte[i] = w.file.byte[i]
                      \/ /\ pos + data.size <= i /\ i < pos + data.size + rest.size
                         /\ \/ o.file.byte[i] = rest.byte[i - (pos + data.size)]
                            \/ o.is = "error" /\ o.file.byte[i] = w.file.byte[i]
        <5>1. w.file.size \in Nat /\ rest.size \in Nat /\ pos + data.size \in Nat
          BY <1>1, <2>2, <4>2
        <5>2. WriteLeaves(w.file, rest, pos + data.size, o)
          BY <4>2, <5>1, WriteOutcome
        <5> QED
          BY <4>2, <5>2 DEF WriteLeaves
      <4>4. CASE o.is = "broken"
        <5>1. pos = f.size /\ o.file.size = 0
          BY <1>1, <2>2, <4>3, <4>4 DEF Empty
        <5> QED
          BY <4>3, <4>4, <5>1 DEF Spliced, pos, size
      <4>5. CASE o.is # "broken"
        <5>1. PICK l \in 0 .. Blocks(size) : \A i \in 0 .. size - 1 :
                \/ rest.size = 0 /\ i \div BLOCK_SIZE = l
                \/ /\ i < pos + data.size \/ i >= pos + data.size + rest.size
                   /\ o.file.byte[i] = w.file.byte[i]
                \/ /\ pos + data.size <= i /\ i < pos + data.size + rest.size
                   /\ \/ o.file.byte[i] = rest.byte[i - (pos + data.size)]
                      \/ o.is = "error" /\ o.file.byte[i] = w.file.byte[i]
          BY <4>3, <4>5
        <5>2. rest.size = 0 => pos = f.size
          BY <1>1, <2>2
        <5>3. ASSUME NEW i \in 0 .. size - 1, i < pos
              PROVE  \/ o.file.byte[i] = f.byte[i]
                     \/ data.size = 0 /\ i \div BLOCK_SIZE = k
                     \/ pos = f.size /\ i \div BLOCK_SIZE = l
          <6>1. \/ pos = f.size /\ i \div BLOCK_SIZE = l
                \/ o.file.byte[i] = w.file.byte[i]
            BY <1>1, <5>1, <5>2, <5>3
          <6>2. \/ data.size = 0 /\ i \div BLOCK_SIZE = k
                \/ w.file.byte[i] = g.byte[i]
            BY <1>1, <4>1, <5>3
          <6>3. g.byte[i] = f.byte[i]
            BY <1>1, <2>1, <5>3
          <6> QED
            BY <6>1, <6>2, <6>3
        <5>4. ASSUME NEW i \in 0 .. size - 1, pos <= i, i < pos + data.size
              PROVE  \/ o.file.byte[i] = data.byte[i - pos]
                     \/ pos = f.size /\ i \div BLOCK_SIZE = l
          <6>1. \/ pos = f.size /\ i \div BLOCK_SIZE = l
                \/ o.file.byte[i] = w.file.byte[i]
            BY <1>1, <5>1, <5>2, <5>4
          <6>2. w.file.byte[i] = data.byte[i - pos]
            BY <1>1, <4>1, <5>4
          <6> QED
            BY <6>1, <6>2
        <5>5. ASSUME NEW i \in 0 .. size - 1, pos + data.size <= i, o.is = "ok"
              PROVE  o.file.byte[i] = f.byte[i - data.size]
          <6> DEFINE j == i - (pos + data.size)
          <6>1. /\ j \in 0 .. f.size - pos - 1 /\ rest.size # 0
                /\ pos + data.size <= i /\ i < pos + data.size + rest.size
            BY <1>1, <2>2, <5>5 DEF size
          <6>2. o.file.byte[i] = rest.byte[j]
            <7>1. ~(i < pos + data.size) /\ ~(i >= pos + data.size + rest.size)
              BY <1>1, <2>2, <6>1
            <7> HIDE DEF j
            <7>2. o.file.byte[i] = rest.byte[i - (pos + data.size)]
              BY <5>1, <5>5, <6>1, <7>1
            <7> QED
              BY <7>2 DEF j
          <6>3. rest.byte[j] = f.byte[pos + j]
            BY <2>2, <6>1
          <6>4. pos + j = i - data.size
            BY <1>1
          <6> QED
            BY <6>2, <6>3, <6>4
        <5>6. CASE o.is = "error"
          <6>1. \A i \in 0 .. pos - 1 : i \in 0 .. size - 1 /\ i < pos
            BY <1>1
          <6> QED
            BY <1>5, <4>3, <5>3, <5>6, <6>1
        <5>7. CASE o.is = "ok"
          <6> DEFINE Expected(i) ==
                       CASE i < pos -> f.byte[i]
                         [] pos <= i /\ i < pos + data.size -> data.byte[i - pos]
                         [] OTHER -> f.byte[i - data.size]
          <6>1. ASSUME NEW i \in 0 .. size - 1
                PROVE  \/ o.file.byte[i] = Expected(i)
                       \/ data.size = 0 /\ i \div BLOCK_SIZE = k
                       \/ pos = f.size /\ i \div BLOCK_SIZE = l
            <7>1. CASE i < pos
              BY <1>1, <5>3, <7>1
            <7>2. CASE pos <= i /\ i < pos + data.size
              BY <1>1, <5>4, <7>2
            <7>3. CASE pos + data.size <= i
              BY <1>1, <5>5, <5>7, <7>3
            <7> QED
              BY <1>1, <7>1, <7>2, <7>3
          <6> HIDE DEF Expected
          <6>2. o.file.size = size
            BY <4>3, <4>5
          <6>3. \E kk, ll \in 0 .. Blocks(size) : \A i \in 0 .. size - 1 :
                   \/ o.file.byte[i] = Expected(i)
                   \/ data.size = 0 /\ i \div BLOCK_SIZE = kk
                   \/ pos = f.size /\ i \div BLOCK_SIZE = ll
            BY <6>1
          <6> QED
            BY <1>1, <5>7, <6>2, <6>3 DEF Spliced, pos, size, Expected
        <5> QED
          BY <4>3, <4>5, <5>6, <5>7
      <4> QED
        BY <4>4, <4>5
    <3> QED
      BY <3>1, <3>2, <3>3, <3>4
  <2> QED
    BY <2>3, <2>4, <2>5 DEF Fails
<1> QED
  BY <1>3, <1>6, <1>7

(* d (fs.c:delete_in_file_kernel): the rest moves down before the file     *)
(* shrinks.                                                                *)
LEMMA DeleteDataOutcome ==
    ASSUME NEW f, f.size \in Nat, NEW pos \in Nat, NEW len \in Nat,
           NEW o \in DeleteData(f, pos, len)
    PROVE  o.is \in {"ok", "error", "broken"} /\ o.file.size \in Nat
             /\ CutOut(f, pos, len, o)
<1> DEFINE end == Least(pos + len, f.size)
           cut == end - pos
           size == f.size - cut
           rest == Read(f, end, f.size - end)
           K(w) == IF w.is = "ok" THEN Resize(w.file, size) ELSE {w}
           low == Least(pos, f.size)
           Kept(i, k, byte) == \/ o.file.byte[i] = byte
                               \/ end = f.size /\ i \div BLOCK_SIZE = k
<1>1. /\ f.size \in Nat /\ pos \in Nat /\ end \in Nat /\ end <= f.size
      /\ size \in Nat /\ size = f.size - cut /\ cut = end - pos
      /\ low \in Nat /\ low <= pos /\ low <= f.size /\ low <= size
      /\ pos <= f.size => pos <= end /\ cut \in Nat
      /\ ~(pos <= f.size) => end = f.size
  BY DEF Least
<1>2. /\ rest.size = f.size - end
      /\ \A i \in 0 .. f.size - end - 1 : rest.byte[i] = f.byte[end + i]
  BY DEF Read
<1>3. \/ o = Fails(f)
      \/ \E w \in Write(f, rest, pos) : o \in K(w)
  <2>1. DeleteData(f, pos, len) = {Fails(f)} \cup UNION {K(w) : w \in Write(f, rest, pos)}
    BY Zenon DEF DeleteData, Then
  <2> HIDE DEF K, rest
  <2> QED
    BY <2>1
<1>4. 0 \in 0 .. Blocks(f.size) /\ Blocks(f.size) \in Nat
  BY BlocksIsNat
<1>5. CutOut(f, pos, len, o) <=>
        /\ o.is = "broken" =>
             \/ Blocks(size) < Blocks(f.size)
             \/ end = f.size /\ Blocks(f.size) > NDIRECT
        /\ o.is # "broken" =>
             \E k \in 0 .. Blocks(f.size) :
               /\ \A i \in 0 .. low - 1 : Kept(i, k, f.byte[i])
               /\ o.is = "ok" /\ pos <= f.size =>
                    /\ o.file.size = size
                    /\ \A i \in pos .. size - 1 : Kept(i, k, f.byte[i + cut])
               /\ o.is = "error" => o.file.size = f.size
  BY Zenon DEF CutOut
<1> HIDE DEF rest, end, cut, size, low
<1>6. CASE o = Fails(f)
  <2>1. o.is = "error" /\ o.file = f
    BY <1>6 DEF Fails
  <2> QED
    BY <1>1, <1>4, <1>5, <2>1
<1>7. ASSUME NEW w \in Write(f, rest, pos), o \in K(w)
      PROVE  o.is \in {"ok", "error", "broken"} /\ o.file.size \in Nat
               /\ CutOut(f, pos, len, o)
  <2> HIDE DEF Kept
  <2>1. rest.size \in Nat /\ (rest.size = 0 <=> end = f.size)
    BY <1>1, <1>2
  <2>2. /\ w.is \in {"ok", "error", "broken"}
        /\ w.is = "broken" =>
             rest.size = 0 /\ Blocks(f.size) > NDIRECT /\ w.file = Empty
        /\ w.is # "broken" =>
             /\ w.file.size = f.size
             /\ \E k \in 0 .. Blocks(f.size) : \A i \in 0 .. f.size - 1 :
                  \/ rest.size = 0 /\ i \div BLOCK_SIZE = k
                  \/ /\ i < pos \/ i >= pos + rest.size
                     /\ w.file.byte[i] = f.byte[i]
                  \/ /\ pos <= i /\ i < pos + rest.size
                     /\ \/ w.file.byte[i] = rest.byte[i - pos]
                        \/ w.is = "error" /\ w.file.byte[i] = f.byte[i]
    BY <2>1, WriteOutcome DEF WriteLeaves
  <2>3. CASE w.is = "broken"
    <3>1. o = w
      BY <1>7, <2>3
    <3> QED
      BY <1>1, <1>5, <2>1, <2>2, <2>3, <3>1 DEF Empty
  <2>4. CASE w.is # "broken"
    <3>1. PICK k \in 0 .. Blocks(f.size) : \A i \in 0 .. f.size - 1 :
                  \/ rest.size = 0 /\ i \div BLOCK_SIZE = k
                  \/ /\ i < pos \/ i >= pos + rest.size
                     /\ w.file.byte[i] = f.byte[i]
                  \/ /\ pos <= i /\ i < pos + rest.size
                     /\ \/ w.file.byte[i] = rest.byte[i - pos]
                        \/ w.is = "error" /\ w.file.byte[i] = f.byte[i]
      BY <2>2, <2>4
    <3>2. \A i \in 0 .. low - 1 :
             \/ w.file.byte[i] = f.byte[i]
             \/ end = f.size /\ i \div BLOCK_SIZE = k
      BY <1>1, <2>1, <3>1
    <3>3. ASSUME w.is = "ok", NEW i \in pos .. size - 1, pos <= f.size
          PROVE  \/ w.file.byte[i] = f.byte[i + cut]
                 \/ end = f.size /\ i \div BLOCK_SIZE = k
      <4>1. /\ i \in 0 .. f.size - 1 /\ pos <= i /\ i < pos + rest.size
            /\ i - pos \in 0 .. f.size - end - 1 /\ end + (i - pos) = i + cut
        BY <1>1, <1>2, <3>3
      <4>2. ~(i < pos) /\ ~(i >= pos + rest.size)
        BY <1>1, <2>1, <4>1
      <4>3. \/ rest.size = 0 /\ i \div BLOCK_SIZE = k
            \/ w.file.byte[i] = rest.byte[i - pos]
        BY <3>1, <3>3, <4>1, <4>2
      <4> QED
        BY <1>2, <2>1, <4>1, <4>3
    <3>4. CASE w.is = "error"
      <4>1. o = w /\ w.file.size = f.size
        BY <1>7, <2>2, <2>4, <3>4
      <4> QED
        BY <1>1, <1>5, <3>2, <3>4, <4>1 DEF Kept
    <3>5. CASE w.is = "ok"
      <4>1. o \in Resize(w.file, size) /\ w.file.size = f.size
        BY <1>7, <2>2, <3>5
      <4>2. /\ o.is \in {"ok", "error", "broken"}
            /\ o.is = "broken" => Blocks(size) < Blocks(f.size) /\ o.file = Empty
            /\ o.is = "error" => o.file = w.file
            /\ o.is = "ok" =>
                 /\ o.file.size = size
                 /\ \A i \in 0 .. size - 1 : i < f.size => o.file.byte[i] = w.file.byte[i]
        BY <1>1, <4>1, ResizeOutcome
      <4>3. CASE o.is = "broken"
        BY <1>1, <1>5, <4>2, <4>3 DEF Empty
      <4>4. CASE o.is = "error"
        BY <1>1, <1>5, <3>2, <4>1, <4>2, <4>4 DEF Kept
      <4>5. CASE o.is = "ok"
        <5>1. \A i \in 0 .. low - 1 : o.file.byte[i] = w.file.byte[i]
          BY <1>1, <4>2, <4>5
        <5>2. pos <= f.size => \A i \in pos .. size - 1 : o.file.byte[i] = w.file.byte[i]
          BY <1>1, <4>2, <4>5
        <5>3. \A i \in 0 .. low - 1 : Kept(i, k, f.byte[i])
          BY <3>2, <5>1 DEF Kept
        <5>4. pos <= f.size => \A i \in pos .. size - 1 : Kept(i, k, f.byte[i + cut])
          BY <3>3, <3>5, <5>2 DEF Kept
        <5> QED
          BY <1>1, <1>5, <4>2, <4>5, <5>3, <5>4
      <4> QED
        BY <4>2, <4>3, <4>4, <4>5
    <3> QED
      BY <1>7, <2>2, <2>4, <3>4, <3>5
  <2> QED
    BY <2>3, <2>4
<1> QED
  BY <1>3, <1>6, <1>7 DEF Fails

-----------------------------------------------------------------------------
(* What is known of a file and of the call that is under way.              *)
Sizes == file.size \in Nat /\ edit \in Edit \cup {Idle}

(* What each call carries.                                                 *)
LEMMA CallType ==
    ASSUME edit \in Edit \cup {Idle}
    PROVE  /\ edit.op = "w" => edit.data \in File
           /\ edit.op = "i" => edit.pos \in Nat /\ edit.data \in File
           /\ edit.op = "d" => edit.pos \in Nat /\ edit.len \in Nat
BY DEF Edit, Idle

(* One step of the file (fs.c, the three kernels) does what it should.     *)
Exact ==
    /\ edit.op = "w" => Replaced(file, edit.data, Outcome')
    /\ edit.op = "i" => Spliced(file, edit.pos, edit.data, Outcome')
    /\ edit.op = "d" => CutOut(file, edit.pos, edit.len, Outcome')

(* What a kernel's promise says of an outcome depends on its two fields.   *)
LEMMA SameOutcome ==
    ASSUME NEW o, NEW p, o.file = p.file, o.is = p.is
    PROVE  /\ \A f, data : Replaced(f, data, o) => Replaced(f, data, p)
           /\ \A f, pos, data : Spliced(f, pos, data, o) => Spliced(f, pos, data, p)
           /\ \A f, pos, len : CutOut(f, pos, len, o) => CutOut(f, pos, len, p)
<1>1. \A f, data : Replaced(f, data, o) => Replaced(f, data, p)
  BY Zenon DEF Replaced
<1>2. \A f, pos, data : Spliced(f, pos, data, o) => Spliced(f, pos, data, p)
  BY DEF Spliced
<1>3. \A f, pos, len : CutOut(f, pos, len, o) => CutOut(f, pos, len, p)
  BY DEF CutOut
<1> QED
  BY <1>1, <1>2, <1>3

(* The outcome that a kernel returns is the one that stays.                *)
LEMMA Returned ==
    ASSUME NEW outcomes, Return(outcomes)
    PROVE  /\ edit' = Idle
           /\ \E o \in outcomes : /\ file' = o.file
                                  /\ o.file = (Outcome').file /\ o.is = (Outcome').is
BY DEF Return, Outcome

(* Each kernel is exact and leaves a file with a size (fs.c:443, 555, 633). *)
LEMMA StepsExact ==
    ASSUME Sizes, FileNext
    PROVE  Exact /\ Sizes'
<1>1. /\ edit.op = "w" => edit.data \in File
      /\ edit.op = "i" => edit.pos \in Nat /\ edit.data \in File
      /\ edit.op = "d" => edit.pos \in Nat /\ edit.len \in Nat
      /\ file.size \in Nat
  BY CallType DEF Sizes
<1>2. CASE write_file_kernel
  <2>1. edit.op = "w" /\ edit' = Idle
    BY <1>2, Returned DEF write_file_kernel
  <2>2. PICK o \in WriteFile(file, edit.data) :
          file' = o.file /\ o.file = (Outcome').file /\ o.is = (Outcome').is
    BY <1>2, Returned DEF write_file_kernel
  <2>3. o.file.size \in Nat /\ Replaced(file, edit.data, o)
    BY <1>1, <2>1, WriteFileOutcome
  <2>4. Replaced(file, edit.data, Outcome')
    BY <2>2, <2>3, SameOutcome
  <2> QED
    BY <2>1, <2>2, <2>3, <2>4 DEF Exact, Sizes
<1>3. CASE insert_file_kernel
  <2>1. edit.op = "i" /\ edit' = Idle
    BY <1>3, Returned DEF insert_file_kernel
  <2>2. PICK o \in InsertData(file, edit.pos, edit.data) :
          file' = o.file /\ o.file = (Outcome').file /\ o.is = (Outcome').is
    BY <1>3, Returned DEF insert_file_kernel
  <2>3. o.file.size \in Nat /\ Spliced(file, edit.pos, edit.data, o)
    BY <1>1, <2>1, FileType, InsertDataOutcome
  <2>4. Spliced(file, edit.pos, edit.data, Outcome')
    BY <2>2, <2>3, SameOutcome
  <2> QED
    BY <2>1, <2>2, <2>3, <2>4 DEF Exact, Sizes
<1>4. CASE delete_in_file_kernel
  <2>1. edit.op = "d" /\ edit' = Idle
    BY <1>4, Returned DEF delete_in_file_kernel
  <2>2. PICK o \in DeleteData(file, edit.pos, edit.len) :
          file' = o.file /\ o.file = (Outcome').file /\ o.is = (Outcome').is
    BY <1>4, Returned DEF delete_in_file_kernel
  <2>3. o.file.size \in Nat /\ CutOut(file, edit.pos, edit.len, o)
    BY <1>1, <2>1, DeleteDataOutcome
  <2>4. CutOut(file, edit.pos, edit.len, Outcome')
    BY <2>2, <2>3, SameOutcome
  <2> QED
    BY <2>1, <2>2, <2>3, <2>4 DEF Exact, Sizes
<1>5. CASE \E e \in Edit : CallKernel(e)
  <2>1. edit.op = "none" /\ edit' \in Edit /\ file' = file
    BY <1>5 DEF CallKernel, Idle
  <2> QED
    BY <1>1, <2>1 DEF Exact, Sizes
<1> QED
  BY <1>2, <1>3, <1>4, <1>5 DEF FileNext, Kernel

(* Sizes hold in every state of the file.                                  *)
LEMMA SizesKept == FileSpec => []Sizes
<1>1. FileInit => Sizes
  BY DEF FileInit, Sizes, Empty
<1>2. Sizes /\ [FileNext]_fileVars => Sizes'
  <2>1. Sizes /\ UNCHANGED fileVars => Sizes'
    BY DEF Sizes, fileVars
  <2> QED
    BY <2>1, StepsExact
<1> QED
  BY <1>1, <1>2, PTL DEF FileSpec

(* w that succeeds leaves exactly the data, and w that fails leaves no     *)
(* byte of anything else (fs.c:write_file_kernel), for every size below    *)
(* the double indirect region.                                             *)
THEOREM WriteIsExact == FileSpec => WriteReplaces
<1>1. Sizes /\ [FileNext]_fileVars
        => [edit.op = "w" => Replaced(file, edit.data, Outcome')]_fileVars
  BY StepsExact DEF Exact
<1> QED
  BY <1>1, SizesKept, PTL DEF FileSpec, WriteReplaces

(* i splices the data in, whatever fails on the way and whatever block a   *)
(* write of no bytes hits (fs.c:insert_file_kernel).                       *)
THEOREM InsertIsExact == FileSpec => InsertSplices
<1>1. Sizes /\ [FileNext]_fileVars
        => [edit.op = "i" => Spliced(file, edit.pos, edit.data, Outcome')]_fileVars
  BY StepsExact DEF Exact
<1> QED
  BY <1>1, SizesKept, PTL DEF FileSpec, InsertSplices

(* d takes out the bytes asked for, with the same exceptions, when the sum *)
(* of its numbers is an int (fs.c:delete_in_file_kernel).                  *)
THEOREM DeleteIsExact == FileSpec => DeleteCuts
<1>1. Sizes /\ [FileNext]_fileVars
        => [edit.op = "d" => CutOut(file, edit.pos, edit.len, Outcome')]_fileVars
  BY StepsExact DEF Exact
<1> QED
  BY <1>1, SizesKept, PTL DEF FileSpec, DeleteCuts
=============================================================================
