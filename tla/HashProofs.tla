----------------------------- MODULE HashProofs -----------------------------
(***************************************************************************)
(* Proofs about the digests: for messages of every length, cut into update *)
(* calls in every way.                                                     *)
(***************************************************************************)
EXTENDS RjHashes, RjChallenge, FiniteSetTheorems, TLAPS

Block == [0..63 -> Int]

-----------------------------------------------------------------------------
(* Arithmetic of blocks: byte i of block b is at Place(b, i). *)
Place(b, i) == 64 * (b - 1) + i + 1

LEMMA DivMod ==
  ASSUME NEW n \in Nat
  PROVE  \E q \in Nat, r \in 0..63 : n = 64 * q + r
<1>1. n \div 64 \in Nat /\ n % 64 \in 0..63 /\ n = 64 * (n \div 64) + (n % 64)
  OBVIOUS
<1>2. QED
  BY <1>1

LEMMA DivUnique ==
  ASSUME NEW q \in Nat, NEW r \in 0..63, NEW n, n = 64 * q + r
  PROVE  n \div 64 = q /\ n % 64 = r
OBVIOUS

LEMMA PlaceIs ==
  ASSUME NEW k \in Nat, NEW b \in 1..k, NEW i \in 0..63
  PROVE  /\ Place(b, i) \in 1..(64 * k)
         /\ \A q \in Nat : Place(q + b, i) = 64 * q + Place(b, i)
BY DEF Place

-----------------------------------------------------------------------------
(* Sequences of bytes. *)
LEMMA Joined ==
  ASSUME NEW u \in Seq(Int), NEW v \in Seq(Int)
  PROVE  /\ u \o v \in Seq(Int) /\ Len(u \o v) = Len(u) + Len(v)
         /\ \A i \in 1..Len(u) : (u \o v)[i] = u[i]
         /\ \A i \in 1..Len(v) : (u \o v)[Len(u) + i] = v[i]
OBVIOUS

LEMMA Cut ==
  ASSUME NEW u \in Seq(Int), NEW n \in 0..Len(u)
  PROVE  /\ Drop(u, n) \in Seq(Int) /\ Len(Drop(u, n)) = Len(u) - n
         /\ \A i \in 1..(Len(u) - n) : Drop(u, n)[i] = u[n + i]
         /\ SubSeq(u, 1, n) \in Seq(Int) /\ Len(SubSeq(u, 1, n)) = n
         /\ \A i \in 1..n : SubSeq(u, 1, n)[i] = u[i]
BY DEF Drop

LEMMA SameSeq ==
  ASSUME NEW u \in Seq(Int), NEW v \in Seq(Int), Len(u) = Len(v),
         \A i \in 1..Len(u) : u[i] = v[i]
  PROVE  u = v
OBVIOUS

LEMMA SameBlock ==
  ASSUME NEW x \in Block, NEW y \in Block, \A i \in 0..63 : x[i] = y[i]
  PROVE  x = y
BY DEF Block

LEMMA SameRun ==
  ASSUME NEW x \in Seq(Block), NEW y \in Seq(Block), Len(x) = Len(y),
         \A b \in 1..Len(x) : x[b] = y[b]
  PROVE  x = y
OBVIOUS

LEMMA InRun ==
  ASSUME NEW x \in Seq(Block)
  PROVE  Len(x) \in Nat /\ \A b \in 1..Len(x) : x[b] \in Block
OBVIOUS

LEMMA JoinedRuns ==
  ASSUME NEW x \in Seq(Block), NEW y \in Seq(Block)
  PROVE  /\ x \o y \in Seq(Block) /\ Len(x \o y) = Len(x) + Len(y)
         /\ \A b \in 1..Len(x) : (x \o y)[b] = x[b]
         /\ \A b \in 1..Len(y) : (x \o y)[Len(x) + b] = y[b]
OBVIOUS

LEMMA LeftoverIs ==
  ASSUME NEW u \in Seq(Int), NEW k \in Nat, NEW r \in 0..63, Len(u) = 64 * k + r
  PROVE  /\ Leftover(u) \in Seq(Int) /\ Len(Leftover(u)) = r
         /\ \A i \in 1..r : Leftover(u)[i] = u[64 * k + i]
<1>1. PICK n \in 0..Len(u) : n = 64 * k
  OBVIOUS
<1>2. Len(u) \div 64 = k
  BY DivUnique
<1>3. Leftover(u) = Drop(u, n)
  BY <1>1, <1>2 DEF Leftover, Drop
<1>4. Len(u) - n = r
  BY <1>1
<1>5. Drop(u, n) \in Seq(Int) /\ Len(Drop(u, n)) = Len(u) - n
      /\ \A i \in 1..(Len(u) - n) : Drop(u, n)[i] = u[n + i]
  BY Cut
<1>6. QED
  BY <1>1, <1>3, <1>4, <1>5

LEMMA BlocksAre ==
  ASSUME NEW u \in Seq(Int), NEW k \in Nat, NEW r \in 0..63, Len(u) = 64 * k + r
  PROVE  /\ WholeBlocks(u) \in Seq(Block) /\ Len(WholeBlocks(u)) = k
         /\ \A b \in 1..k : WholeBlocks(u)[b] \in Block
         /\ \A b \in 1..k : \A i \in 0..63 : WholeBlocks(u)[b][i] = u[Place(b, i)]
<1> DEFINE At(b) == [i \in 0..63 |-> u[Place(b, i)]]
<1>1. \A j \in 1..Len(u) : u[j] \in Int
  OBVIOUS
<1>2. ASSUME NEW b \in 1..k PROVE At(b) \in Block
  <2>1. ASSUME NEW i \in 0..63 PROVE u[Place(b, i)] \in Int
    <3>1. Place(b, i) \in 1..(64 * k)
      BY PlaceIs
    <3>2. Place(b, i) \in 1..Len(u)
      BY <3>1
    <3>3. QED
      BY <1>1, <3>2
  <2>2. QED
    BY <2>1 DEF Block
<1>3. Len(u) \div 64 = k
  BY DivUnique
<1>4. WholeBlocks(u) = [b \in 1..k |-> At(b)]
  BY <1>3 DEF WholeBlocks, Place
<1>5. ASSUME NEW b \in 1..k PROVE WholeBlocks(u)[b] = At(b)
  BY <1>4
<1>6. WholeBlocks(u) \in Seq(Block) /\ Len(WholeBlocks(u)) = k
  <2> HIDE DEF At
  <2> QED
    BY <1>2, <1>4
<1>7. ASSUME NEW b \in 1..k, NEW i \in 0..63 PROVE WholeBlocks(u)[b][i] = u[Place(b, i)]
  <2>1. At(b)[i] = u[Place(b, i)]
    OBVIOUS
  <2>2. QED
    BY <1>5, <2>1
<1>8. QED
  BY <1>2, <1>5, <1>6, <1>7

LEMMA SameBlocks ==
  ASSUME NEW u \in Seq(Int), NEW k \in Nat, NEW r \in 0..63, Len(u) = 64 * k + r,
         NEW run \in Seq(Block), Len(run) = k,
         \A b \in 1..k : \A i \in 0..63 : run[b][i] = u[Place(b, i)]
  PROVE  run = WholeBlocks(u)
<1>1. /\ WholeBlocks(u) \in Seq(Block) /\ Len(WholeBlocks(u)) = k
      /\ \A b \in 1..k : WholeBlocks(u)[b] \in Block
      /\ \A b \in 1..k : \A i \in 0..63 : WholeBlocks(u)[b][i] = u[Place(b, i)]
  BY BlocksAre
<1>2. ASSUME NEW b \in 1..k PROVE run[b] = WholeBlocks(u)[b]
  <2>1. run[b] \in Block
    BY InRun
  <2>2. \A i \in 0..63 : run[b][i] = WholeBlocks(u)[b][i]
    BY <1>1
  <2>3. QED
    BY <1>1, <2>1, <2>2, SameBlock
<1>3. QED
  BY <1>1, <1>2, SameRun

(* w is q blocks of u, and v behind them. *)
Behind(w, u, q, v) ==
    /\ Len(u) \div 64 = q
    /\ Len(w) = 64 * q + Len(v)
    /\ \A j \in 1..(64 * q) : w[j] = u[j]
    /\ \A j \in 1..Len(v) : w[64 * q + j] = v[j]

LEMMA BlocksApart ==
  ASSUME NEW u \in Seq(Int), NEW v \in Seq(Int), NEW w \in Seq(Int), NEW q \in Nat,
         Behind(w, u, q, v)
  PROVE  /\ WholeBlocks(w) = WholeBlocks(u) \o WholeBlocks(v)
         /\ Leftover(w) = Leftover(v)
<1> DEFINE A == WholeBlocks(u)
           B == WholeBlocks(v)
<1>1. PICK p \in 0..63 : q \in Nat /\ Len(u) = 64 * q + p
  <2>1. PICK n \in Nat, p \in 0..63 : Len(u) = 64 * n + p
    BY DivMod, Len(u) \in Nat
  <2>2. n = q
    BY <2>1, DivUnique DEF Behind
  <2>3. QED
    BY <2>1, <2>2
<1>2. /\ Len(w) = 64 * q + Len(v)
      /\ \A j \in 1..(64 * q) : w[j] = u[j]
      /\ \A j \in 1..Len(v) : w[64 * q + j] = v[j]
  BY DEF Behind
<1>3. PICK k \in Nat, r \in 0..63 : Len(v) = 64 * k + r
  BY DivMod, Len(v) \in Nat
<1>4. q + k \in Nat /\ Len(w) = 64 * (q + k) + r
  BY <1>1, <1>3, <1>2
<1>5. /\ A \in Seq(Block) /\ Len(A) = q
      /\ \A b \in 1..q : \A i \in 0..63 : A[b][i] = u[Place(b, i)]
  BY <1>1, BlocksAre
<1>6. /\ B \in Seq(Block) /\ Len(B) = k
      /\ \A b \in 1..k : \A i \in 0..63 : B[b][i] = v[Place(b, i)]
  BY <1>3, BlocksAre
<1> HIDE DEF A, B
<1>7. /\ A \o B \in Seq(Block) /\ Len(A \o B) = q + k
      /\ \A b \in 1..q : (A \o B)[b] = A[b]
      /\ \A b \in 1..k : (A \o B)[q + b] = B[b]
  BY <1>5, <1>6, JoinedRuns
<1>8. ASSUME NEW b \in 1..q, NEW i \in 0..63 PROVE (A \o B)[b][i] = w[Place(b, i)]
  <2>1. Place(b, i) \in 1..(64 * q)
    BY <1>1, PlaceIs
  <2>2. w[Place(b, i)] = u[Place(b, i)]
    BY <1>2, <2>1
  <2>3. QED
    BY <1>5, <1>7, <2>2
<1>9. ASSUME NEW b \in 1..k, NEW i \in 0..63 PROVE (A \o B)[q + b][i] = w[Place(q + b, i)]
  <2>1. Place(b, i) \in 1..(64 * k) /\ Place(q + b, i) = 64 * q + Place(b, i)
    BY <1>1, PlaceIs, ZenonT(30)
  <2>2. Place(b, i) \in 1..Len(v)
    BY <1>3, <2>1
  <2>3. w[64 * q + Place(b, i)] = v[Place(b, i)]
    <3>1. \A j \in 1..Len(v) : w[64 * q + j] = v[j]
      BY DEF Behind
    <3> QED
      BY <2>2, <3>1
  <2>4. w[Place(q + b, i)] = v[Place(b, i)]
    BY <2>1, <2>3
  <2>5. QED
    BY <1>6, <1>7, <2>4
<1>10. ASSUME NEW b \in 1..(q + k), NEW i \in 0..63 PROVE (A \o B)[b][i] = w[Place(b, i)]
  <2>1. CASE b \in 1..q
    BY <1>8, <2>1
  <2>2. CASE b \notin 1..q
    <3>1. PICK e \in 1..k : b = q + e
      <4>1. b - q \in 1..k /\ b = q + (b - q)
        BY <1>1, <2>2
      <4>2. QED
        BY <4>1
    <3>2. QED
      BY <1>9, <3>1
  <2>3. QED
    BY <2>1, <2>2
<1>11. A \o B = WholeBlocks(w)
  BY <1>4, <1>7, <1>10, SameBlocks
<1>12. Leftover(w) = Leftover(v)
  <2>1. /\ Leftover(w) \in Seq(Int) /\ Len(Leftover(w)) = r
        /\ \A i \in 1..r : Leftover(w)[i] = w[64 * (q + k) + i]
    BY <1>4, LeftoverIs, ZenonT(30)
  <2>2. /\ Leftover(v) \in Seq(Int) /\ Len(Leftover(v)) = r
        /\ \A i \in 1..r : Leftover(v)[i] = v[64 * k + i]
    BY <1>3, LeftoverIs, ZenonT(30)
  <2>3. ASSUME NEW i \in 1..r PROVE Leftover(w)[i] = Leftover(v)[i]
    <3>1. PICK j \in 1..Len(v) : j = 64 * k + i
      BY <1>3
    <3>2. 64 * (q + k) + i = 64 * q + j
      BY <1>1, <3>1
    <3>3. w[64 * q + j] = v[j]
      <4>1. \A e \in 1..Len(v) : w[64 * q + e] = v[e]
        BY DEF Behind
      <4> QED
        BY <4>1
    <3>4. QED
      BY <2>1, <2>2, <3>1, <3>2, <3>3
  <2>4. QED
    BY <2>1, <2>2, <2>3, SameSeq
<1>13. QED
  BY <1>11, <1>12 DEF A, B

(* The bytes behind the last whole block are all that an update has to know of
   what came before.                                                          *)
LEMMA BlocksOfStream ==
  ASSUME NEW u \in Seq(Int), NEW m \in Seq(Int)
  PROVE  /\ WholeBlocks(u \o m) = WholeBlocks(u) \o WholeBlocks(Leftover(u) \o m)
         /\ Leftover(u \o m) = Leftover(Leftover(u) \o m)
<1>1. PICK q \in Nat, p \in 0..63 : Len(u) = 64 * q + p
  BY DivMod, Len(u) \in Nat
<1> DEFINE t == Leftover(u)
<1>2. t \in Seq(Int) /\ Len(t) = p /\ \A i \in 1..p : t[i] = u[64 * q + i]
  BY <1>1, LeftoverIs, ZenonT(30)
<1> HIDE DEF t
<1>3. PICK w \in Seq(Int) :
         /\ w = u \o m /\ Len(w) = Len(u) + Len(m)
         /\ \A i \in 1..Len(u) : w[i] = u[i]
         /\ \A i \in 1..Len(m) : w[Len(u) + i] = m[i]
  BY Joined
<1>4. /\ t \o m \in Seq(Int) /\ Len(t \o m) = Len(t) + Len(m)
      /\ \A i \in 1..Len(t) : (t \o m)[i] = t[i]
      /\ \A i \in 1..Len(m) : (t \o m)[Len(t) + i] = m[i]
  BY <1>2, Joined
<1>5. PICK v \in Seq(Int) :
         /\ v = t \o m /\ Len(v) = p + Len(m)
         /\ \A i \in 1..p : v[i] = t[i]
         /\ \A i \in 1..Len(m) : v[p + i] = m[i]
  <2>1. ASSUME NEW i \in 1..p PROVE (t \o m)[i] = t[i]
    BY <1>2, <1>4
  <2>2. ASSUME NEW i \in 1..Len(m) PROVE (t \o m)[p + i] = m[i]
    BY <1>2, <1>4
  <2>3. Len(t \o m) = p + Len(m) /\ t \o m \in Seq(Int)
    BY <1>2, <1>4
  <2>4. QED
    BY <2>1, <2>2, <2>3
<1>6. Len(w) = 64 * q + Len(v)
  BY <1>1, <1>3, <1>5, Len(m) \in Nat
<1>7. ASSUME NEW j \in 1..(64 * q) PROVE w[j] = u[j]
  <2>1. j \in 1..Len(u)
    BY <1>1
  <2>2. QED
    BY <1>3, <2>1
<1>8. ASSUME NEW j \in 1..Len(v) PROVE w[64 * q + j] = v[j]
  <2>1. CASE j \in 1..p
    <3>1. 64 * q + j \in 1..Len(u)
      BY <1>1, <2>1
    <3>2. w[64 * q + j] = u[64 * q + j]
      BY <1>3, <3>1
    <3>3. QED
      BY <1>2, <1>5, <2>1, <3>2
  <2>2. CASE j \notin 1..p
    <3>1. PICK e \in 1..Len(m) : j = p + e
      <4>1. j - p \in 1..Len(m) /\ j = p + (j - p)
        BY <1>5, <2>2, Len(m) \in Nat
      <4>2. QED
        BY <4>1
    <3>2. 64 * q + j = Len(u) + e
      BY <1>1, <3>1
    <3>3. w[Len(u) + e] = m[e]
      BY <1>3
    <3>4. v[p + e] = m[e]
      BY <1>5
    <3>5. QED
      BY <3>1, <3>2, <3>3, <3>4
  <2>3. QED
    BY <2>1, <2>2
<1>9. WholeBlocks(w) = WholeBlocks(u) \o WholeBlocks(v) /\ Leftover(w) = Leftover(v)
  <2>1. \A j \in 1..(64 * q) : w[j] = u[j]
    BY <1>7
  <2>2. \A j \in 1..Len(v) : w[64 * q + j] = v[j]
    BY <1>8
  <2>3. Len(u) \div 64 = q
    BY <1>1, DivUnique
  <2>4. Behind(w, u, q, v)
    BY <1>6, <2>1, <2>2, <2>3 DEF Behind
  <2>5. QED
    BY <2>4, BlocksApart
<1>10. QED
  BY <1>3, <1>5, <1>9 DEF t

-----------------------------------------------------------------------------
(* m is l bytes; the first n bytes of a buffer are those of t; w is the first
   n bytes of t and the l bytes of m behind them.                            *)
Bytes(m, l) == Len(m) = l /\ \A i \in 1..l : m[i] \in Int
Starts(buf, t, n) == \A i \in 1..n : buf[i - 1] = t[i]
Joins(w, t, n, m, l) == (\A i \in 1..n : w[i] = t[i]) /\ (\A i \in 1..l : w[n + i] = m[i])

(* buf with the l bytes of m from offset at is c. *)
Overlay(c, buf, at, m, l) ==
    /\ \A i \in 0..63 : i < at => c[i] = buf[i]
    /\ \A i \in 1..l : c[at + i - 1] = m[i]

LEMMA CopyIs ==
  ASSUME NEW buf \in Block, NEW at \in 0..63, NEW l \in 0..64, at + l <= 64,
         NEW bytes, Bytes(bytes, l)
  PROVE  Copy(buf, at, bytes) \in Block /\ Overlay(Copy(buf, at, bytes), buf, at, bytes, l)
<1> DEFINE At(i) == IF at <= i /\ i < at + l THEN bytes[i - at + 1] ELSE buf[i]
<1>1. Copy(buf, at, bytes) = [i \in 0..63 |-> At(i)]
  BY DEF Copy, Bytes
<1>2. ASSUME NEW i \in 0..63 PROVE At(i) \in Int
  <2>1. CASE at <= i /\ i < at + l
    <3>1. i - at + 1 \in 1..l
      BY <2>1
    <3>2. QED
      BY <2>1, <3>1 DEF Bytes
  <2>2. CASE ~(at <= i /\ i < at + l)
    BY <2>2 DEF Block
  <2>3. QED
    BY <2>1, <2>2
<1>3. Copy(buf, at, bytes) \in Block
  <2> HIDE DEF At
  <2> QED
    BY <1>1, <1>2 DEF Block
<1>4. ASSUME NEW i \in 0..63, i < at PROVE Copy(buf, at, bytes)[i] = buf[i]
  <2>1. At(i) = buf[i]
    BY <1>4
  <2> HIDE DEF At
  <2>2. QED
    BY <1>1, <2>1
<1>5. ASSUME NEW i \in 1..l PROVE Copy(buf, at, bytes)[at + i - 1] = bytes[i]
  <2>1. PICK j \in 0..63 : j = at + i - 1
    OBVIOUS
  <2>2. at <= j /\ j < at + l /\ j - at + 1 = i
    BY <2>1
  <2>3. At(j) = bytes[i]
    BY <2>2
  <2>4. Copy(buf, at, bytes)[j] = At(j)
    <3> HIDE DEF At
    <3> QED
      BY <1>1
  <2>5. QED
    BY <2>1, <2>3, <2>4
<1>6. QED
  BY <1>3, <1>4, <1>5 DEF Overlay

(* The buffer holds t and m is copied behind it: it holds w, which is both. *)
LEMMA CopyHeld ==
  ASSUME NEW p \in 0..63, NEW l \in 0..64, p + l <= 64,
         NEW buf \in Block, NEW t, NEW m, NEW w,
         Bytes(m, l), Starts(buf, t, p), Joins(w, t, p, m, l)
  PROVE  Copy(buf, p, m) \in Block /\ Starts(Copy(buf, p, m), w, p + l)
<1> DEFINE C == Copy(buf, p, m)
<1>1. C \in Block /\ Overlay(C, buf, p, m, l)
  BY CopyIs
<1> HIDE DEF C
<1>2. ASSUME NEW i \in 1..(p + l) PROVE C[i - 1] = w[i]
  <2>1. CASE i \in 1..p
    <3>1. PICK j \in 0..63 : j = i - 1 /\ j < p
      BY <2>1
    <3>2. C[j] = buf[j]
      BY <1>1, <3>1 DEF Overlay
    <3>3. buf[i - 1] = t[i] /\ w[i] = t[i]
      BY <2>1 DEF Starts, Joins
    <3>4. QED
      BY <3>1, <3>2, <3>3
  <2>2. CASE i \notin 1..p
    <3>1. PICK e \in 1..l : e = i - p
      BY <2>2
    <3>2. i = p + e /\ i - 1 = p + e - 1
      BY <3>1
    <3>3. w[p + e] = m[e] /\ C[p + e - 1] = m[e]
      BY <1>1 DEF Joins, Overlay
    <3>4. QED
      BY <3>2, <3>3
  <2>3. QED
    BY <2>1, <2>2
<1>3. QED
  BY <1>1, <1>2 DEF C, Starts

(* The buffer of a context begins with the bytes t. *)
Holds(buf, t) == buf \in Block /\ Starts(buf, t, Len(t))

LEMMA JoinsIs ==
  ASSUME NEW t \in Seq(Int), NEW m \in Seq(Int), NEW p \in Nat, NEW l \in Nat,
         Len(t) = p, Len(m) = l
  PROVE  t \o m \in Seq(Int) /\ Len(t \o m) = p + l /\ Joins(t \o m, t, p, m, l)
BY Joined DEF Joins

LEMMA BytesIs ==
  ASSUME NEW m \in Seq(Int), NEW l \in Nat, Len(m) = l
  PROVE  Bytes(m, l)
BY DEF Bytes

LEMMA LeftoverHeld ==
  ASSUME NEW buf \in Block, NEW t \in Seq(Int), NEW p \in 0..63, Len(t) = p
  PROVE  Holds(Copy(buf, 0, t), t)
<1>1. Bytes(t, p)
  BY BytesIs
<1>2. Copy(buf, 0, t) \in Block /\ Overlay(Copy(buf, 0, t), buf, 0, t, p)
  <2>1. 0 \in 0..63 /\ p \in 0..64 /\ 0 + p <= 64
    OBVIOUS
  <2>2. QED
    BY <1>1, <2>1, CopyIs
<1>3. Starts(Copy(buf, 0, t), t, p)
  BY <1>2 DEF Starts, Overlay
<1>4. QED
  BY <1>2, <1>3 DEF Holds

LEMMA LeftoverShort ==
  ASSUME NEW w \in Seq(Int), NEW n \in 0..63, Len(w) = n
  PROVE  WholeBlocks(w) = <<>> /\ Leftover(w) = w
<1>1. 0 \in Nat /\ n = 64 * 0 + n
  OBVIOUS
<1>2. Len(WholeBlocks(w)) = 0 /\ WholeBlocks(w) \in Seq(Block)
  BY <1>1, BlocksAre
<1>3. Len(w) \div 64 = 0
  OBVIOUS
<1>4. Leftover(w) = SubSeq(w, 1, n)
  BY <1>3 DEF Leftover
<1>5. Leftover(w) = w
  BY <1>4
<1>6. QED
  BY <1>2, <1>5

(* An update that does not fill the block. *)
LEMMA ShortStream ==
  ASSUME NEW t \in Seq(Int), NEW m \in Seq(Int), NEW p \in 0..63, NEW l \in 0..63,
         Len(t) = p, Len(m) = l, p + l <= 63, NEW buf, Holds(buf, t)
  PROVE  /\ WholeBlocks(t \o m) = <<>> /\ Leftover(t \o m) = t \o m
         /\ Holds(Copy(buf, p, m), t \o m)
<1>1. t \o m \in Seq(Int) /\ Len(t \o m) = p + l /\ Joins(t \o m, t, p, m, l)
  BY JoinsIs
<1>2. p + l \in 0..63 /\ p + l <= 64
  OBVIOUS
<1>3. WholeBlocks(t \o m) = <<>> /\ Leftover(t \o m) = t \o m
  BY <1>1, <1>2, LeftoverShort
<1>4. buf \in Block /\ Starts(buf, t, p) /\ Bytes(m, l)
  BY BytesIs DEF Holds
<1>5. Copy(buf, p, m) \in Block /\ Starts(Copy(buf, p, m), t \o m, p + l)
  <2>1. l \in 0..64
    OBVIOUS
  <2>2. QED
    BY <1>1, <1>2, <1>4, <2>1, CopyHeld
<1>6. QED
  BY <1>1, <1>3, <1>5 DEF Holds

(* An update that fills the block. *)
Filled(buf, p, m) == Copy(buf, p, SubSeq(m, 1, 64 - p))
Rest(p, m) == Drop(m, 64 - p)

LEMMA FullStream ==
  ASSUME NEW t \in Seq(Int), NEW m \in Seq(Int), NEW p \in 0..63, NEW l \in Nat,
         Len(t) = p, Len(m) = l, p + l >= 64, NEW buf, Holds(buf, t)
  PROVE  /\ Filled(buf, p, m) \in Block /\ Rest(p, m) \in Seq(Int)
         /\ WholeBlocks(t \o m) = <<Filled(buf, p, m)>> \o WholeBlocks(Rest(p, m))
         /\ Leftover(t \o m) = Leftover(Rest(p, m))
<1>1. PICK n \in 1..64 : n = 64 - p
  OBVIOUS
<1> DEFINE head == SubSeq(m, 1, n)
           rest == Drop(m, n)
           filled == Copy(buf, p, head)
<1>2. n \in 0..Len(m)
  BY <1>1
<1>3. /\ rest \in Seq(Int) /\ Len(rest) = l - n
      /\ \A i \in 1..(l - n) : rest[i] = m[n + i]
      /\ head \in Seq(Int) /\ Len(head) = n
      /\ \A i \in 1..n : head[i] = m[i]
  BY <1>2, Cut
<1> HIDE DEF head, rest
<1>4. PICK w \in Seq(Int) : w = t \o m /\ Len(w) = p + l /\ Joins(w, t, p, m, l)
  <2>1. t \o m \in Seq(Int) /\ Len(t \o m) = p + l /\ Joins(t \o m, t, p, m, l)
    <3>1. p \in Nat
      OBVIOUS
    <3>2. QED
      BY <3>1, JoinsIs
  <2>2. QED
    BY <2>1
<1>5. Joins(w, t, p, head, n)
  <2>1. \A i \in 1..n : w[p + i] = head[i]
    <3>1. ASSUME NEW i \in 1..n PROVE w[p + i] = head[i]
      <4>1. i \in 1..l
        BY <1>1
      <4>2. w[p + i] = m[i]
        BY <1>4, <4>1 DEF Joins
      <4>3. head[i] = m[i]
        BY <1>3
      <4>4. QED
        BY <4>2, <4>3
    <3>2. QED
      BY <3>1
  <2>2. QED
    BY <1>4, <2>1 DEF Joins
<1>6. filled \in Block /\ Starts(filled, w, 64)
  <2>1. buf \in Block /\ Starts(buf, t, p) /\ Bytes(head, n)
    BY <1>3, BytesIs DEF Holds
  <2>2. p + n <= 64 /\ p + n = 64 /\ n \in 0..64
    BY <1>1
  <2>3. QED
    BY <1>5, <2>1, <2>2, CopyHeld
<1> HIDE DEF filled
<1> DEFINE u == SubSeq(w, 1, 64)
<1>7. u \in Seq(Int) /\ Len(u) = 64 /\ \A i \in 1..64 : u[i] = w[i]
  <2>1. 64 \in 0..Len(w)
    BY <1>4
  <2>2. QED
    BY <2>1, Cut
<1> HIDE DEF u
<1>8. <<filled>> = WholeBlocks(u)
  <2>1. <<filled>> \in Seq(Block) /\ Len(<<filled>>) = 1 /\ <<filled>>[1] = filled
    BY <1>6
  <2>2. ASSUME NEW b \in 1..1, NEW i \in 0..63 PROVE <<filled>>[b][i] = u[Place(b, i)]
    <3>1. b = 1 /\ Place(b, i) = i + 1
      BY DEF Place
    <3>2. PICK j \in 1..64 : j = i + 1
      OBVIOUS
    <3>3. filled[j - 1] = w[j] 
      BY <1>6 DEF Starts
    <3>6. j - 1 = i
      BY <3>2
    <3>4. u[j] = w[j]
      BY <1>7
    <3>5. QED
      BY <2>1, <3>1, <3>2, <3>3, <3>4, <3>6
  <2>3. 1 \in Nat /\ 0 \in 0..63 /\ Len(u) = 64 * 1 + 0
    BY <1>7
  <2>4. QED
    BY <1>7, <2>1, <2>2, <2>3, SameBlocks, ZenonT(30)
<1>9. Behind(w, u, 1, rest)
  <2>1. Len(u) \div 64 = 1
    BY <1>7
  <2>2. Len(w) = 64 * 1 + Len(rest)
    BY <1>1, <1>3, <1>4
  <2>3. ASSUME NEW j \in 1..(64 * 1) PROVE w[j] = u[j]
    <3>1. j \in 1..64
      OBVIOUS
    <3>2. QED
      BY <1>7, <3>1
  <2>4. ASSUME NEW j \in 1..Len(rest) PROVE w[64 * 1 + j] = rest[j]
    <3>1. j \in 1..(l - n)
      BY <1>3
    <3>2. PICK e \in 1..l : e = n + j
      BY <1>1, <3>1
    <3>3. 64 * 1 + j = p + e
      BY <1>1, <3>2
    <3>4. w[p + e] = m[e]
      BY <1>4 DEF Joins
    <3>5. rest[j] = m[e]
      BY <1>3, <3>1, <3>2
    <3>6. QED
      BY <3>3, <3>4, <3>5
  <2>5. QED
    BY <2>1, <2>2, <2>3, <2>4 DEF Behind
<1>10. WholeBlocks(w) = WholeBlocks(u) \o WholeBlocks(rest) /\ Leftover(w) = Leftover(rest)
  <2>1. rest \in Seq(Int) /\ u \in Seq(Int) /\ 1 \in Nat
    BY <1>3, <1>7
  <2>2. QED
    BY <1>9, <2>1, BlocksApart
<1>11. QED
  BY <1>1, <1>3, <1>4, <1>6, <1>8, <1>10 DEF filled, head, rest, Filled, Rest

-----------------------------------------------------------------------------
LEMMA LeftoverSmall ==
  ASSUME NEW u \in Seq(Int)
  PROVE  Leftover(u) \in Seq(Int) /\ Len(Leftover(u)) \in 0..63 /\ Len(Leftover(u)) = Len(u) % 64
<1>1. PICK k \in Nat, r \in 0..63 : Len(u) = 64 * k + r
  BY DivMod, Len(u) \in Nat
<1>2. Leftover(u) \in Seq(Int) /\ Len(Leftover(u)) = r
  BY <1>1, LeftoverIs
<1>3. Len(u) % 64 = r
  BY <1>1, DivUnique
<1>4. QED
  BY <1>2, <1>3

LEMMA LastBlock ==
  ASSUME NEW u \in Seq(Int), Len(u) >= 64
  PROVE  Last(WholeBlocks(u)) \in Block
<1>1. PICK k \in Nat, r \in 0..63 : Len(u) = 64 * k + r
  BY DivMod, Len(u) \in Nat
<1>2. WholeBlocks(u) \in Seq(Block) /\ Len(WholeBlocks(u)) = k
  BY <1>1, BlocksAre
<1>3. k \in 1..k
  BY <1>1
<1>4. QED
  BY <1>2, <1>3, InRun DEF Last

(* The context's buffer holds t, the end of what it was fed with. *)
Buffers(c, t) == t \in Seq(Int) /\ Len(t) \in 0..63 /\ Len(t) = c.length % 64 /\ Holds(c.message, t)

(* MD5Update and ampheck_ripemd128_update compress the blocks that t and the
   message make together, and keep the rest.                                *)
LEMMA FillIs ==
  ASSUME NEW c, NEW t, Buffers(c, t), NEW m \in Seq(Int)
  PROVE  FillBlocks(c, m) = WholeBlocks(t \o m) /\ Holds(FillBuffer(c, m), Leftover(t \o m))
<1>1. t \in Seq(Int) /\ Len(t) \in 0..63 /\ Holds(c.message, t)
  BY DEF Buffers
<1>2. PICK p \in 0..63 : Len(t) = p /\ c.length % 64 = p
  BY DEF Buffers
<1>3. PICK l \in Nat : Len(m) = l
  OBVIOUS
<1>4. CASE l < 64 - p
  <2>1. l \in 0..63 /\ p + l <= 63
    BY <1>4
  <2>2. /\ WholeBlocks(t \o m) = <<>> /\ Leftover(t \o m) = t \o m
        /\ Holds(Copy(c.message, p, m), t \o m)
    BY <1>1, <1>2, <1>3, <2>1, ShortStream
  <2>3. FillBlocks(c, m) = <<>> /\ FillBuffer(c, m) = Copy(c.message, p, m)
    BY <1>2, <1>3, <1>4 DEF FillBlocks, FillBuffer
  <2>4. QED
    BY <2>2, <2>3
<1>5. CASE ~(l < 64 - p)
  <2> DEFINE filled == Filled(c.message, p, m)
             rest == Rest(p, m)
  <2>1. p + l >= 64
    BY <1>5
  <2>2. /\ filled \in Block /\ rest \in Seq(Int)
        /\ WholeBlocks(t \o m) = <<filled>> \o WholeBlocks(rest)
        /\ Leftover(t \o m) = Leftover(rest)
    BY <1>1, <1>2, <1>3, <2>1, FullStream
  <2>3. FillBlocks(c, m) = <<filled>> \o WholeBlocks(rest)
        /\ FillBuffer(c, m) = Copy(filled, 0, Leftover(rest))
    BY <1>2, <1>3, <1>5 DEF FillBlocks, FillBuffer, Filled, Rest
  <2> HIDE DEF filled, rest
  <2>4. Holds(Copy(filled, 0, Leftover(rest)), Leftover(rest))
    BY <2>2, LeftoverSmall, LeftoverHeld
  <2>5. QED
    BY <2>2, <2>3, <2>4
<1>6. QED
  BY <1>4, <1>5

(* So do the updates of the rhash family. *)
LEMMA RhashIs ==
  ASSUME NEW c, NEW t, Buffers(c, t), NEW m \in Seq(Int), NEW aligned \in BOOLEAN
  PROVE  /\ RhashBlocks(c, m) = WholeBlocks(t \o m)
         /\ Holds(RhashBuffer(c, m, aligned), Leftover(t \o m))
<1>1. t \in Seq(Int) /\ Len(t) \in 0..63 /\ Holds(c.message, t)
  BY DEF Buffers
<1>2. PICK p \in 0..63 : Len(t) = p /\ c.length % 64 = p
  BY DEF Buffers
<1>3. PICK l \in Nat : Len(m) = l
  OBVIOUS
<1>4. c.message \in Block
  BY <1>1 DEF Holds
<1>5. CASE p = 0
  <2>1. t \o m = m
    <3>1. t = <<>>
      BY <1>1, <1>2, <1>5
    <3>2. QED
      BY <3>1
  <2> DEFINE used == IF l >= 64 /\ ~aligned THEN Last(WholeBlocks(m)) ELSE c.message
  <2>2. RhashBlocks(c, m) = WholeBlocks(m) /\ RhashBuffer(c, m, aligned) = Copy(used, 0, Leftover(m))
    BY <1>2, <1>3, <1>5 DEF RhashBlocks, RhashBuffer
  <2>3. used \in Block
    BY <1>3, <1>4, LastBlock
  <2> HIDE DEF used
  <2>4. Holds(Copy(used, 0, Leftover(m)), Leftover(m))
    BY <2>3, LeftoverSmall, LeftoverHeld
  <2>5. QED
    BY <2>1, <2>2, <2>4
<1>6. CASE p # 0 /\ l < 64 - p
  <2>1. l \in 0..63 /\ p + l <= 63
    BY <1>6
  <2>2. /\ WholeBlocks(t \o m) = <<>> /\ Leftover(t \o m) = t \o m
        /\ Holds(Copy(c.message, p, m), t \o m)
    BY <1>1, <1>2, <1>3, <2>1, ShortStream
  <2>3. RhashBlocks(c, m) = <<>> /\ RhashBuffer(c, m, aligned) = Copy(c.message, p, m)
    BY <1>2, <1>3, <1>6 DEF RhashBlocks, RhashBuffer
  <2>4. QED
    BY <2>2, <2>3
<1>7. CASE p # 0 /\ ~(l < 64 - p)
  <2> DEFINE filled == Filled(c.message, p, m)
             rest == Rest(p, m)
             used == IF Len(rest) >= 64 /\ ~aligned THEN Last(WholeBlocks(rest)) ELSE filled
  <2>1. p + l >= 64
    BY <1>7
  <2>2. /\ filled \in Block /\ rest \in Seq(Int)
        /\ WholeBlocks(t \o m) = <<filled>> \o WholeBlocks(rest)
        /\ Leftover(t \o m) = Leftover(rest)
    BY <1>1, <1>2, <1>3, <2>1, FullStream
  <2>3. RhashBlocks(c, m) = <<filled>> \o WholeBlocks(rest)
        /\ RhashBuffer(c, m, aligned) = Copy(used, 0, Leftover(rest))
    BY <1>2, <1>3, <1>7 DEF RhashBlocks, RhashBuffer, Filled, Rest
  <2> HIDE DEF filled, rest
  <2>4. used \in Block
    BY <2>2, LastBlock
  <2> HIDE DEF used
  <2>5. Holds(Copy(used, 0, Leftover(rest)), Leftover(rest))
    BY <2>2, <2>4, LeftoverSmall, LeftoverHeld
  <2>6. QED
    BY <2>2, <2>3, <2>5
<1>8. QED
  BY <1>5, <1>6, <1>7

-----------------------------------------------------------------------------
(* The padding.  The buffer x holds t, the mark behind it and zeros up to next. *)
PaddedUpTo(x, t, p, mark, next) ==
    /\ x \in Block /\ Starts(x, t, p) /\ x[p] = mark
    /\ \A i \in 0..63 : p < i /\ i < next => x[i] = 0

(* u is t, the mark, zeros and the length, in n blocks. *)
EndOfMessage(u, t, p, mark, length, n) ==
    /\ Len(u) = 64 * n
    /\ \A j \in 1..p : u[j] = t[j]
    /\ u[p + 1] = mark
    /\ \A j \in 1..(64 * n) : p + 1 < j /\ j <= 64 * n - 8 => u[j] = 0
    /\ \A j \in 1..8 : u[64 * n - 8 + j] = length[j]

LEMMA ZeroIs ==
  ASSUME NEW x \in Block, NEW at \in 0..64, NEW end \in 0..64
  PROVE  /\ ZeroFrom(x, at, end) \in Block
         /\ \A i \in 0..63 : ZeroFrom(x, at, end)[i] = IF at <= i /\ i < end THEN 0 ELSE x[i]
BY DEF ZeroFrom, Block

(* The last block: what is behind next is zero up to the length. *)
LastOf(x, next, length) == Copy(ZeroFrom(x, next, 56), 56, length)

EndsWith(e, x, next, length) ==
    /\ \A i \in 0..63 : i < next => e[i] = x[i]
    /\ \A i \in 0..63 : next <= i /\ i < 56 => e[i] = 0
    /\ \A i \in 1..8 : e[56 + i - 1] = length[i]

LEMMA LastOfIs ==
  ASSUME NEW x \in Block, NEW next \in 0..56, NEW length, Bytes(length, 8)
  PROVE  LastOf(x, next, length) \in Block /\ EndsWith(LastOf(x, next, length), x, next, length)
<1> DEFINE z == ZeroFrom(x, next, 56)
           e == Copy(z, 56, length)
<1>1. next \in 0..64 /\ 56 \in 0..64 /\ 56 \in 0..63 /\ 8 \in 0..64 /\ 56 + 8 <= 64
  OBVIOUS
<1>2. z \in Block /\ \A i \in 0..63 : z[i] = IF next <= i /\ i < 56 THEN 0 ELSE x[i]
  BY <1>1, ZeroIs
<1> HIDE DEF z
<1>3. e \in Block /\ Overlay(e, z, 56, length, 8)
  BY <1>1, <1>2, CopyIs
<1> HIDE DEF e
<1>4. ASSUME NEW i \in 0..63, i < 56 PROVE e[i] = z[i]
  BY <1>3, <1>4 DEF Overlay
<1>5. ASSUME NEW i \in 1..8 PROVE e[56 + i - 1] = length[i]
  BY <1>3 DEF Overlay
<1>6. ASSUME NEW i \in 0..63, i < next PROVE e[i] = x[i]
  BY <1>2, <1>4, <1>6
<1>7. ASSUME NEW i \in 0..63, next <= i, i < 56 PROVE e[i] = 0
  BY <1>2, <1>4, <1>7
<1>8. LastOf(x, next, length) = e
  BY DEF LastOf, e, z
<1>9. QED
  BY <1>3, <1>5, <1>6, <1>7, <1>8 DEF EndsWith

(* There is room for the length. *)
LEMMA OneBlock ==
  ASSUME NEW u \in Seq(Int), NEW t, NEW p \in 0..63, NEW mark, NEW length,
         EndOfMessage(u, t, p, mark, length, 1), Bytes(length, 8),
         NEW x, NEW next \in (p + 1)..56, PaddedUpTo(x, t, p, mark, next)
  PROVE  WholeBlocks(u) = <<LastOf(x, next, length)>>
<1>1. x \in Block
  BY DEF PaddedUpTo
<1>2. next \in 0..56
  OBVIOUS
<1> DEFINE e == LastOf(x, next, length)
<1>3. e \in Block /\ EndsWith(e, x, next, length)
  BY <1>1, <1>2, LastOfIs
<1> HIDE DEF e
<1>4. ASSUME NEW i \in 0..63 PROVE e[i] = u[i + 1]
  <2>1. PICK j \in 1..64 : j = i + 1
    OBVIOUS
  <2>2. CASE i < p
    <3>1. j \in 1..p /\ j - 1 = i
      BY <2>1, <2>2
    <3>2. u[j] = t[j] /\ x[j - 1] = t[j]
      BY <3>1 DEF EndOfMessage, PaddedUpTo, Starts
    <3>3. e[i] = x[i]
      <4>1. i < next
        BY <2>2
      <4>2. QED
        BY <1>3, <4>1 DEF EndsWith
    <3>4. QED
      BY <2>1, <3>1, <3>2, <3>3
  <2>3. CASE i = p
    <3>1. e[i] = x[i]
      <4>1. i < next
        BY <2>3
      <4>2. QED
        BY <1>3, <4>1 DEF EndsWith
    <3>2. QED
      BY <2>3, <3>1 DEF EndOfMessage, PaddedUpTo
  <2>4. CASE p < i /\ i < 56
    <3>1. u[j] = 0
      <4>1. j \in 1..(64 * 1) /\ p + 1 < j /\ j <= 64 * 1 - 8
        BY <2>1, <2>4
      <4>2. QED
        BY <4>1 DEF EndOfMessage
    <3>2. e[i] = 0
      <4>1. CASE i < next
        BY <1>3, <2>4, <4>1 DEF PaddedUpTo, EndsWith
      <4>2. CASE ~(i < next)
        <5>1. next <= i /\ i < 56
          BY <2>4, <4>2
        <5>2. QED
          BY <1>3, <5>1 DEF EndsWith
      <4>3. QED
        BY <4>1, <4>2
    <3>3. QED
      BY <2>1, <3>1, <3>2
  <2>5. CASE 56 <= i
    <3>1. PICK k \in 1..8 : k = i - 55
      BY <2>5
    <3>2. u[64 * 1 - 8 + k] = length[k]
      BY DEF EndOfMessage
    <3>3. 64 * 1 - 8 + k = i + 1 /\ 56 + k - 1 = i
      BY <3>1
    <3>4. e[56 + k - 1] = length[k]
      BY <1>3 DEF EndsWith
    <3>5. QED
      BY <3>2, <3>3, <3>4
  <2>6. i < p \/ i = p \/ (p < i /\ i < 56) \/ 56 <= i
    OBVIOUS
  <2>7. QED
    BY <2>2, <2>3, <2>4, <2>5, <2>6
<1>5. <<e>> \in Seq(Block) /\ Len(<<e>>) = 1 /\ <<e>>[1] = e
  BY <1>3
<1>6. ASSUME NEW b \in 1..1, NEW i \in 0..63 PROVE <<e>>[b][i] = u[Place(b, i)]
  <2>1. b = 1 /\ Place(b, i) = i + 1
    BY DEF Place
  <2>2. QED
    BY <1>4, <1>5, <2>1
<1>7. 1 \in Nat /\ 0 \in 0..63 /\ Len(u) = 64 * 1 + 0
  BY DEF EndOfMessage
<1>8. <<e>> = WholeBlocks(u)
  BY <1>5, <1>6, <1>7, SameBlocks
<1>9. QED
  BY <1>8 DEF e

BlockAt(x, u, n) == \A i \in 0..63 : x[i] = u[n + i + 1]

(* There is none: the block is filled with zeros and an extra one begins. *)
LEMMA FirstOfTwo ==
  ASSUME NEW u, NEW t, NEW p \in 0..63, NEW mark, NEW length,
         EndOfMessage(u, t, p, mark, length, 2),
         NEW x, NEW next \in (p + 1)..64, PaddedUpTo(x, t, p, mark, next)
  PROVE  ZeroFrom(x, next, 64) \in Block /\ BlockAt(ZeroFrom(x, next, 64), u, 0)
<1> DEFINE f == ZeroFrom(x, next, 64)
<1>1. x \in Block /\ next \in 0..64 /\ 64 \in 0..64
  BY DEF PaddedUpTo
<1>2. f \in Block /\ \A i \in 0..63 : f[i] = IF next <= i /\ i < 64 THEN 0 ELSE x[i]
  BY <1>1, ZeroIs
<1> HIDE DEF f
<1>3. ASSUME NEW i \in 0..63 PROVE f[i] = u[i + 1]
  <2>1. PICK j \in 1..64 : j = i + 1
    OBVIOUS
  <2>2. CASE i < p
    <3>1. j \in 1..p /\ j - 1 = i
      BY <2>1, <2>2
    <3>2. u[j] = t[j] /\ x[j - 1] = t[j]
      BY <3>1 DEF EndOfMessage, PaddedUpTo, Starts
    <3>3. ~(next <= i)
      BY <2>2
    <3>4. f[i] = x[i]
      BY <1>2, <3>3
    <3>5. QED
      BY <2>1, <3>1, <3>2, <3>4
  <2>3. CASE i = p
    <3>1. ~(next <= i)
      BY <2>3
    <3>2. f[i] = x[i]
      BY <1>2, <3>1
    <3>3. QED
      BY <2>3, <3>2 DEF EndOfMessage, PaddedUpTo
  <2>4. CASE p < i
    <3>1. u[j] = 0
      <4>1. j \in 1..(64 * 2) /\ p + 1 < j /\ j <= 64 * 2 - 8
        BY <2>1, <2>4
      <4>2. QED
        BY <4>1 DEF EndOfMessage
    <3>2. f[i] = 0
      <4>1. CASE i < next
        <5>1. x[i] = 0
          BY <2>4, <4>1 DEF PaddedUpTo
        <5>2. ~(next <= i)
          BY <4>1
        <5>3. QED
          BY <1>2, <5>1, <5>2
      <4>2. CASE ~(i < next)
        <5>1. next <= i /\ i < 64
          BY <4>2
        <5>2. QED
          BY <1>2, <5>1
      <4>3. QED
        BY <4>1, <4>2
    <3>3. QED
      BY <2>1, <3>1, <3>2
  <2>5. i < p \/ i = p \/ p < i
    OBVIOUS
  <2>6. QED
    BY <2>2, <2>3, <2>4, <2>5
<1>4. QED
  BY <1>2, <1>3 DEF f, BlockAt

LEMMA SecondOfTwo ==
  ASSUME NEW u, NEW t, NEW p \in 0..63, NEW mark, NEW length,
         EndOfMessage(u, t, p, mark, length, 2), Bytes(length, 8), NEW x \in Block
  PROVE  LastOf(x, 0, length) \in Block /\ BlockAt(LastOf(x, 0, length), u, 64)
<1> DEFINE e == LastOf(x, 0, length)
<1>1. 0 \in 0..56
  OBVIOUS
<1>2. e \in Block /\ EndsWith(e, x, 0, length)
  BY <1>1, LastOfIs
<1> HIDE DEF e
<1>3. ASSUME NEW i \in 0..63 PROVE e[i] = u[64 + i + 1]
  <2>1. CASE i < 56
    <3>1. PICK j \in 1..(64 * 2) : j = 64 + i + 1
      OBVIOUS
    <3>2. p + 1 < j /\ j <= 64 * 2 - 8
      BY <2>1, <3>1
    <3>3. u[j] = 0
      BY <3>2 DEF EndOfMessage
    <3>4. 0 <= i
      OBVIOUS
    <3>5. e[i] = 0
      BY <1>2, <2>1, <3>4 DEF EndsWith
    <3>6. QED
      BY <3>1, <3>3, <3>5
  <2>2. CASE ~(i < 56)
    <3>1. PICK k \in 1..8 : k = i - 55
      BY <2>2
    <3>2. u[64 * 2 - 8 + k] = length[k]
      BY DEF EndOfMessage
    <3>3. 64 * 2 - 8 + k = 64 + i + 1 /\ 56 + k - 1 = i
      BY <3>1
    <3>4. e[56 + k - 1] = length[k]
      BY <1>2 DEF EndsWith
    <3>5. QED
      BY <3>2, <3>3, <3>4
  <2>3. QED
    BY <2>1, <2>2
<1>4. QED
  BY <1>2, <1>3 DEF e, BlockAt

LEMMA TwoBlocks ==
  ASSUME NEW u \in Seq(Int), NEW t, NEW p \in 0..63, NEW mark, NEW length,
         EndOfMessage(u, t, p, mark, length, 2), Bytes(length, 8),
         NEW x, NEW next \in (p + 1)..64, PaddedUpTo(x, t, p, mark, next)
  PROVE  WholeBlocks(u) = <<ZeroFrom(x, next, 64), LastOf(x, 0, length)>>
<1> DEFINE f == ZeroFrom(x, next, 64)
           e == LastOf(x, 0, length)
           run == <<f, e>>
<1>1. f \in Block /\ BlockAt(f, u, 0)
  BY FirstOfTwo
<1>2. e \in Block /\ BlockAt(e, u, 64)
  <2>1. x \in Block
    BY DEF PaddedUpTo
  <2>2. QED
    BY <2>1, SecondOfTwo
<1> HIDE DEF f, e
<1>3. run \in Seq(Block) /\ Len(run) = 2 /\ run[1] = f /\ run[2] = e
  BY <1>1, <1>2
<1> HIDE DEF run
<1>4. ASSUME NEW b \in 1..2, NEW i \in 0..63 PROVE run[b][i] = u[Place(b, i)]
  <2>1. CASE b = 1
    <3>1. Place(b, i) = i + 1
      BY <2>1 DEF Place
    <3>2. \A k \in 0..63 : f[k] = u[0 + k + 1]
      BY <1>1 DEF BlockAt
    <3>3. f[i] = u[0 + i + 1]
      BY <3>2
    <3>4. 0 + i + 1 = Place(b, i)
      BY <3>1
    <3>5. QED
      BY <1>3, <2>1, <3>3, <3>4
  <2>2. CASE b = 2
    <3>1. Place(b, i) = 64 + i + 1
      BY <2>2 DEF Place
    <3>2. e[i] = u[64 + i + 1]
      BY <1>2 DEF BlockAt
    <3>3. QED
      BY <1>3, <2>2, <3>1, <3>2
  <2>3. QED
    BY <2>1, <2>2
<1>5. 2 \in Nat /\ 0 \in 0..63 /\ Len(u) = 64 * 2 + 0
  BY DEF EndOfMessage
<1>6. run = WholeBlocks(u)
  BY <1>3, <1>4, <1>5, SameBlocks
<1>7. QED
  BY <1>6 DEF run, f, e

(* The blocks of a final are those of the end of the message. *)
Finishing(u, t, p, mark, length, x, next, limit, n) ==
    /\ u \in Seq(Int) /\ p \in 0..63 /\ Bytes(length, 8)
    /\ next \in (p + 1)..64 /\ PaddedUpTo(x, t, p, mark, next)
    /\ limit \in 0..56 /\ n = (IF next > limit THEN 2 ELSE 1)
    /\ EndOfMessage(u, t, p, mark, length, n)

LEMMA FinishIs ==
  ASSUME NEW u, NEW t, NEW p, NEW mark, NEW length, NEW x, NEW next, NEW limit, NEW n,
         Finishing(u, t, p, mark, length, x, next, limit, n)
  PROVE  Finish(x, next, limit, length) = WholeBlocks(u)
<1>1. /\ u \in Seq(Int) /\ p \in 0..63 /\ Bytes(length, 8)
      /\ next \in (p + 1)..64 /\ PaddedUpTo(x, t, p, mark, next)
      /\ limit \in 0..56 /\ n = (IF next > limit THEN 2 ELSE 1)
      /\ EndOfMessage(u, t, p, mark, length, n)
  BY DEF Finishing
<1>2. CASE next > limit
  <2>1. EndOfMessage(u, t, p, mark, length, 2)
    BY <1>1, <1>2
  <2>2. WholeBlocks(u) = <<ZeroFrom(x, next, 64), LastOf(x, 0, length)>>
    BY <1>1, <2>1, TwoBlocks
  <2>3. QED
    BY <1>2, <2>2 DEF Finish, LastOf
<1>3. CASE ~(next > limit)
  <2>1. EndOfMessage(u, t, p, mark, length, 1) /\ next \in (p + 1)..56
    BY <1>1, <1>3
  <2>2. WholeBlocks(u) = <<LastOf(x, next, length)>>
    BY <1>1, <2>1, OneBlock
  <2>3. QED
    BY <1>3, <2>2 DEF Finish, LastOf
<1>4. QED
  BY <1>2, <1>3

LEMMA PaddedIs ==
  ASSUME NEW c, NEW t, Buffers(c, t), NEW p \in 0..63, Len(t) = p, NEW mark \in Int
  PROVE  c.length % 64 = p /\ PaddedUpTo(PaddedWith(c, mark), t, p, mark, p + 1)
<1> DEFINE x == PaddedWith(c, mark)
           buf == c.message
<1>1. c.length % 64 = p /\ buf \in Block /\ Starts(buf, t, p)
  BY DEF Buffers, Holds
<1> HIDE DEF buf
<1>2. Bytes(<<mark>>, 1)
  BY DEF Bytes
<1>3. Copy(buf, p, <<mark>>) \in Block /\ Overlay(Copy(buf, p, <<mark>>), buf, p, <<mark>>, 1)
  <2>1. 1 \in 0..64 /\ p + 1 <= 64
    OBVIOUS
  <2>2. QED
    BY <1>1, <1>2, <2>1, CopyIs
<1>4. x \in Block /\ Overlay(x, buf, p, <<mark>>, 1)
  BY <1>1, <1>3 DEF PaddedWith, buf
<1> HIDE DEF x
<1>5. Starts(x, t, p)
  <2>1. ASSUME NEW i \in 1..p PROVE x[i - 1] = t[i]
    <3>1. i - 1 \in 0..63 /\ i - 1 < p
      OBVIOUS
    <3>2. x[i - 1] = buf[i - 1]
      BY <1>4, <3>1 DEF Overlay
    <3>3. QED
      BY <1>1, <3>2 DEF Starts
  <2>2. QED
    BY <2>1 DEF Starts
<1>6. x[p] = mark
  <2>1. 1 \in 1..1 /\ p + 1 - 1 = p /\ <<mark>>[1] = mark
    OBVIOUS
  <2>2. x[p + 1 - 1] = <<mark>>[1]
    BY <1>4, <2>1 DEF Overlay
  <2>3. QED
    BY <2>1, <2>2
<1>7. ASSUME NEW i \in 0..63, p < i, i < p + 1 PROVE x[i] = 0
  BY <1>7
<1>8. PaddedUpTo(x, t, p, mark, p + 1)
  BY <1>4, <1>5, <1>6, <1>7 DEF PaddedUpTo
<1>9. QED
  BY <1>1, <1>8 DEF x

LEMMA WordEndIs ==
  ASSUME NEW c, NEW p \in 0..63, c.length % 64 = p
  PROVE  WordEnd(c) \in (p + 1)..64 /\ (WordEnd(c) > 56 <=> p + 1 > 56)
BY DEF WordEnd

LEMMA WordPaddedIs ==
  ASSUME NEW c, NEW t, Buffers(c, t), NEW p \in 0..63, Len(t) = p
  PROVE  PaddedUpTo(WordPadded(c), t, p, 128, WordEnd(c))
<1> DEFINE x == PaddedWith(c, 128)
           y == WordPadded(c)
<1>1. c.length % 64 = p /\ PaddedUpTo(x, t, p, 128, p + 1)
  <2>1. 128 \in Int
    OBVIOUS
  <2>2. QED
    BY <2>1, PaddedIs
<1>2. PICK end \in (p + 1)..64 : end = WordEnd(c)
  BY <1>1, WordEndIs
<1> HIDE DEF x
<1>3. y = ZeroFrom(x, p + 1, end)
  BY <1>1, <1>2 DEF WordPadded, x
<1> HIDE DEF y
<1>4. y \in Block /\ \A i \in 0..63 : y[i] = IF p + 1 <= i /\ i < end THEN 0 ELSE x[i]
  <2>1. p + 1 \in 0..64 /\ end \in 0..64 /\ x \in Block
    BY <1>1 DEF PaddedUpTo
  <2>2. QED
    BY <1>3, <2>1, ZeroIs, ZenonT(30)
<1>5. ASSUME NEW i \in 0..63, i <= p PROVE y[i] = x[i]
  <2>1. ~(p + 1 <= i)
    BY <1>5
  <2>2. QED
    BY <1>4, <2>1
<1>6. Starts(y, t, p)
  <2>1. ASSUME NEW i \in 1..p PROVE y[i - 1] = t[i]
    <3>1. i - 1 \in 0..63 /\ i - 1 <= p
      OBVIOUS
    <3>2. y[i - 1] = x[i - 1]
      BY <1>5, <3>1
    <3>3. x[i - 1] = t[i]
      BY <1>1 DEF PaddedUpTo, Starts
    <3>4. QED
      BY <3>2, <3>3
  <2>2. QED
    BY <2>1 DEF Starts
<1>7. y[p] = 128
  <2>1. p \in 0..63 /\ p <= p
    OBVIOUS
  <2>2. y[p] = x[p]
    BY <1>5, <2>1
  <2>3. QED
    BY <1>1, <2>2 DEF PaddedUpTo
<1>8. ASSUME NEW i \in 0..63, p < i, i < end PROVE y[i] = 0
  <2>1. p + 1 <= i /\ i < end
    BY <1>8
  <2>2. QED
    BY <1>4, <2>1
<1>9. PaddedUpTo(y, t, p, 128, end)
  BY <1>4, <1>6, <1>7, <1>8 DEF PaddedUpTo
<1>10. QED
  BY <1>2, <1>9 DEF y

-----------------------------------------------------------------------------
(* The padding of the standards. *)
Zeros(n) == [i \in 1..n |-> 0]
Pad(mark, z, bits) == <<mark>> \o (Zeros(z) \o bits)

(* bits is the length in its last eight bytes. *)
BitsOf(bits, length, limit) ==
    /\ bits \in Seq(Int) /\ Len(bits) = 64 - limit
    /\ \A j \in 1..(64 - limit) : j <= 56 - limit => bits[j] = 0
    /\ \A j \in 1..8 : bits[56 - limit + j] = length[j]

LEMMA ZerosAre ==
  ASSUME NEW z \in Nat
  PROVE  Zeros(z) \in Seq(Int) /\ Len(Zeros(z)) = z /\ \A i \in 1..z : Zeros(z)[i] = 0
BY DEF Zeros

(* The bytes of a padding. *)
PadBytes(w, mark, z, bits, l) ==
    /\ w[1] = mark
    /\ \A i \in 1..z : w[1 + i] = 0
    /\ \A i \in 1..l : w[1 + z + i] = bits[i]

LEMMA PadIs ==
  ASSUME NEW mark \in Int, NEW z \in Nat, NEW bits \in Seq(Int), NEW l \in Nat, Len(bits) = l
  PROVE  /\ Pad(mark, z, bits) \in Seq(Int) /\ Len(Pad(mark, z, bits)) = 1 + z + l
         /\ PadBytes(Pad(mark, z, bits), mark, z, bits, l)
<1> DEFINE zs == Zeros(z)
           v == zs \o bits
           w == <<mark>> \o v
<1>1. zs \in Seq(Int) /\ Len(zs) = z /\ \A i \in 1..z : zs[i] = 0
  BY ZerosAre
<1> HIDE DEF zs
<1>2. v \in Seq(Int) /\ Len(v) = z + l /\ Joins(v, zs, z, bits, l)
  BY <1>1, JoinsIs
<1> HIDE DEF v
<1>3. <<mark>> \in Seq(Int) /\ Len(<<mark>>) = 1 /\ <<mark>>[1] = mark /\ 1 \in Nat /\ z + l \in Nat
  OBVIOUS
<1>4. w \in Seq(Int) /\ Len(w) = 1 + (z + l) /\ Joins(w, <<mark>>, 1, v, z + l)
  BY <1>2, <1>3, JoinsIs
<1> HIDE DEF w
<1>5. w[1] = mark
  BY <1>3, <1>4 DEF Joins
<1>6. ASSUME NEW i \in 1..z PROVE w[1 + i] = 0
  <2>1. i \in 1..(z + l)
    OBVIOUS
  <2>2. w[1 + i] = v[i]
    BY <1>4, <2>1 DEF Joins
  <2>3. v[i] = zs[i] /\ zs[i] = 0
    BY <1>1, <1>2 DEF Joins
  <2>4. QED
    BY <2>2, <2>3
<1>7. ASSUME NEW i \in 1..l PROVE w[1 + z + i] = bits[i]
  <2>1. PICK j \in 1..(z + l) : j = z + i
    OBVIOUS
  <2>2. w[1 + j] = v[j] /\ 1 + z + i = 1 + j
    BY <1>4, <2>1 DEF Joins
  <2>3. v[z + i] = bits[i]
    BY <1>2 DEF Joins
  <2>4. QED
    BY <2>1, <2>2, <2>3
<1>8. w = Pad(mark, z, bits)
  BY DEF w, v, zs, Pad
<1>9. PadBytes(w, mark, z, bits, l)
  BY <1>5, <1>6, <1>7 DEF PadBytes
<1>10. QED
  BY <1>4, <1>8, <1>9

LEMMA EndIs ==
  ASSUME NEW t \in Seq(Int), NEW p \in 0..63, Len(t) = p, NEW mark \in Int, NEW z \in 0..63,
         NEW limit \in 0..56, NEW bits, NEW length, BitsOf(bits, length, limit),
         NEW n \in 1..2, p + 1 + z + (64 - limit) = 64 * n
  PROVE  /\ t \o Pad(mark, z, bits) \in Seq(Int)
         /\ EndOfMessage(t \o Pad(mark, z, bits), t, p, mark, length, n)
<1>1. PICK l \in 8..64 : l = 64 - limit
  OBVIOUS
<1>2. bits \in Seq(Int) /\ Len(bits) = l
  BY <1>1 DEF BitsOf
<1> DEFINE w == Pad(mark, z, bits)
           v == t \o w
<1>3. w \in Seq(Int) /\ Len(w) = 1 + z + l /\ PadBytes(w, mark, z, bits, l)
  <2>1. z \in Nat /\ l \in Nat
    OBVIOUS
  <2>2. QED
    BY <1>2, <2>1, PadIs, SMTT(30)
<1>4. PICK m \in 1..128 : m = 1 + z + l
  OBVIOUS
<1> HIDE DEF w
<1>5. v \in Seq(Int) /\ Len(v) = p + m /\ Joins(v, t, p, w, m)
  <2>1. p \in Nat /\ m \in Nat /\ Len(w) = m
    BY <1>3, <1>4
  <2>2. QED
    BY <1>3, <2>1, JoinsIs
<1> HIDE DEF v
<1>6. p + m = 64 * n
  BY <1>1, <1>4
<1>7. \A j \in 1..p : v[j] = t[j]
  BY <1>5 DEF Joins
<1>8. v[p + 1] = mark
  <2>1. v[p + 1] = w[1]
    BY <1>5 DEF Joins
  <2>2. QED
    BY <1>3, <2>1 DEF PadBytes
<1>9. ASSUME NEW j \in 1..(64 * n), p + 1 < j, j <= 64 * n - 8 PROVE v[j] = 0
  <2>1. PICK i \in 2..m : j = p + i
    <3>1. j - p \in 2..m /\ j = p + (j - p)
      BY <1>6, <1>9
    <3>2. QED
      BY <3>1
  <2>2. v[p + i] = w[i]
    BY <1>5 DEF Joins
  <2>3. CASE i <= 1 + z
    <3>1. PICK k \in 1..z : i = 1 + k
      <4>1. i - 1 \in 1..z /\ i = 1 + (i - 1)
        BY <2>3
      <4>2. QED
        BY <4>1
    <3>2. w[1 + k] = 0
      BY <1>3 DEF PadBytes
    <3>3. QED
      BY <2>1, <2>2, <3>1, <3>2
  <2>4. CASE ~(i <= 1 + z)
    <3>1. PICK k \in 1..l : i = 1 + z + k
      <4>1. i - (1 + z) \in 1..l /\ i = 1 + z + (i - (1 + z))
        BY <1>4, <2>4
      <4>2. QED
        BY <4>1
    <3>2. w[1 + z + k] = bits[k]
      BY <1>3 DEF PadBytes
    <3>3. k \in 1..(64 - limit) /\ k <= 56 - limit
      BY <1>1, <1>4, <1>6, <1>9, <2>1, <3>1
    <3>4. bits[k] = 0
      BY <3>3 DEF BitsOf
    <3>5. QED
      BY <2>1, <2>2, <3>1, <3>2, <3>4
  <2>5. QED
    BY <2>3, <2>4
<1>10. ASSUME NEW j \in 1..8 PROVE v[64 * n - 8 + j] = length[j]
  <2>1. PICK k \in 1..l : k = 56 - limit + j
    BY <1>1
  <2>2. PICK i \in 1..m : i = 1 + z + k
    BY <1>4
  <2>3. 64 * n - 8 + j = p + i
    BY <1>1, <1>4, <1>6, <2>1, <2>2
  <2>4. v[p + i] = w[i]
    BY <1>5 DEF Joins
  <2>5. w[1 + z + k] = bits[k]
    BY <1>3 DEF PadBytes
  <2>6. bits[56 - limit + j] = length[j]
    BY DEF BitsOf
  <2>7. QED
    BY <2>1, <2>2, <2>3, <2>4, <2>5, <2>6
<1>11. EndOfMessage(v, t, p, mark, length, n)
  BY <1>5, <1>6, <1>7, <1>8, <1>9, <1>10 DEF EndOfMessage
<1>12. QED
  BY <1>5, <1>11 DEF v, w

(* How many zeros there are. *)
ZerosFor(size, limit) == CHOOSE n \in 0..63 : (size + 1 + n + (64 - limit)) % 64 = 0
Split(size, q, p) == q \in Nat /\ p \in 0..63 /\ size = 64 * q + p
BlocksFor(p, limit) == IF p + 1 > limit THEN 2 ELSE 1

LEMMA ZeroCount ==
  ASSUME NEW size, NEW q, NEW p, Split(size, q, p), NEW limit \in 0..56
  PROVE  /\ ZerosFor(size, limit) \in 0..63
         /\ p + 1 + ZerosFor(size, limit) + (64 - limit) = 64 * BlocksFor(p, limit)
<1> DEFINE Ok(n) == (size + 1 + n + (64 - limit)) % 64 = 0
           z == CHOOSE n \in 0..63 : Ok(n)
<1>0. q \in Nat /\ p \in 0..63 /\ size = 64 * q + p
  BY DEF Split
<1>1. \E n \in 0..63 : Ok(n)
  <2>1. CASE p + 1 > limit
    <3>1. PICK n \in 0..63 : n = 64 + limit - p - 1
      BY <1>0, <2>1
    <3>2. size + 1 + n + (64 - limit) = 64 * (q + 2) + 0
      BY <1>0, <3>1
    <3>3. PICK h \in Nat : h = q + 2
      BY <1>0
    <3>4. (64 * h + 0) % 64 = 0
      BY DivUnique, 0 \in 0..63
    <3>5. QED
      BY <3>2, <3>3, <3>4
  <2>2. CASE ~(p + 1 > limit)
    <3>1. PICK n \in 0..63 : n = limit - p - 1
      BY <1>0, <2>2
    <3>2. size + 1 + n + (64 - limit) = 64 * (q + 1) + 0
      BY <1>0, <3>1
    <3>3. PICK h \in Nat : h = q + 1
      BY <1>0
    <3>4. (64 * h + 0) % 64 = 0
      BY DivUnique, 0 \in 0..63
    <3>5. QED
      BY <3>2, <3>3, <3>4
  <2>3. QED
    BY <2>1, <2>2
<1>2. ASSUME NEW n \in 0..63, Ok(n)
      PROVE  p + 1 + n + (64 - limit) = 64 * (IF p + 1 > limit THEN 2 ELSE 1)
  <2>1. PICK e \in 1..191 : e = p + 1 + n + (64 - limit)
    BY <1>0
  <2>2. PICK k \in Nat, r \in 0..63 : e = 64 * k + r
    BY DivMod, e \in Nat
  <2>3. size + 1 + n + (64 - limit) = 64 * (q + k) + r
    BY <1>0, <2>1, <2>2
  <2>4. r = 0
    <3>1. PICK h \in Nat : h = q + k
      BY <1>0
    <3>2. (64 * h + r) % 64 = r
      BY DivUnique
    <3>3. (size + 1 + n + (64 - limit)) % 64 = 0
      BY <1>2
    <3>4. QED
      BY <1>0, <2>3, <3>1, <3>2, <3>3
  <2>5. k \in 1..2 /\ e = 64 * k
    BY <2>2, <2>4
  <2>6. QED
    BY <1>0, <2>1, <2>5
<1>3. z \in 0..63 /\ Ok(z)
  <2> HIDE DEF Ok
  <2> QED
    BY <1>1
<1>4. z = ZerosFor(size, limit)
  BY DEF ZerosFor
<1> HIDE DEF Ok, z
<1>5. p + 1 + z + (64 - limit) = 64 * (IF p + 1 > limit THEN 2 ELSE 1)
  BY <1>2, <1>3
<1>6. QED
  BY <1>3, <1>4, <1>5 DEF BlocksFor

-----------------------------------------------------------------------------
(* The chaining value: the blocks, each with the name of its algorithm. *)
Tag(a, run) == [b \in DOMAIN run |-> <<a, run[b]>>]
Tagged == Alg \X Block

LEMMA TagIs ==
  ASSUME NEW a \in Alg, NEW x \in Seq(Block)
  PROVE  /\ Tag(a, x) \in Seq(Tagged) /\ Len(Tag(a, x)) = Len(x)
         /\ \A b \in 1..Len(x) : Tag(a, x)[b] = <<a, x[b]>>
<1>1. DOMAIN x = 1..Len(x) /\ Len(x) \in Nat
  OBVIOUS
<1>2. ASSUME NEW b \in 1..Len(x) PROVE <<a, x[b]>> \in Tagged
  BY InRun DEF Tagged
<1>3. PICK n \in Nat : n = Len(x)
  BY <1>1
<1> DEFINE At(b) == <<a, x[b]>>
<1>4. Tag(a, x) = [b \in 1..n |-> At(b)]
  BY <1>1, <1>3 DEF Tag
<1>5. \A b \in 1..n : At(b) \in Tagged
  BY <1>2, <1>3
<1>6. \A b \in 1..n : Tag(a, x)[b] = At(b)
  BY <1>4
<1>7. Tag(a, x) \in Seq(Tagged) /\ Len(Tag(a, x)) = n
  <2> HIDE DEF At
  <2> QED
    BY <1>4, <1>5
<1>8. QED
  BY <1>3, <1>6, <1>7

LEMMA JoinedTags ==
  ASSUME NEW x \in Seq(Tagged), NEW y \in Seq(Tagged), NEW k \in Nat, NEW l \in Nat,
         Len(x) = k, Len(y) = l
  PROVE  /\ x \o y \in Seq(Tagged) /\ Len(x \o y) = k + l
         /\ \A b \in 1..k : (x \o y)[b] = x[b]
         /\ \A b \in 1..l : (x \o y)[k + b] = y[b]
OBVIOUS

LEMMA TagJoined ==
  ASSUME NEW a \in Alg, NEW x \in Seq(Block), NEW y \in Seq(Block)
  PROVE  Tag(a, x \o y) = Tag(a, x) \o Tag(a, y)
<1> DEFINE A == Tag(a, x)
           B == Tag(a, y)
           C == Tag(a, x \o y)
<1>1. PICK k \in Nat, l \in Nat : Len(x) = k /\ Len(y) = l
  OBVIOUS
<1>2. /\ x \o y \in Seq(Block) /\ Len(x \o y) = k + l
      /\ \A b \in 1..k : (x \o y)[b] = x[b]
      /\ \A b \in 1..l : (x \o y)[k + b] = y[b]
  BY <1>1, JoinedRuns
<1>3. A \in Seq(Tagged) /\ Len(A) = k /\ \A b \in 1..k : A[b] = <<a, x[b]>>
  BY <1>1, TagIs
<1>4. B \in Seq(Tagged) /\ Len(B) = l /\ \A b \in 1..l : B[b] = <<a, y[b]>>
  BY <1>1, TagIs
<1>5. C \in Seq(Tagged) /\ Len(C) = k + l /\ \A b \in 1..(k + l) : C[b] = <<a, (x \o y)[b]>>
  BY <1>2, TagIs
<1> HIDE DEF A, B, C
<1>6. /\ A \o B \in Seq(Tagged) /\ Len(A \o B) = k + l
      /\ \A b \in 1..k : (A \o B)[b] = A[b]
      /\ \A b \in 1..l : (A \o B)[k + b] = B[b]
  <2>1. A \in Seq(Tagged) /\ B \in Seq(Tagged) /\ Len(A) = k /\ Len(B) = l
    BY <1>3, <1>4
  <2>2. QED
    BY <2>1, JoinedTags, SMTT(30)
<1>7. ASSUME NEW b \in 1..(k + l) PROVE C[b] = (A \o B)[b]
  <2>1. CASE b \in 1..k
    BY <1>2, <1>3, <1>5, <1>6, <2>1, ZenonT(30)
  <2>2. CASE b \notin 1..k
    <3>1. PICK e \in 1..l : b = k + e
      <4>1. b - k \in 1..l /\ b = k + (b - k)
        BY <2>2
      <4>2. QED
        BY <4>1
    <3>2. (A \o B)[k + e] = <<a, y[e]>>
      BY <1>4, <1>6
    <3>3. (x \o y)[k + e] = y[e]
      BY <1>2
    <3>4. C[b] = <<a, (x \o y)[b]>>
      BY <1>5
    <3>5. QED
      BY <3>1, <3>2, <3>3, <3>4
  <2>3. QED
    BY <2>1, <2>2
<1>8. C = A \o B
  BY <1>5, <1>6, <1>7
<1>9. QED
  BY <1>8 DEF A, B, C

-----------------------------------------------------------------------------
(* The context c of algorithm a was fed with the bytes d. *)
Fed(c, a, d) ==
    /\ c.length = Len(d)
    /\ c.hash = Tag(a, WholeBlocks(d))
    /\ Holds(c.message, Leftover(d))

LEMMA FedBuffers ==
  ASSUME NEW c, NEW a, NEW d \in Seq(Int), Fed(c, a, d)
  PROVE  Buffers(c, Leftover(d))
BY LeftoverSmall DEF Fed, Buffers

LEMMA BlocksType ==
  ASSUME NEW u \in Seq(Int)
  PROVE  WholeBlocks(u) \in Seq(Block)
<1>1. PICK k \in Nat, r \in 0..63 : Len(u) = 64 * k + r
  BY DivMod, Len(u) \in Nat
<1>2. QED
  BY <1>1, BlocksAre

LEMMA StreamTagged ==
  ASSUME NEW a \in Alg, NEW d \in Seq(Int), NEW m \in Seq(Int)
  PROVE  Tag(a, WholeBlocks(d \o m))
            = Tag(a, WholeBlocks(d)) \o Tag(a, WholeBlocks(Leftover(d) \o m))
<1>1. Leftover(d) \o m \in Seq(Int)
  BY LeftoverSmall, Joined
<1>2. WholeBlocks(d) \in Seq(Block) /\ WholeBlocks(Leftover(d) \o m) \in Seq(Block)
  BY <1>1, BlocksType
<1>3. QED
  BY <1>2, BlocksOfStream, TagJoined, ZenonT(30)

(* An update adds the message to what the context was fed with. *)
LEMMA UpdatedFed ==
  ASSUME NEW c, NEW a \in Alg, NEW d \in Seq(Int), Fed(c, a, d), NEW m \in Seq(Int),
         NEW run, run = WholeBlocks(Leftover(d) \o m),
         NEW buf, Holds(buf, Leftover(Leftover(d) \o m))
  PROVE  Fed(Updated(c, m, c.hash \o Tag(a, run), buf), a, d \o m)
<1> DEFINE c2 == Updated(c, m, c.hash \o Tag(a, run), buf)
<1>1. c2.length = c.length + Len(m) /\ c2.hash = c.hash \o Tag(a, run) /\ c2.message = buf
  BY DEF Updated
<1> HIDE DEF c2
<1>2. c2.length = Len(d \o m)
  BY <1>1, Joined DEF Fed
<1>3. c2.hash = Tag(a, WholeBlocks(d \o m))
  BY <1>1, StreamTagged DEF Fed
<1>4. Holds(c2.message, Leftover(d \o m))
  BY <1>1, BlocksOfStream
<1>5. Fed(c2, a, d \o m)
  BY <1>2, <1>3, <1>4 DEF Fed
<1>6. QED
  BY <1>5 DEF c2

LEMMA RhashFed ==
  ASSUME NEW c, NEW a \in Alg, NEW d \in Seq(Int), Fed(c, a, d), NEW m \in Seq(Int),
         NEW aligned \in BOOLEAN
  PROVE  Fed(Updated(c, m, c.hash \o Tag(a, RhashBlocks(c, m)), RhashBuffer(c, m, aligned)),
             a, d \o m)
<1>1. Buffers(c, Leftover(d))
  BY FedBuffers
<1>2. /\ RhashBlocks(c, m) = WholeBlocks(Leftover(d) \o m)
      /\ Holds(RhashBuffer(c, m, aligned), Leftover(Leftover(d) \o m))
  BY <1>1, RhashIs
<1>3. QED
  BY <1>2, UpdatedFed

LEMMA FillFed ==
  ASSUME NEW c, NEW a \in Alg, NEW d \in Seq(Int), Fed(c, a, d), NEW m \in Seq(Int)
  PROVE  Fed(Updated(c, m, c.hash \o Tag(a, FillBlocks(c, m)), FillBuffer(c, m)), a, d \o m)
<1>1. Buffers(c, Leftover(d))
  BY FedBuffers
<1>2. /\ FillBlocks(c, m) = WholeBlocks(Leftover(d) \o m)
      /\ Holds(FillBuffer(c, m), Leftover(Leftover(d) \o m))
  BY <1>1, FillIs
<1>3. QED
  BY <1>2, UpdatedFed

-----------------------------------------------------------------------------
(* The length in bits, low byte first and high byte first. *)
LEMMA LittleIs ==
  ASSUME NEW n \in Nat
  PROVE  LE64(n) \in Seq(Int) /\ Len(LE64(n)) = 8
<1>1. /\ n % 256 \in Int /\ (n \div 256) % 256 \in Int
      /\ (n \div 65536) % 256 \in Int /\ (n \div 16777216) % 256 \in Int
  OBVIOUS
<1>2. ASSUME NEW x1 \in Int, NEW x2 \in Int, NEW x3 \in Int, NEW x4 \in Int
      PROVE  /\ <<x1, x2, x3, x4, 0, 0, 0, 0>> \in Seq(Int)
             /\ Len(<<x1, x2, x3, x4, 0, 0, 0, 0>>) = 8
  OBVIOUS
<1>3. QED
  BY <1>1, <1>2 DEF LE64

LEMMA BigIs ==
  ASSUME NEW n \in Nat
  PROVE  BE64(n) \in Seq(Int) /\ Len(BE64(n)) = 8
<1>1. LE64(n) \in Seq(Int) /\ Len(LE64(n)) = 8
  BY LittleIs
<1>2. ASSUME NEW v \in Seq(Int), Len(v) = 8
      PROVE  Reverse(v) \in Seq(Int) /\ Len(Reverse(v)) = 8
  <2> DEFINE At(i) == v[(8 - i) + 1]
  <2>1. Reverse(v) = [i \in 1..8 |-> At(i)]
    BY <1>2 DEF Reverse
  <2>2. ASSUME NEW i \in 1..8 PROVE At(i) \in Int
    <3>1. PICK j \in 1..8 : j = (8 - i) + 1
      OBVIOUS
    <3>2. v[j] \in Int
      <4>1. Bytes(v, 8)
        BY <1>2, BytesIs, 8 \in Nat
      <4>2. QED
        BY <4>1 DEF Bytes
    <3>3. QED
      BY <3>1, <3>2
  <2>3. QED
    <3> HIDE DEF At
    <3> QED
      BY <2>1, <2>2
<1>3. QED
  BY <1>1, <1>2 DEF BE64

LEMMA WholeBits ==
  ASSUME NEW v \in Seq(Int), Len(v) = 8
  PROVE  BitsOf(v, v, 56)
BY DEF BitsOf

LEMMA WideBits ==
  ASSUME NEW v \in Seq(Int), Len(v) = 8
  PROVE  BitsOf(Zeros(24) \o v, v, 32)
<1> DEFINE w == Zeros(24) \o v
<1>1. Zeros(24) \in Seq(Int) /\ Len(Zeros(24)) = 24 /\ \A i \in 1..24 : Zeros(24)[i] = 0
  BY ZerosAre, 24 \in Nat
<1>2. 24 \in Nat /\ 8 \in Nat
  OBVIOUS
<1>3. w \in Seq(Int) /\ Len(w) = 24 + 8 /\ Joins(w, Zeros(24), 24, v, 8)
  BY <1>1, <1>2, JoinsIs
<1> HIDE DEF w
<1>4. \A j \in 1..24 : w[j] = 0
  BY <1>1, <1>3 DEF Joins
<1>5. \A j \in 1..8 : w[24 + j] = v[j]
  BY <1>3 DEF Joins
<1>6. BitsOf(w, v, 32)
  BY <1>3, <1>4, <1>5 DEF BitsOf
<1>7. QED
  BY <1>6 DEF w

LEMMA Assoc ==
  ASSUME NEW x \in Seq(Int), NEW y \in Seq(Int), NEW z \in Seq(Int)
  PROVE  (x \o y) \o z = x \o (y \o z)
<1>1. PICK k \in Nat, l \in Nat, m \in Nat : Len(x) = k /\ Len(y) = l /\ Len(z) = m
  OBVIOUS
<1> DEFINE xy == x \o y
           yz == y \o z
           v == xy \o z
           w == x \o yz
<1>2. xy \in Seq(Int) /\ Len(xy) = k + l /\ Joins(xy, x, k, y, l)
  BY <1>1, JoinsIs
<1>3. yz \in Seq(Int) /\ Len(yz) = l + m /\ Joins(yz, y, l, z, m)
  BY <1>1, JoinsIs
<1> HIDE DEF xy, yz
<1>4. k + l \in Nat /\ l + m \in Nat
  OBVIOUS
<1>5. v \in Seq(Int) /\ Len(v) = (k + l) + m /\ Joins(v, xy, k + l, z, m)
  BY <1>1, <1>2, <1>4, JoinsIs
<1>6. w \in Seq(Int) /\ Len(w) = k + (l + m) /\ Joins(w, x, k, yz, l + m)
  BY <1>1, <1>3, <1>4, JoinsIs
<1> HIDE DEF v, w
<1>7. PICK e \in Nat : e = k + l + m
  OBVIOUS
<1>8. ASSUME NEW i \in 1..e PROVE v[i] = w[i]
  <2>1. CASE i \in 1..k
    <3>1. i \in 1..(k + l)
      BY <2>1
    <3>2. v[i] = xy[i]
      BY <1>5, <3>1 DEF Joins
    <3>3. xy[i] = x[i]
      BY <1>2, <2>1 DEF Joins
    <3>4. w[i] = x[i]
      BY <1>6, <2>1 DEF Joins
    <3>5. QED
      BY <3>2, <3>3, <3>4
  <2>2. CASE i \in (k + 1)..(k + l)
    <3>1. PICK j \in 1..l : i = k + j
      <4>1. i - k \in 1..l /\ i = k + (i - k)
        BY <2>2
      <4>2. QED
        BY <4>1
    <3>2. i \in 1..(k + l) /\ j \in 1..(l + m)
      BY <2>2
    <3>3. v[i] = xy[i]
      BY <1>5, <3>2 DEF Joins
    <3>4. xy[k + j] = y[j]
      BY <1>2 DEF Joins
    <3>5. w[k + j] = yz[j]
      BY <1>6, <3>2 DEF Joins
    <3>6. yz[j] = y[j]
      BY <1>3 DEF Joins
    <3>7. QED
      BY <3>1, <3>3, <3>4, <3>5, <3>6
  <2>3. CASE i \in (k + l + 1)..e
    <3>1. PICK j \in 1..m : i = k + l + j
      <4>1. i - (k + l) \in 1..m /\ i = k + l + (i - (k + l))
        BY <1>7, <2>3
      <4>2. QED
        BY <4>1
    <3>2. PICK h \in 1..(l + m) : h = l + j
      OBVIOUS
    <3>3. v[(k + l) + j] = z[j]
      BY <1>5 DEF Joins
    <3>4. w[k + h] = yz[h]
      BY <1>6 DEF Joins
    <3>5. yz[l + j] = z[j]
      BY <1>3 DEF Joins
    <3>6. i = (k + l) + j /\ i = k + h
      BY <3>1, <3>2
    <3>7. QED
      BY <3>2, <3>3, <3>4, <3>5, <3>6
  <2>4. i \in 1..k \/ i \in (k + 1)..(k + l) \/ i \in (k + l + 1)..e
    OBVIOUS
  <2>5. QED
    BY <2>1, <2>2, <2>3, <2>4
<1>9. Len(v) = e /\ Len(w) = e
  BY <1>5, <1>6, <1>7
<1>10. v = w
  BY <1>5, <1>6, <1>8, <1>9, SameSeq
<1>11. QED
  BY <1>10 DEF v, w, xy, yz

LEMMA PadJoined ==
  ASSUME NEW d \in Seq(Int), NEW mark \in Int, NEW z \in Nat, NEW bits \in Seq(Int)
  PROVE  d \o <<mark>> \o Zeros(z) \o bits = d \o Pad(mark, z, bits)
<1> DEFINE zs == Zeros(z)
           h == <<mark>>
<1>1. zs \in Seq(Int) /\ h \in Seq(Int)
  BY ZerosAre
<1> HIDE DEF zs, h
<1>2. d \o h \in Seq(Int) /\ zs \o bits \in Seq(Int)
  BY <1>1, Joined
<1>3. ((d \o h) \o zs) \o bits = (d \o h) \o (zs \o bits)
  BY <1>1, <1>2, Assoc, SMTT(30)
<1>4. (d \o h) \o (zs \o bits) = d \o (h \o (zs \o bits))
  BY <1>1, <1>2, Assoc
<1>5. QED
  BY <1>3, <1>4 DEF Pad, zs, h

-----------------------------------------------------------------------------
(* The blocks of the standards, for an algorithm, its mark and its length. *)
Complete(d, mark, bits) ==
    LET z == CHOOSE n \in 0..63 : (Len(d) + 1 + n + Len(bits)) % 64 = 0
    IN  WholeBlocks(d \o <<mark>> \o Zeros(z) \o bits)

(* Context c, fed with d, is finished: x is its buffer, padded up to next. *)
Ending(c, a, d, p, x, next, limit, mark, bits, length) ==
    /\ a \in Alg /\ d \in Seq(Int) /\ Fed(c, a, d)
    /\ p \in 0..63 /\ Len(Leftover(d)) = p
    /\ mark \in Int /\ next \in (p + 1)..64 /\ PaddedUpTo(x, Leftover(d), p, mark, next)
    /\ limit \in 0..56 /\ (next > limit <=> p + 1 > limit)
    /\ Bytes(length, 8) /\ BitsOf(bits, length, limit)

LEMMA LeftoverSplit ==
  ASSUME NEW d \in Seq(Int), NEW p \in 0..63, Len(Leftover(d)) = p
  PROVE  \E q \in Nat : Split(Len(d), q, p)
<1>1. PICK q \in Nat, r \in 0..63 : Len(d) = 64 * q + r
  BY DivMod, Len(d) \in Nat
<1>2. Len(Leftover(d)) = r
  BY <1>1, LeftoverIs
<1>3. Split(Len(d), q, p)
  BY <1>1, <1>2 DEF Split
<1>4. QED
  BY <1>3

LEMMA FinalIs ==
  ASSUME NEW c, NEW a, NEW d, NEW p, NEW x, NEW next, NEW limit, NEW mark, NEW bits, NEW length,
         Ending(c, a, d, p, x, next, limit, mark, bits, length)
  PROVE  c.hash \o Tag(a, Finish(x, next, limit, length)) = Tag(a, Complete(d, mark, bits))
<1> DEFINE t == Leftover(d)
           z == ZerosFor(Len(d), limit)
           n == BlocksFor(p, limit)
           m == Pad(mark, z, bits)
<1>1. /\ a \in Alg /\ d \in Seq(Int) /\ Fed(c, a, d) /\ p \in 0..63 /\ Len(t) = p
      /\ mark \in Int /\ next \in (p + 1)..64 /\ PaddedUpTo(x, t, p, mark, next)
      /\ limit \in 0..56 /\ (next > limit <=> p + 1 > limit)
      /\ Bytes(length, 8) /\ BitsOf(bits, length, limit)
  BY DEF Ending
<1>2. z \in 0..63 /\ p + 1 + z + (64 - limit) = 64 * n
  <2>1. PICK q \in Nat : Split(Len(d), q, p)
    BY <1>1, LeftoverSplit
  <2>2. QED
    BY <1>1, <2>1, ZeroCount, ZenonT(30)
<1>3. bits \in Seq(Int) /\ Len(bits) = 64 - limit
  BY <1>1 DEF BitsOf
<1>4. Complete(d, mark, bits) = WholeBlocks(d \o <<mark>> \o Zeros(z) \o bits)
  BY <1>3 DEF Complete, ZerosFor
<1>5. n \in 1..2 /\ n = IF next > limit THEN 2 ELSE 1
  BY <1>1 DEF BlocksFor
<1>6. t \in Seq(Int)
  BY <1>1, LeftoverSmall
<1> HIDE DEF z, n, t
<1>7. t \o m \in Seq(Int) /\ EndOfMessage(t \o m, t, p, mark, length, n)
  BY <1>1, <1>2, <1>5, <1>6, EndIs
<1>8. m \in Seq(Int)
  <2>1. z \in Nat /\ 64 - limit \in Nat
    BY <1>1, <1>2
  <2>2. QED
    BY <1>1, <1>3, <2>1, PadIs
<1>9. d \o <<mark>> \o Zeros(z) \o bits = d \o m
  <2>1. z \in Nat
    BY <1>2
  <2>2. QED
    BY <1>1, <1>3, <2>1, PadJoined
<1> HIDE DEF m
<1>10. Finish(x, next, limit, length) = WholeBlocks(t \o m)
  <2>1. PICK u \in Seq(Int) : u = t \o m /\ EndOfMessage(u, t, p, mark, length, n)
    BY <1>7
  <2>2. Finishing(u, t, p, mark, length, x, next, limit, n)
    BY <1>1, <1>5, <2>1 DEF Finishing
  <2>3. QED
    BY <2>1, <2>2, FinishIs
<1>11. Tag(a, WholeBlocks(d \o m)) = Tag(a, WholeBlocks(d)) \o Tag(a, WholeBlocks(t \o m))
  BY <1>1, <1>8, StreamTagged DEF t
<1>12. c.hash = Tag(a, WholeBlocks(d))
  BY <1>1 DEF Fed
<1>13. QED
  BY <1>4, <1>9, <1>10, <1>11, <1>12

LEMMA ByteIs ==
  ASSUME NEW length \in Seq(Int), Len(length) = 8
  PROVE  Bytes(length, 8)
BY BytesIs, 8 \in Nat

(* A digest that marks the next byte, and one that marks the next word. *)
Plain(c, a, d, mark, next, limit, bits, length) ==
    /\ a \in Alg /\ d \in Seq(Int) /\ Fed(c, a, d) /\ mark \in Int
    /\ next = (c.length % 64) + 1 /\ limit \in 0..56
    /\ length \in Seq(Int) /\ Len(length) = 8 /\ BitsOf(bits, length, limit)

LEMMA PlainFinal ==
  ASSUME NEW c, NEW a, NEW d, NEW mark, NEW next, NEW limit, NEW bits, NEW length,
         Plain(c, a, d, mark, next, limit, bits, length)
  PROVE  c.hash \o Tag(a, Finish(PaddedWith(c, mark), next, limit, length))
            = Tag(a, Complete(d, mark, bits))
<1>1. /\ a \in Alg /\ d \in Seq(Int) /\ Fed(c, a, d) /\ mark \in Int
      /\ next = (c.length % 64) + 1 /\ limit \in 0..56
      /\ length \in Seq(Int) /\ Len(length) = 8 /\ BitsOf(bits, length, limit)
  BY DEF Plain
<1>2. PICK p \in 0..63 : Len(Leftover(d)) = p
  BY <1>1, LeftoverSmall
<1>3. c.length % 64 = p /\ PaddedUpTo(PaddedWith(c, mark), Leftover(d), p, mark, p + 1)
  BY <1>1, <1>2, FedBuffers, PaddedIs
<1>4. next = p + 1 /\ next \in (p + 1)..64 /\ Bytes(length, 8)
  BY <1>1, <1>3, ByteIs
<1>5. Ending(c, a, d, p, PaddedWith(c, mark), next, limit, mark, bits, length)
  BY <1>1, <1>2, <1>3, <1>4 DEF Ending
<1>6. QED
  BY <1>5, FinalIs

Worded(c, a, d, bits, length) ==
    /\ a \in Alg /\ d \in Seq(Int) /\ Fed(c, a, d)
    /\ length \in Seq(Int) /\ Len(length) = 8 /\ BitsOf(bits, length, 56)

LEMMA WordFinal ==
  ASSUME NEW c, NEW a, NEW d, NEW bits, NEW length, Worded(c, a, d, bits, length)
  PROVE  c.hash \o Tag(a, Finish(WordPadded(c), WordEnd(c), 56, length))
            = Tag(a, Complete(d, 128, bits))
<1>0. /\ a \in Alg /\ d \in Seq(Int) /\ Fed(c, a, d)
      /\ length \in Seq(Int) /\ Len(length) = 8 /\ BitsOf(bits, length, 56)
  BY DEF Worded
<1>1. PICK p \in 0..63 : Len(Leftover(d)) = p
  BY <1>0, LeftoverSmall
<1>2. Buffers(c, Leftover(d))
  BY <1>0, FedBuffers
<1>3. PaddedUpTo(WordPadded(c), Leftover(d), p, 128, WordEnd(c))
  BY <1>1, <1>2, WordPaddedIs
<1>4. c.length % 64 = p
  BY <1>1, <1>2 DEF Buffers
<1>5. WordEnd(c) \in (p + 1)..64 /\ (WordEnd(c) > 56 <=> p + 1 > 56)
  BY <1>4, WordEndIs
<1>6. Bytes(length, 8) /\ 128 \in Int /\ 56 \in 0..56
  BY <1>0, ByteIs
<1>7. Ending(c, a, d, p, WordPadded(c), WordEnd(c), 56, 128, bits, length)
  BY <1>0, <1>1, <1>3, <1>5, <1>6 DEF Ending
<1>8. QED
  BY <1>7, FinalIs

(* MD5 of md5.c feeds itself with the padding and the length. *)
Mark(n) == [i \in 1..n |-> IF i = 1 THEN 128 ELSE 0]

LEMMA MarkIs ==
  ASSUME NEW z \in Nat
  PROVE  Mark(z + 1) \in Seq(Int) /\ Mark(z + 1) = <<128>> \o Zeros(z)
<1> DEFINE At(i) == IF i = 1 THEN 128 ELSE 0
           v == Mark(z + 1)
           h == <<128>>
           zs == Zeros(z)
           w == h \o zs
<1>1. v = [i \in 1..(z + 1) |-> At(i)]
  BY DEF Mark
<1>2. \A i \in 1..(z + 1) : At(i) \in Int
  OBVIOUS
<1>3. v \in Seq(Int) /\ Len(v) = z + 1 /\ \A i \in 1..(z + 1) : v[i] = At(i)
  <2> HIDE DEF At, v
  <2> QED
    BY <1>1, <1>2
<1> HIDE DEF v
<1>4. PICK one \in Nat : one = 1 /\ h \in Seq(Int) /\ Len(h) = one /\ h[1] = 128
  OBVIOUS
<1>5. zs \in Seq(Int) /\ Len(zs) = z /\ \A i \in 1..z : zs[i] = 0
  BY ZerosAre
<1> HIDE DEF h, zs
<1>6. w \in Seq(Int) /\ Len(w) = one + z /\ Joins(w, h, one, zs, z)
  <2>1. h \in Seq(Int) /\ zs \in Seq(Int) /\ Len(h) = one /\ Len(zs) = z
    BY <1>4, <1>5
  <2>2. QED
    BY <2>1, JoinsIs
<1> HIDE DEF w
<1>7. ASSUME NEW i \in 1..(z + 1) PROVE v[i] = w[i]
  <2>1. CASE i = 1
    <3>1. w[1] = 128
      BY <1>4, <1>6 DEF Joins
    <3>2. QED
      BY <1>3, <2>1, <3>1
  <2>2. CASE i # 1
    <3>1. PICK j \in 1..z : i = 1 + j
      <4>1. i - 1 \in 1..z /\ i = 1 + (i - 1)
        BY <2>2
      <4>2. QED
        BY <4>1
    <3>2. w[1 + j] = zs[j]
      BY <1>4, <1>6 DEF Joins
    <3>3. zs[j] = 0
      BY <1>5
    <3>4. v[i] = 0
      BY <1>3, <2>2
    <3>5. QED
      BY <3>1, <3>2, <3>3, <3>4
  <2>3. QED
    BY <2>1, <2>2
<1>8. Len(v) = z + 1 /\ Len(w) = z + 1
  BY <1>3, <1>4, <1>6
<1>9. v = w
  BY <1>3, <1>6, <1>7, <1>8, SameSeq
<1>10. QED
  BY <1>3, <1>9 DEF v, w, h, zs

LEMMA SelfFed ==
  ASSUME NEW c, NEW a \in Alg, a = "md5", NEW d \in Seq(Int), Fed(c, a, d), NEW m \in Seq(Int)
  PROVE  Fed(MD5Update(c, m), a, d \o m)
<1>1. MD5Update(c, m) = Updated(c, m, c.hash \o Tag(a, FillBlocks(c, m)), FillBuffer(c, m))
  BY DEF MD5Update, MD5Transform, Tag
<1>2. QED
  BY <1>1, FillFed

LEMMA SelfFinal ==
  ASSUME NEW c, NEW a \in Alg, a = "md5", NEW d \in Seq(Int), Fed(c, a, d),
         NEW bits \in Seq(Int), Len(bits) = 8, bits = LE64(8 * c.length)
  PROVE  MD5Final(c) = Tag(a, Complete(d, 128, bits))
<1> DEFINE z == ZerosFor(Len(d), 56)
           mk == Mark(z + 1)
           h == <<128>>
           zs == Zeros(z)
<1>1. PICK p \in 0..63 : Len(Leftover(d)) = p /\ p = Len(d) % 64
  BY LeftoverSmall
<1>2. c.length = Len(d) /\ c.length % 64 = p
  BY <1>1 DEF Fed
<1>3. z \in 0..63 /\ z + 1 = IF p < 56 THEN 56 - p ELSE 120 - p
  <2>1. PICK q \in Nat : Split(Len(d), q, p)
    BY <1>1, LeftoverSplit
  <2>2. z \in 0..63 /\ p + 1 + z + (64 - 56) = 64 * BlocksFor(p, 56)
    BY <2>1, ZeroCount, 56 \in 0..56
  <2>3. BlocksFor(p, 56) = IF p + 1 > 56 THEN 2 ELSE 1
    BY DEF BlocksFor
  <2> HIDE DEF z
  <2>4. QED
    BY <2>2, <2>3
<1>4. Complete(d, 128, bits) = WholeBlocks(d \o h \o zs \o bits)
  <2>1. Len(bits) = 64 - 56
    OBVIOUS
  <2>2. QED
    BY <2>1 DEF Complete, ZerosFor
<1> HIDE DEF z
<1>5. mk \in Seq(Int) /\ mk = h \o zs /\ h \in Seq(Int) /\ zs \in Seq(Int)
  <2>1. z \in Nat /\ <<128>> \in Seq(Int)
    BY <1>3
  <2>2. QED
    BY <2>1, MarkIs, ZerosAre
<1>6. MD5Final(c) = MD5Update(MD5Update(c, mk), bits).hash
  <2>1. mk = [i \in 1..(IF p < 56 THEN 56 - p ELSE 120 - p) |-> IF i = 1 THEN 128 ELSE 0]
    BY <1>3 DEF Mark
  <2> HIDE DEF mk
  <2>2. QED
    BY <1>2, <2>1 DEF MD5Final
<1> HIDE DEF mk, h, zs
<1>7. Fed(MD5Update(c, mk), a, d \o mk) /\ d \o mk \in Seq(Int)
  BY <1>5, SelfFed, Joined
<1>8. Fed(MD5Update(MD5Update(c, mk), bits), a, (d \o mk) \o bits)
  BY <1>7, SelfFed
<1>9. MD5Final(c) = Tag(a, WholeBlocks((d \o mk) \o bits))
  BY <1>6, <1>8 DEF Fed
<1>10. (d \o h) \o zs = d \o mk
  BY <1>5, Assoc, ZenonT(30)
<1>11. QED
  BY <1>4, <1>9, <1>10

-----------------------------------------------------------------------------
(* What every final compresses. *)
FinalOf(a, c) ==
    CASE a = "md5" -> MD5Final(c)
      [] a = "rjmd5" -> rhash_md5_final(c)
      [] a = "sha1" -> rhash_sha1_final(c)
      [] a = "tiger" -> rhash_tiger_final(c)
      [] a = "whirlpool" -> rhash_whirlpool_final(c)
      [] a = "ripemd128" -> ampheck_ripemd128_finish(c)

Marked(a, d, little, big, wide, mark, bits) ==
    /\ little = LE64(8 * Len(d)) /\ big = BE64(8 * Len(d)) /\ wide = Zeros(24) \o big
    /\ mark = (IF a = "tiger" THEN 1 ELSE 128)
    /\ bits = (IF a = "sha1" THEN big ELSE IF a = "whirlpool" THEN wide ELSE little)

LEMMA StandardIs ==
  ASSUME NEW a, NEW d, NEW little, NEW big, NEW wide, NEW mark, NEW bits,
         Marked(a, d, little, big, wide, mark, bits)
  PROVE  StandardBlocks(a, d) = Tag(a, Complete(d, mark, bits))
<1> DEFINE m0 == IF a = "tiger" THEN 1 ELSE 128
           b0 == CASE a = "sha1" -> BE64(8 * Len(d))
                   [] a = "whirlpool" -> [i \in 1..24 |-> 0] \o BE64(8 * Len(d))
                   [] OTHER -> LE64(8 * Len(d))
<1>0. /\ little = LE64(8 * Len(d)) /\ big = BE64(8 * Len(d)) /\ wide = Zeros(24) \o big
      /\ mark = (IF a = "tiger" THEN 1 ELSE 128)
      /\ bits = (IF a = "sha1" THEN big ELSE IF a = "whirlpool" THEN wide ELSE little)
  BY DEF Marked
<1>1. m0 = mark
  BY <1>0
<1>2. b0 = bits
  <2>1. wide = [i \in 1..24 |-> 0] \o BE64(8 * Len(d))
    BY <1>0 DEF Zeros
  <2>2. CASE a = "sha1"
    BY <1>0, <2>2
  <2>3. CASE a = "whirlpool"
    BY <1>0, <2>1, <2>3
  <2>4. CASE a # "sha1" /\ a # "whirlpool"
    BY <1>0, <2>4
  <2>5. QED
    BY <2>2, <2>3, <2>4
<1>3. StandardBlocks(a, d) = Tag(a, Complete(d, m0, b0))
  BY DEF StandardBlocks, Complete, Tag, Zeros
<1>4. QED
  BY <1>1, <1>2, <1>3

LEMMA AlgIs ==
  ASSUME NEW a \in Alg
  PROVE  \/ a = "md5" \/ a = "rjmd5" \/ a = "sha1"
         \/ a = "tiger" \/ a = "whirlpool" \/ a = "ripemd128"
BY DEF Alg

LEMMA FinalIsStandard ==
  ASSUME NEW a \in Alg, NEW c, NEW d \in Seq(Int), Fed(c, a, d)
  PROVE  FinalOf(a, c) = StandardBlocks(a, d)
<1>1. c.length = Len(d) /\ 8 * Len(d) \in Nat /\ a \in Alg
  BY DEF Fed
<1> DEFINE little == LE64(8 * Len(d))
           big == BE64(8 * Len(d))
           wide == Zeros(24) \o big
<1>2. little \in Seq(Int) /\ Len(little) = 8 /\ big \in Seq(Int) /\ Len(big) = 8
  BY <1>1, LittleIs, BigIs
<1>3. BitsOf(little, little, 56) /\ BitsOf(big, big, 56) /\ BitsOf(wide, big, 32)
  <2> HIDE DEF little, big
  <2> QED
    BY <1>2, WholeBits, WideBits
<1>4. little = LE64(8 * c.length) /\ big = BE64(8 * c.length)
  BY <1>1
<1>5. PICK one \in Int, top \in Int, low \in 0..56, high \in 0..56 :
        one = 1 /\ top = 128 /\ low = 32 /\ high = 56
  OBVIOUS
<1>6. /\ a = "sha1" => StandardBlocks(a, d) = Tag(a, Complete(d, top, big))
      /\ a = "whirlpool" => StandardBlocks(a, d) = Tag(a, Complete(d, top, wide))
      /\ a = "tiger" => StandardBlocks(a, d) = Tag(a, Complete(d, one, little))
      /\ a \in {"md5", "rjmd5", "ripemd128"}
            => StandardBlocks(a, d) = Tag(a, Complete(d, top, little))
  <2> DEFINE mark == IF a = "tiger" THEN one ELSE top
             bits == IF a = "sha1" THEN big ELSE IF a = "whirlpool" THEN wide ELSE little
  <2>1. StandardBlocks(a, d) = Tag(a, Complete(d, mark, bits))
    <3>1. Marked(a, d, little, big, wide, mark, bits)
      BY <1>5 DEF Marked
    <3> HIDE DEF little, big, wide, mark, bits
    <3>2. QED
      BY <3>1, StandardIs
  <2> HIDE DEF little, big, wide
  <2>2. QED
    BY <2>1
<1>7. CASE a = "md5"
  <2>1. FinalOf(a, c) = MD5Final(c)
    BY <1>7 DEF FinalOf
  <2>2. MD5Final(c) = Tag(a, Complete(d, 128, little))
    <3>1. PICK bits \in Seq(Int) : bits = little /\ Len(bits) = 8 /\ bits = LE64(8 * c.length)
      BY <1>2, <1>4
    <3> HIDE DEF little, big, wide
    <3>2. QED
      BY <1>1, <1>7, <3>1, SelfFinal, ZenonT(30)
  <2>3. QED
    BY <1>5, <1>6, <1>7, <2>1, <2>2
<1>8. CASE a = "rjmd5"
  <2>1. FinalOf(a, c) = c.hash \o Tag(a, Finish(WordPadded(c), WordEnd(c), 56, little))
    BY <1>4, <1>5, <1>8 DEF FinalOf, rhash_md5_final, rhash_md5_process_block, Tag
  <2> HIDE DEF little, big, wide
  <2>2. Worded(c, a, d, little, little)
    BY <1>1, <1>2, <1>3 DEF Worded
  <2>3. c.hash \o Tag(a, Finish(WordPadded(c), WordEnd(c), 56, little))
          = Tag(a, Complete(d, 128, little))
    BY <2>2, WordFinal
  <2>4. QED
    BY <1>5, <1>6, <1>8, <2>1, <2>3
<1>9. CASE a = "sha1"
  <2>1. FinalOf(a, c) = c.hash \o Tag(a, Finish(WordPadded(c), WordEnd(c), 56, big))
    BY <1>4, <1>5, <1>9 DEF FinalOf, rhash_sha1_final, rhash_sha1_process_block, Tag
  <2> HIDE DEF little, big, wide
  <2>2. Worded(c, a, d, big, big)
    BY <1>1, <1>2, <1>3 DEF Worded
  <2>3. c.hash \o Tag(a, Finish(WordPadded(c), WordEnd(c), 56, big))
          = Tag(a, Complete(d, 128, big))
    BY <2>2, WordFinal
  <2>4. QED
    BY <1>5, <1>6, <1>9, <2>1, <2>3
<1>10. CASE a = "tiger"
  <2>0. PICK next \in Int : next = (c.length % 64) + 1
    BY <1>1
  <2>1. FinalOf(a, c) = c.hash \o Tag(a, Finish(PaddedWith(c, one), next, high, little))
    BY <1>4, <1>5, <2>0, <1>10 DEF FinalOf, rhash_tiger_final, rhash_tiger_process_block, Tag
  <2> HIDE DEF little, big, wide
  <2>2. Plain(c, a, d, one, next, high, little, little)
    BY <1>1, <1>2, <1>3, <1>5, <2>0 DEF Plain
  <2>3. c.hash \o Tag(a, Finish(PaddedWith(c, one), next, high, little))
          = Tag(a, Complete(d, one, little))
    BY <2>2, PlainFinal
  <2>4. QED
    BY <1>5, <1>6, <1>10, <2>1, <2>3
<1>11. CASE a = "whirlpool"
  <2>0. PICK next \in Int : next = (c.length % 64) + 1
    BY <1>1
  <2>1. FinalOf(a, c) = c.hash \o Tag(a, Finish(PaddedWith(c, top), next, low, big))
    BY <1>4, <1>5, <2>0, <1>11 DEF FinalOf, rhash_whirlpool_final, rhash_whirlpool_process_block, Tag
  <2> HIDE DEF little, big, wide
  <2>2. Plain(c, a, d, top, next, low, wide, big)
    BY <1>1, <1>2, <1>3, <1>5, <2>0 DEF Plain
  <2>3. c.hash \o Tag(a, Finish(PaddedWith(c, top), next, low, big))
          = Tag(a, Complete(d, top, wide))
    BY <2>2, PlainFinal
  <2>4. QED
    BY <1>5, <1>6, <1>11, <2>1, <2>3
<1>12. CASE a = "ripemd128"
  <2>0. PICK next \in Int : next = (c.length % 64) + 1
    BY <1>1
  <2>1. FinalOf(a, c) = c.hash \o Tag(a, Finish(PaddedWith(c, top), next, high, little))
    BY <1>4, <1>5, <2>0, <1>12 DEF FinalOf, ampheck_ripemd128_finish, ampheck_ripemd128_transform, Tag
  <2> HIDE DEF little, big, wide
  <2>2. Plain(c, a, d, top, next, high, little, little)
    BY <1>1, <1>2, <1>3, <1>5, <2>0 DEF Plain
  <2>3. c.hash \o Tag(a, Finish(PaddedWith(c, top), next, high, little))
          = Tag(a, Complete(d, top, little))
    BY <2>2, PlainFinal
  <2>4. QED
    BY <1>5, <1>6, <1>12, <2>1, <2>3
<1>13. QED
  BY <1>7, <1>8, <1>9, <1>10, <1>11, <1>12, AlgIs

-----------------------------------------------------------------------------
(* The inductive invariant: every context was fed with the whole message. *)
HashInv ==
    /\ data \in Seq(Int)
    /\ \A a \in Alg : Fed(ctx[a], a, data)

LEMMA EmptyFed ==
  ASSUME NEW a \in Alg
  PROVE  Fed(NewContext, a, <<>>)
<1>1. /\ <<>> \in Seq(Int) /\ Len(<<>>) = 0 /\ 0 = 64 * 0 + 0 /\ 0 \in Nat /\ 0 \in 0..63
      /\ -1 \in Int
  OBVIOUS
<1>2. WholeBlocks(<<>>) = <<>>
  BY DEF WholeBlocks
<1>3. Tag(a, <<>>) = <<>>
  BY DEF Tag
<1>4. Len(Leftover(<<>>)) = 0
  <2>1. PICK u \in Seq(Int) : u = <<>> /\ Len(u) = 0
    BY <1>1
  <2>2. Len(Leftover(u)) = Len(u) % 64 /\ 0 % 64 = 0
    BY LeftoverSmall
  <2>3. QED
    BY <2>1, <2>2
<1>5. Holds(NewContext.message, Leftover(<<>>))
  BY <1>1, <1>4 DEF Holds, Starts, NewContext, Junk, Block
<1>6. QED
  BY <1>1, <1>2, <1>3, <1>5 DEF Fed, NewContext

LEMMA FeedKeeps ==
  ASSUME HashInv, NEW size \in Chunk, NEW aligned \in BOOLEAN, Feed(size, aligned)
  PROVE  HashInv'
<1> DEFINE chunk == [i \in 1..size |-> 255 + Len(data) + i]
           u == data \o chunk
<1>1. data \in Seq(Int) /\ size \in Nat
  BY ChunkAssumption DEF HashInv
<1>2. chunk \in Seq(Int)
  <2>1. \A i \in 1..size : 255 + Len(data) + i \in Int
    BY <1>1
  <2>2. QED
    BY <1>1, <2>1
<1>3. u \in Seq(Int) /\ data' = u
  <2>1. data' = u
    BY DEF Feed
  <2> HIDE DEF chunk
  <2>2. QED
    BY <1>1, <1>2, <2>1, Joined
<1>4. /\ ctx'["md5"] = MD5Update(ctx["md5"], chunk)
      /\ ctx'["rjmd5"] = rhash_md5_update(ctx["rjmd5"], chunk, aligned)
      /\ ctx'["sha1"] = rhash_sha1_update(ctx["sha1"], chunk, aligned)
      /\ ctx'["tiger"] = rhash_tiger_update(ctx["tiger"], chunk, aligned)
      /\ ctx'["whirlpool"] = rhash_whirlpool_update(ctx["whirlpool"], chunk, aligned)
      /\ ctx'["ripemd128"] = ampheck_ripemd128_update(ctx["ripemd128"], chunk)
  BY DEF Feed
<1> HIDE DEF chunk
<1>5. \A a \in Alg : Fed(ctx[a], a, data)
  BY DEF HashInv
<1>6. ASSUME NEW a \in Alg, a = "md5", Fed(ctx[a], a, data) PROVE Fed(ctx'[a], a, u)
  <2>1. ctx'[a] = Updated(ctx[a], chunk, ctx[a].hash \o Tag(a, FillBlocks(ctx[a], chunk)),
                          FillBuffer(ctx[a], chunk))
    BY <1>4, <1>6 DEF MD5Update, MD5Transform, Tag
  <2>2. QED
    BY <1>1, <1>2, <1>6, <2>1, FillFed
<1>7. ASSUME NEW a \in Alg, a = "rjmd5", Fed(ctx[a], a, data) PROVE Fed(ctx'[a], a, u)
  <2>1. ctx'[a] = Updated(ctx[a], chunk, ctx[a].hash \o Tag(a, RhashBlocks(ctx[a], chunk)),
                          RhashBuffer(ctx[a], chunk, aligned))
    BY <1>4, <1>7 DEF rhash_md5_update, rhash_md5_process_block, Tag
  <2>2. QED
    BY <1>1, <1>2, <1>7, <2>1, RhashFed
<1>8. ASSUME NEW a \in Alg, a = "sha1", Fed(ctx[a], a, data) PROVE Fed(ctx'[a], a, u)
  <2>1. ctx'[a] = Updated(ctx[a], chunk, ctx[a].hash \o Tag(a, RhashBlocks(ctx[a], chunk)),
                          RhashBuffer(ctx[a], chunk, aligned))
    BY <1>4, <1>8 DEF rhash_sha1_update, rhash_sha1_process_block, Tag
  <2>2. QED
    BY <1>1, <1>2, <1>8, <2>1, RhashFed
<1>9. ASSUME NEW a \in Alg, a = "tiger", Fed(ctx[a], a, data) PROVE Fed(ctx'[a], a, u)
  <2>1. ctx'[a] = Updated(ctx[a], chunk, ctx[a].hash \o Tag(a, RhashBlocks(ctx[a], chunk)),
                          RhashBuffer(ctx[a], chunk, aligned))
    BY <1>4, <1>9 DEF rhash_tiger_update, rhash_tiger_process_block, Tag
  <2>2. QED
    BY <1>1, <1>2, <1>9, <2>1, RhashFed
<1>10. ASSUME NEW a \in Alg, a = "whirlpool", Fed(ctx[a], a, data) PROVE Fed(ctx'[a], a, u)
  <2>1. ctx'[a] = Updated(ctx[a], chunk, ctx[a].hash \o Tag(a, RhashBlocks(ctx[a], chunk)),
                          RhashBuffer(ctx[a], chunk, aligned))
    BY <1>4, <1>10 DEF rhash_whirlpool_update, rhash_whirlpool_process_block, Tag
  <2>2. QED
    BY <1>1, <1>2, <1>10, <2>1, RhashFed
<1>11. ASSUME NEW a \in Alg, a = "ripemd128", Fed(ctx[a], a, data) PROVE Fed(ctx'[a], a, u)
  <2>1. ctx'[a] = Updated(ctx[a], chunk, ctx[a].hash \o Tag(a, FillBlocks(ctx[a], chunk)),
                          FillBuffer(ctx[a], chunk))
    BY <1>4, <1>11 DEF ampheck_ripemd128_update, ampheck_ripemd128_transform, Tag
  <2>2. QED
    BY <1>1, <1>2, <1>11, <2>1, FillFed
<1>12. \A a \in Alg : Fed(ctx'[a], a, u)
  <2>1. SUFFICES ASSUME NEW a \in Alg PROVE Fed(ctx'[a], a, u)
    OBVIOUS
  <2>2. Fed(ctx[a], a, data)
    BY <1>5
  <2>3. \/ a = "md5" \/ a = "rjmd5" \/ a = "sha1"
        \/ a = "tiger" \/ a = "whirlpool" \/ a = "ripemd128"
    BY AlgIs
  <2>4. QED
    BY <1>6, <1>7, <1>8, <1>9, <1>10, <1>11, <2>2, <2>3
<1>13. data' \in Seq(Int) /\ \A a \in Alg : Fed(ctx'[a], a, data')
  BY <1>3, <1>12
<1>14. QED
  BY <1>13 DEF HashInv, Fed, Holds, Starts

LEMMA HashInvGives ==
  ASSUME HashInv
  PROVE  DigestIsOfWholeMessage
<1>1. ASSUME NEW a \in Alg PROVE Final(a) = StandardBlocks(a, data)
  <2>1. Final(a) = FinalOf(a, ctx[a])
    BY DEF Final, FinalOf, Alg
  <2>2. QED
    BY <2>1, FinalIsStandard DEF HashInv
<1>2. QED
  BY <1>1 DEF DigestIsOfWholeMessage

(* However a message is cut into calls of the update functions, aligned or not,
   each of the six digests compresses exactly the padded blocks of its standard. *)
THEOREM DigestsAreOfWholeMessage == HashSpec => []DigestIsOfWholeMessage
<1>1. InitContexts => HashInv
  <2>1. SUFFICES ASSUME InitContexts PROVE HashInv
    OBVIOUS
  <2>2. data = <<>> /\ <<>> \in Seq(Int)
    BY <2>1 DEF InitContexts
  <2>3. \A a \in Alg : ctx[a] = NewContext
    BY <2>1 DEF InitContexts, Alg, MD5Init, rhash_md5_init, rhash_sha1_init, rhash_tiger_init,
       rhash_whirlpool_init, ampheck_ripemd128_init
  <2>4. QED
    BY <2>2, <2>3, EmptyFed DEF HashInv
<1>2. HashInv /\ [HashNext]_hash_vars => HashInv'
  <2>1. SUFFICES ASSUME HashInv, [HashNext]_hash_vars PROVE HashInv'
    OBVIOUS
  <2>2. CASE UNCHANGED hash_vars
    BY <2>1, <2>2 DEF hash_vars, HashInv, Fed, Holds, Starts
  <2>3. CASE HashNext
    BY <2>1, <2>3, FeedKeeps DEF HashNext
  <2>4. QED
    BY <2>1, <2>2, <2>3
<1>3. HashInv => DigestIsOfWholeMessage
  BY HashInvGives
<1>4. QED
  BY <1>1, <1>2, <1>3, PTL DEF HashSpec

-----------------------------------------------------------------------------
(* What computeV4 writes, as rows of opaque bytes: x has n of them, the set R
   among them.                                                               *)
Table == {"array", "array_1"}
DigestByte == Alg \X Table \X (1..24)
SentByte(i) == <<"s", i>>
SentDigits(i) == {<<"s", i, "high">>, <<"s", i, "low">>}
SentDigit == UNION {SentDigits(i) : i \in 1..16}
Filler == {<<"f">>}
Token ==
    DigestByte \cup (DigestByte \X {"high", "low"}) \cup {SentByte(i) : i \in 1..16}
    \cup SentDigit \cup Filler
Row(x, n, R) == x \in Seq(Token) /\ Len(x) = n /\ R \subseteq Range(x)

LEMMA TokensJoined ==
  ASSUME NEW x \in Seq(Token), NEW y \in Seq(Token), NEW n \in Nat, NEW m \in Nat,
         Len(x) = n, Len(y) = m
  PROVE  /\ x \o y \in Seq(Token) /\ Len(x \o y) = n + m
         /\ \A i \in 1..n : (x \o y)[i] = x[i]
         /\ \A i \in 1..m : (x \o y)[n + i] = y[i]
OBVIOUS

LEMMA TokenIn ==
  ASSUME NEW x \in Seq(Token), NEW n \in Nat, Len(x) = n
  PROVE  \A t : t \in Range(x) <=> \E i \in 1..n : x[i] = t
BY DEF Range

LEMMA RowJoined ==
  ASSUME NEW x, NEW y, NEW n \in Nat, NEW m \in Nat, NEW R, NEW T, Row(x, n, R), Row(y, m, T)
  PROVE  Row(x \o y, n + m, R \cup T)
<1> DEFINE w == x \o y
<1>1. /\ x \in Seq(Token) /\ Len(x) = n /\ R \subseteq Range(x)
      /\ y \in Seq(Token) /\ Len(y) = m /\ T \subseteq Range(y)
  BY DEF Row
<1>2. /\ w \in Seq(Token) /\ Len(w) = n + m
      /\ \A i \in 1..n : w[i] = x[i]
      /\ \A i \in 1..m : w[n + i] = y[i]
  BY <1>1, TokensJoined
<1> HIDE DEF w
<1>3. PICK k \in Nat : k = n + m
  OBVIOUS
<1>4. ASSUME NEW t \in R PROVE t \in Range(w)
  <2>1. PICK i \in 1..n : x[i] = t
    BY <1>1, TokenIn
  <2>2. i \in 1..k /\ w[i] = t
    BY <1>2, <1>3, <2>1
  <2>3. QED
    BY <1>2, <1>3, <2>2, TokenIn
<1>5. ASSUME NEW t \in T PROVE t \in Range(w)
  <2>1. PICK i \in 1..m : y[i] = t
    BY <1>1, TokenIn
  <2>2. PICK j \in 1..k : j = n + i
    BY <1>3
  <2>3. w[j] = t
    BY <1>2, <2>1, <2>2
  <2>4. QED
    BY <1>2, <1>3, <2>3, TokenIn
<1>6. Row(w, n + m, R \cup T)
  BY <1>2, <1>4, <1>5 DEF Row
<1>7. QED
  BY <1>6 DEF w

LEMMA SeqOfTokens ==
  ASSUME NEW n \in Nat, NEW F, F \in [1..n -> Token]
  PROVE  F \in Seq(Token) /\ Len(F) = n
OBVIOUS

LEMMA DigestRow ==
  ASSUME NEW a \in Alg, NEW table \in Table, NEW n \in 1..24
  PROVE  Row(Digest(a, table, n), n, {})
<1> DEFINE x == Digest(a, table, n)
<1>1. ASSUME NEW i \in 1..n PROVE <<a, table, i>> \in Token
  <2>1. i \in 1..24
    OBVIOUS
  <2>2. QED
    BY <2>1 DEF Token, DigestByte
<1>2. x \in [1..n -> Token]
  BY <1>1 DEF Digest
<1> HIDE DEF x
<1>3. n \in Nat
  OBVIOUS
<1>4. x \in Seq(Token) /\ Len(x) = n
  BY <1>2, <1>3, SeqOfTokens
<1>5. Row(x, n, {})
  BY <1>4 DEF Row
<1>6. QED
  BY <1>5 DEF x

LEMMA HexRow ==
  ASSUME NEW a \in Alg, NEW table \in Table
  PROVE  Row(Hex(Digest(a, table, 16)), 32, {})
<1> DEFINE x == Digest(a, table, 16)
           h == Hex(x)
<1>1. Len(x) = 16 /\ \A i \in 1..16 : x[i] = <<a, table, i>>
  <2>1. \A i \in 1..16 : x[i] = <<a, table, i>>
    BY DEF Digest
  <2>2. Row(x, 16, {})
    BY DigestRow, 16 \in 1..24
  <2>3. QED
    BY <2>1, <2>2 DEF Row
<1> HIDE DEF x
<1>2. ASSUME NEW k \in 1..32
      PROVE  <<x[(k + 1) \div 2], IF k % 2 = 1 THEN "high" ELSE "low">> \in Token
  <2>1. PICK i \in 1..16 : i = (k + 1) \div 2
    OBVIOUS
  <2>2. x[i] \in DigestByte
    <3>1. i \in 1..24 /\ x[i] = <<a, table, i>>
      BY <1>1
    <3>2. QED
      BY <3>1 DEF DigestByte
  <2>3. (IF k % 2 = 1 THEN "high" ELSE "low") \in {"high", "low"}
    OBVIOUS
  <2>4. <<x[i], IF k % 2 = 1 THEN "high" ELSE "low">> \in DigestByte \X {"high", "low"}
    BY <2>2, <2>3
  <2>5. QED
    BY <2>1, <2>4 DEF Token
<1>3. h = [k \in 1..32 |-> <<x[(k + 1) \div 2], IF k % 2 = 1 THEN "high" ELSE "low">>]
  BY <1>1, 2 * 16 = 32 DEF Hex
<1>4. h \in [1..32 -> Token]
  BY <1>2, <1>3
<1> HIDE DEF h
<1>5. h \in Seq(Token) /\ Len(h) = 32
  BY <1>4, SeqOfTokens, 32 \in Nat
<1>6. Row(h, 32, {})
  BY <1>5 DEF Row
<1>7. QED
  BY <1>6 DEF h, x

LEMMA RawRow ==
  ASSUME NEW from \in 1..16, NEW to \in from..16, NEW n \in 1..16, n = to - from + 1
  PROVE  Row(Raw(from, to), n, {SentByte(i) : i \in from..to})
<1> DEFINE x == Raw(from, to)
<1>1. x = [k \in 1..n |-> SentByte(from + k - 1)]
  BY DEF Raw, SentByte
<1>2. ASSUME NEW k \in 1..n PROVE SentByte(from + k - 1) \in Token
  <2>1. from + k - 1 \in 1..16
    OBVIOUS
  <2>2. QED
    BY <2>1 DEF Token
<1>3. x \in [1..n -> Token]
  BY <1>1, <1>2
<1>4. x \in Seq(Token) /\ Len(x) = n
  <2> HIDE DEF x
  <2> QED
    BY <1>3, SeqOfTokens, n \in Nat
<1>5. ASSUME NEW i \in from..to PROVE SentByte(i) \in Range(x)
  <2>1. PICK k \in 1..n : from + k - 1 = i
    <3>1. i - from + 1 \in 1..n /\ from + (i - from + 1) - 1 = i
      OBVIOUS
    <3>2. QED
      BY <3>1
  <2>2. x[k] = SentByte(i)
    BY <1>1, <2>1
  <2> HIDE DEF x
  <2>3. QED
    BY <1>4, <2>2, TokenIn, n \in Nat
<1> HIDE DEF x
<1>6. Row(x, n, {SentByte(i) : i \in from..to})
  BY <1>4, <1>5 DEF Row
<1>7. QED
  BY <1>6 DEF x

(* The digits of one byte of the challenge, and of every second one. *)
Challenged == s \in [1..16 -> 0..255]
Width(i) == IF s[i] < 128 THEN 2 ELSE 8
Widths(i) == Width(i) + Width(i + 2) + Width(i + 4) + Width(i + 6)
             + Width(i + 8) + Width(i + 10) + Width(i + 12) + Width(i + 14)
Digits8(i) == SentDigits(i) \cup SentDigits(i + 2) \cup SentDigits(i + 4) \cup SentDigits(i + 6)
              \cup SentDigits(i + 8) \cup SentDigits(i + 10) \cup SentDigits(i + 12)
              \cup SentDigits(i + 14)

LEMMA PairRow ==
  ASSUME NEW i \in 1..16
  PROVE  Row(<<<<"s", i, "high">>, <<"s", i, "low">>>>, 2, SentDigits(i))
<1> DEFINE x == <<<<"s", i, "high">>, <<"s", i, "low">>>>
<1>1. <<"s", i, "high">> \in Token /\ <<"s", i, "low">> \in Token
  <2>1. SentDigits(i) \subseteq SentDigit
    BY DEF SentDigit
  <2>2. SentDigits(i) \subseteq Token
    BY <2>1 DEF Token
  <2>3. QED
    BY <2>2 DEF SentDigits
<1>2. ASSUME NEW u \in Token, NEW v \in Token
      PROVE  /\ <<u, v>> \in Seq(Token) /\ Len(<<u, v>>) = 2
             /\ u \in Range(<<u, v>>) /\ v \in Range(<<u, v>>)
  <2>1. <<u, v>> \in Seq(Token) /\ Len(<<u, v>>) = 2 /\ <<u, v>>[1] = u /\ <<u, v>>[2] = v
    OBVIOUS
  <2>2. 1 \in 1..2 /\ 2 \in 1..2 /\ 2 \in Nat
    OBVIOUS
  <2>3. QED
    BY <2>1, <2>2, TokenIn
<1>3. QED
  BY <1>1, <1>2 DEF Row, SentDigits

LEMMA WideRow == Row([k \in 1..6 |-> <<"f">>], 6, {})
<1> DEFINE x == [k \in 1..6 |-> <<"f">>]
<1>1. <<"f">> \in Token
  <2>1. <<"f">> \in Filler
    BY DEF Filler
  <2>2. QED
    BY <2>1 DEF Token
<1>2. x \in [1..6 -> Token]
  BY <1>1
<1> HIDE DEF x
<1>3. x \in Seq(Token) /\ Len(x) = 6
  BY <1>2, SeqOfTokens, 6 \in Nat
<1>4. Row(x, 6, {})
  BY <1>3 DEF Row
<1>5. QED
  BY <1>4 DEF x

LEMMA SignedRow ==
  ASSUME Challenged, NEW i \in 1..16
  PROVE  Row(HexOfSigned(i), Width(i), SentDigits(i)) /\ Width(i) \in {2, 8}
<1> DEFINE x == <<<<"s", i, "high">>, <<"s", i, "low">>>>
           f == [k \in 1..6 |-> <<"f">>]
<1>1. Row(x, 2, SentDigits(i)) /\ Row(f, 6, {})
  BY PairRow, WideRow
<1>2. HexOfSigned(i) = IF s[i] < 128 THEN x ELSE f \o x
  BY DEF HexOfSigned
<1> HIDE DEF x, f
<1>3. Row(f \o x, 8, SentDigits(i))
  <2>1. Row(f \o x, 6 + 2, {} \cup SentDigits(i))
    BY <1>1, RowJoined, 6 \in Nat, 2 \in Nat
  <2>2. 6 + 2 = 8 /\ {} \cup SentDigits(i) = SentDigits(i)
    OBVIOUS
  <2>3. QED
    BY <2>1, <2>2
<1>4. CASE s[i] < 128
  BY <1>1, <1>2, <1>4 DEF Width
<1>5. CASE ~(s[i] < 128)
  BY <1>2, <1>3, <1>5 DEF Width
<1>6. QED
  BY <1>4, <1>5

LEMMA EverySecondRow ==
  ASSUME Challenged, NEW i \in 1..2
  PROVE  Row(EverySecond(i), Widths(i), Digits8(i)) /\ Widths(i) \in Nat
<1>1. \A k \in 1..16 : Row(HexOfSigned(k), Width(k), SentDigits(k)) /\ Width(k) \in Nat
  <2>1. \A k \in 1..16 : Width(k) \in Nat
    BY DEF Width
  <2>2. QED
    BY <2>1, SignedRow
<1> DEFINE h(k) == HexOfSigned(k)
           w(k) == Width(k)
           d(k) == SentDigits(k)
           j2 == i + 2
           j3 == i + 4
           j4 == i + 6
           j5 == i + 8
           j6 == i + 10
           j7 == i + 12
           j8 == i + 14
<1>2. /\ i \in 1..16 /\ j2 \in 1..16 /\ j3 \in 1..16 /\ j4 \in 1..16
      /\ j5 \in 1..16 /\ j6 \in 1..16 /\ j7 \in 1..16 /\ j8 \in 1..16
  OBVIOUS
<1> HIDE DEF h, w, d, j2, j3, j4, j5, j6, j7, j8
<1>3. \A k \in 1..16 : Row(h(k), w(k), d(k)) /\ w(k) \in Nat
  BY <1>1 DEF h, w, d
<1>4. PICK n2 \in Nat :
        /\ n2 = w(i) + w(j2)
        /\ Row(h(i) \o h(j2), n2,
               d(i) \cup d(j2))
  <2>1. /\ Row(h(i), w(i), d(i)) /\ w(i) \in Nat
        /\ Row(h(j2), w(j2), d(j2)) /\ w(j2) \in Nat
    BY <1>2, <1>3
  <2>2. Row(h(i) \o h(j2), w(i) + w(j2), d(i) \cup d(j2))
    BY <2>1, RowJoined
  <2>3. QED
    BY <2>1, <2>2
<1>5. PICK n3 \in Nat :
        /\ n3 = n2 + w(j3)
        /\ Row(h(i) \o h(j2) \o h(j3), n3,
               d(i) \cup d(j2) \cup d(j3))
  <2>1. Row(h(j3), w(j3), d(j3)) /\ w(j3) \in Nat
    BY <1>2, <1>3
  <2>2. Row(h(i) \o h(j2) \o h(j3),
            n2 + w(j3), d(i) \cup d(j2) \cup d(j3))
    BY <1>4, <2>1, RowJoined
  <2>3. QED
    BY <2>1, <2>2
<1>6. PICK n4 \in Nat :
        /\ n4 = n3 + w(j4)
        /\ Row(h(i) \o h(j2) \o h(j3) \o h(j4), n4,
               d(i) \cup d(j2) \cup d(j3) \cup d(j4))
  <2>1. Row(h(j4), w(j4), d(j4)) /\ w(j4) \in Nat
    BY <1>2, <1>3
  <2>2. Row(h(i) \o h(j2) \o h(j3) \o h(j4),
            n3 + w(j4), d(i) \cup d(j2) \cup d(j3) \cup d(j4))
    BY <1>5, <2>1, RowJoined
  <2>3. QED
    BY <2>1, <2>2
<1>7. PICK n5 \in Nat :
        /\ n5 = n4 + w(j5)
        /\ Row(h(i) \o h(j2) \o h(j3) \o h(j4) \o h(j5), n5,
               d(i) \cup d(j2) \cup d(j3) \cup d(j4) \cup d(j5))
  <2>1. Row(h(j5), w(j5), d(j5)) /\ w(j5) \in Nat
    BY <1>2, <1>3
  <2>2. Row(h(i) \o h(j2) \o h(j3) \o h(j4) \o h(j5),
            n4 + w(j5), d(i) \cup d(j2) \cup d(j3) \cup d(j4) \cup d(j5))
    BY <1>6, <2>1, RowJoined
  <2>3. QED
    BY <2>1, <2>2
<1>8. PICK n6 \in Nat :
        /\ n6 = n5 + w(j6)
        /\ Row(h(i) \o h(j2) \o h(j3) \o h(j4) \o h(j5) \o h(j6), n6,
               d(i) \cup d(j2) \cup d(j3) \cup d(j4) \cup d(j5) \cup d(j6))
  <2>1. Row(h(j6), w(j6), d(j6)) /\ w(j6) \in Nat
    BY <1>2, <1>3
  <2>2. Row(h(i) \o h(j2) \o h(j3) \o h(j4) \o h(j5) \o h(j6),
            n5 + w(j6), d(i) \cup d(j2) \cup d(j3) \cup d(j4) \cup d(j5) \cup d(j6))
    BY <1>7, <2>1, RowJoined
  <2>3. QED
    BY <2>1, <2>2
<1>9. PICK n7 \in Nat :
        /\ n7 = n6 + w(j7)
        /\ Row(h(i) \o h(j2) \o h(j3) \o h(j4) \o h(j5) \o h(j6) \o h(j7), n7,
               d(i) \cup d(j2) \cup d(j3) \cup d(j4) \cup d(j5) \cup d(j6) \cup d(j7))
  <2>1. Row(h(j7), w(j7), d(j7)) /\ w(j7) \in Nat
    BY <1>2, <1>3
  <2>2. Row(h(i) \o h(j2) \o h(j3) \o h(j4) \o h(j5) \o h(j6) \o h(j7),
            n6 + w(j7), d(i) \cup d(j2) \cup d(j3) \cup d(j4) \cup d(j5) \cup d(j6) \cup d(j7))
    BY <1>8, <2>1, RowJoined
  <2>3. QED
    BY <2>1, <2>2
<1>10. PICK n8 \in Nat :
        /\ n8 = n7 + w(j8)
        /\ Row(h(i) \o h(j2) \o h(j3) \o h(j4) \o h(j5) \o h(j6) \o h(j7) \o h(j8), n8,
               d(i) \cup d(j2) \cup d(j3) \cup d(j4) \cup d(j5) \cup d(j6) \cup d(j7) \cup d(j8))
  <2>1. Row(h(j8), w(j8), d(j8)) /\ w(j8) \in Nat
    BY <1>2, <1>3
  <2>2. Row(h(i) \o h(j2) \o h(j3) \o h(j4) \o h(j5) \o h(j6) \o h(j7) \o h(j8),
            n7 + w(j8), d(i) \cup d(j2) \cup d(j3) \cup d(j4) \cup d(j5) \cup d(j6) \cup d(j7) \cup d(j8))
    BY <1>9, <2>1, RowJoined
  <2>3. QED
    BY <2>1, <2>2
<1>11. /\ h(i) \o h(j2) \o h(j3) \o h(j4) \o h(j5) \o h(j6) \o h(j7) \o h(j8) = EverySecond(i)
       /\ n8 = Widths(i)
       /\ d(i) \cup d(j2) \cup d(j3) \cup d(j4) \cup d(j5) \cup d(j6) \cup d(j7) \cup d(j8)
            = Digits8(i)
  <2>1. n8 = w(i) + w(j2) + w(j3) + w(j4) + w(j5) + w(j6) + w(j7) + w(j8)
    BY <1>4, <1>5, <1>6, <1>7, <1>8, <1>9, <1>10
  <2>2. QED
    BY <2>1 DEF h, w, d, j2, j3, j4, j5, j6, j7, j8, EverySecond, Widths, Digits8
<1>12. QED
  BY <1>10, <1>11

-----------------------------------------------------------------------------
(* How many bytes of the challenge are above 0x7f. *)
High == {i \in 1..16 : s[i] > 127}
HighUpTo(k) == {i \in 1..k : s[i] > 127}
Count(k) == Cardinality(HighUpTo(k))
One(k) == IF s[k] < 128 THEN 0 ELSE 1

LEMMA CountNone == IsFiniteSet(HighUpTo(0)) /\ Count(0) = 0
<1>1. HighUpTo(0) = {}
  BY DEF HighUpTo
<1>2. QED
  BY <1>1, FS_EmptySet DEF Count

LEMMA CountOne ==
  ASSUME Challenged, NEW k \in 1..16, NEW j \in 0..15, k = j + 1, IsFiniteSet(HighUpTo(j))
  PROVE  IsFiniteSet(HighUpTo(k)) /\ Count(k) = Count(j) + One(k) /\ One(k) \in 0..1
<1>1. s[k] \in 0..255 /\ One(k) \in 0..1
  BY DEF Challenged, One
<1>2. Cardinality(HighUpTo(j)) \in Nat
  BY FS_CardinalityType
<1>3. CASE s[k] < 128
  <2>1. HighUpTo(k) = HighUpTo(j)
    BY <1>1, <1>3 DEF HighUpTo
  <2>2. QED
    BY <1>1, <1>2, <1>3, <2>1 DEF Count, One
<1>4. CASE ~(s[k] < 128)
  <2>1. HighUpTo(k) = HighUpTo(j) \cup {k} /\ k \notin HighUpTo(j)
    BY <1>1, <1>4 DEF HighUpTo
  <2>2. /\ IsFiniteSet(HighUpTo(j) \cup {k})
        /\ Cardinality(HighUpTo(j) \cup {k}) = Cardinality(HighUpTo(j)) + 1
    BY <2>1, FS_AddElement
  <2>3. QED
    BY <1>1, <1>4, <2>1, <2>2 DEF Count, One
<1>5. QED
  BY <1>3, <1>4

LEMMA CountIs ==
  ASSUME Challenged
  PROVE  Cardinality(High) = One(1) + One(2) + One(3) + One(4) + One(5) + One(6) + One(7) + One(8)
            + One(9) + One(10) + One(11) + One(12) + One(13) + One(14) + One(15) + One(16)
<1>1. IsFiniteSet(HighUpTo(1)) /\ Count(1) = Count(0) + One(1)
  BY CountNone, CountOne, 1 \in 1..16, 0 \in 0..15, 1 = 0 + 1
<1>2. IsFiniteSet(HighUpTo(2)) /\ Count(2) = Count(1) + One(2)
  BY <1>1, CountOne, 2 \in 1..16, 1 \in 0..15, 2 = 1 + 1
<1>3. IsFiniteSet(HighUpTo(3)) /\ Count(3) = Count(2) + One(3)
  BY <1>2, CountOne, 3 \in 1..16, 2 \in 0..15, 3 = 2 + 1
<1>4. IsFiniteSet(HighUpTo(4)) /\ Count(4) = Count(3) + One(4)
  BY <1>3, CountOne, 4 \in 1..16, 3 \in 0..15, 4 = 3 + 1
<1>5. IsFiniteSet(HighUpTo(5)) /\ Count(5) = Count(4) + One(5)
  BY <1>4, CountOne, 5 \in 1..16, 4 \in 0..15, 5 = 4 + 1
<1>6. IsFiniteSet(HighUpTo(6)) /\ Count(6) = Count(5) + One(6)
  BY <1>5, CountOne, 6 \in 1..16, 5 \in 0..15, 6 = 5 + 1
<1>7. IsFiniteSet(HighUpTo(7)) /\ Count(7) = Count(6) + One(7)
  BY <1>6, CountOne, 7 \in 1..16, 6 \in 0..15, 7 = 6 + 1
<1>8. IsFiniteSet(HighUpTo(8)) /\ Count(8) = Count(7) + One(8)
  BY <1>7, CountOne, 8 \in 1..16, 7 \in 0..15, 8 = 7 + 1
<1>9. IsFiniteSet(HighUpTo(9)) /\ Count(9) = Count(8) + One(9)
  BY <1>8, CountOne, 9 \in 1..16, 8 \in 0..15, 9 = 8 + 1
<1>10. IsFiniteSet(HighUpTo(10)) /\ Count(10) = Count(9) + One(10)
  BY <1>9, CountOne, 10 \in 1..16, 9 \in 0..15, 10 = 9 + 1
<1>11. IsFiniteSet(HighUpTo(11)) /\ Count(11) = Count(10) + One(11)
  BY <1>10, CountOne, 11 \in 1..16, 10 \in 0..15, 11 = 10 + 1
<1>12. IsFiniteSet(HighUpTo(12)) /\ Count(12) = Count(11) + One(12)
  BY <1>11, CountOne, 12 \in 1..16, 11 \in 0..15, 12 = 11 + 1
<1>13. IsFiniteSet(HighUpTo(13)) /\ Count(13) = Count(12) + One(13)
  BY <1>12, CountOne, 13 \in 1..16, 12 \in 0..15, 13 = 12 + 1
<1>14. IsFiniteSet(HighUpTo(14)) /\ Count(14) = Count(13) + One(14)
  BY <1>13, CountOne, 14 \in 1..16, 13 \in 0..15, 14 = 13 + 1
<1>15. IsFiniteSet(HighUpTo(15)) /\ Count(15) = Count(14) + One(15)
  BY <1>14, CountOne, 15 \in 1..16, 14 \in 0..15, 15 = 14 + 1
<1>16. IsFiniteSet(HighUpTo(16)) /\ Count(16) = Count(15) + One(16)
  BY <1>15, CountOne, 16 \in 1..16, 15 \in 0..15, 16 = 15 + 1
<1>17. \A k \in 1..16 : One(k) \in 0..1
  BY DEF One
<1>18. Count(16) = Cardinality(High)
  BY DEF Count, HighUpTo, High
<1>19. QED
  BY <1>1, <1>2, <1>3, <1>4, <1>5, <1>6, <1>7, <1>8, <1>9, <1>10, <1>11, <1>12, <1>13, <1>14, <1>15, <1>16, CountNone, <1>17, <1>18

(* One(k) of the bytes has six digits more. *)
LEMMA WidthIs ==
  ASSUME NEW k \in 1..16
  PROVE  Width(k) = 2 + 6 * One(k) /\ One(k) \in 0..1
BY DEF Width, One

LEMMA WidthsAre ==
  ASSUME Challenged
  PROVE  /\ Widths(1) + Widths(2) = 32 + 6 * Cardinality(High)
         /\ Cardinality(High) \in Nat
<1>1. /\ Width(1) = 2 + 6 * One(1) /\ One(1) \in 0..1 /\ Width(2) = 2 + 6 * One(2) /\ One(2) \in 0..1
      /\ Width(3) = 2 + 6 * One(3) /\ One(3) \in 0..1 /\ Width(4) = 2 + 6 * One(4) /\ One(4) \in 0..1
      /\ Width(5) = 2 + 6 * One(5) /\ One(5) \in 0..1 /\ Width(6) = 2 + 6 * One(6) /\ One(6) \in 0..1
      /\ Width(7) = 2 + 6 * One(7) /\ One(7) \in 0..1 /\ Width(8) = 2 + 6 * One(8) /\ One(8) \in 0..1
  BY WidthIs, 1 \in 1..16, 2 \in 1..16, 3 \in 1..16, 4 \in 1..16,
     5 \in 1..16, 6 \in 1..16, 7 \in 1..16, 8 \in 1..16
<1>2. /\ Width(9) = 2 + 6 * One(9) /\ One(9) \in 0..1
      /\ Width(10) = 2 + 6 * One(10) /\ One(10) \in 0..1
      /\ Width(11) = 2 + 6 * One(11) /\ One(11) \in 0..1
      /\ Width(12) = 2 + 6 * One(12) /\ One(12) \in 0..1
      /\ Width(13) = 2 + 6 * One(13) /\ One(13) \in 0..1
      /\ Width(14) = 2 + 6 * One(14) /\ One(14) \in 0..1
      /\ Width(15) = 2 + 6 * One(15) /\ One(15) \in 0..1
      /\ Width(16) = 2 + 6 * One(16) /\ One(16) \in 0..1
  BY WidthIs, 9 \in 1..16, 10 \in 1..16, 11 \in 1..16, 12 \in 1..16,
     13 \in 1..16, 14 \in 1..16, 15 \in 1..16, 16 \in 1..16
<1>3. /\ Widths(1) = Width(1) + Width(3) + Width(5) + Width(7)
                     + Width(9) + Width(11) + Width(13) + Width(15)
      /\ Widths(2) = Width(2) + Width(4) + Width(6) + Width(8)
                     + Width(10) + Width(12) + Width(14) + Width(16)
  <2>1. /\ 1 + 2 = 3 /\ 1 + 4 = 5 /\ 1 + 6 = 7 /\ 1 + 8 = 9 /\ 1 + 10 = 11 /\ 1 + 12 = 13
        /\ 1 + 14 = 15 /\ 2 + 2 = 4 /\ 2 + 4 = 6 /\ 2 + 6 = 8 /\ 2 + 8 = 10 /\ 2 + 10 = 12
        /\ 2 + 12 = 14 /\ 2 + 14 = 16
    OBVIOUS
  <2>2. QED
    BY <2>1 DEF Widths
<1>4. QED
  BY <1>1, <1>2, <1>3, CountIs, SMTT(30)

-----------------------------------------------------------------------------
(* The five variants. *)
LEMMA FourRows ==
  ASSUME NEW x, NEW y, NEW z, NEW w, NEW n \in Nat, NEW m \in Nat, NEW k \in Nat, NEW l \in Nat,
         NEW A, NEW B, NEW C, NEW D,
         Row(x, n, A), Row(y, m, B), Row(z, k, C), Row(w, l, D)
  PROVE  Row(x \o y \o z \o w, n + m + k + l, A \cup B \cup C \cup D)
<1>1. PICK n2 \in Nat : n2 = n + m /\ Row(x \o y, n2, A \cup B)
  <2>1. Row(x \o y, n + m, A \cup B)
    BY RowJoined
  <2>2. QED
    BY <2>1
<1>2. PICK n3 \in Nat : n3 = n2 + k /\ Row(x \o y \o z, n3, A \cup B \cup C)
  <2>1. Row(x \o y \o z, n2 + k, A \cup B \cup C)
    BY <1>1, RowJoined
  <2>2. QED
    BY <2>1
<1>3. Row(x \o y \o z \o w, n3 + l, A \cup B \cup C \cup D)
  BY <1>2, RowJoined
<1>4. n3 + l = n + m + k + l
  BY <1>1, <1>2
<1>5. QED
  BY <1>3, <1>4

AllBytes == {SentByte(i) : i \in 1..16}
ShortRow(x) == \E n \in 0..64 : Row(x, n, AllBytes)

Mixed(a1, t1, n1, c, a2, t2, n2, e) ==
    /\ a1 \in Alg /\ t1 \in Table /\ n1 \in 1..24 /\ c \in 1..15
    /\ a2 \in Alg /\ t2 \in Table /\ n2 \in 1..24 /\ e \in 2..16 /\ e = c + 1

LEMMA MixedRow ==
  ASSUME NEW a1, NEW t1, NEW n1, NEW c, NEW a2, NEW t2, NEW n2, NEW e,
         Mixed(a1, t1, n1, c, a2, t2, n2, e)
  PROVE  ShortRow(Digest(a1, t1, n1) \o Raw(1, c) \o Digest(a2, t2, n2) \o Raw(e, 16))
<1> DEFINE B == {SentByte(i) : i \in 1..c}
           D == {SentByte(i) : i \in e..16}
<1>0. /\ a1 \in Alg /\ t1 \in Table /\ n1 \in 1..24 /\ c \in 1..15
      /\ a2 \in Alg /\ t2 \in Table /\ n2 \in 1..24 /\ e \in 2..16 /\ e = c + 1
  BY DEF Mixed
<1>1. PICK one \in 1..16, last \in 1..16, l \in 1..16 : one = 1 /\ last = 16 /\ l = last - e + 1
  BY <1>0
<1>2. Row(Digest(a1, t1, n1), n1, {}) /\ Row(Digest(a2, t2, n2), n2, {})
  BY <1>0, DigestRow
<1>3. Row(Raw(1, c), c, B)
  <2>1. c \in one..16 /\ c \in 1..16 /\ c = c - one + 1
    BY <1>0, <1>1
  <2>2. Row(Raw(one, c), c, {SentByte(i) : i \in one..c})
    BY <2>1, RawRow
  <2>3. QED
    BY <1>1, <2>2
<1>4. Row(Raw(e, 16), l, D)
  <2>1. e \in 1..16 /\ last \in e..16
    BY <1>0, <1>1
  <2>2. Row(Raw(e, last), l, {SentByte(i) : i \in e..last})
    BY <1>1, <2>1, RawRow
  <2>3. QED
    BY <1>1, <2>2
<1>5. B \cup D = AllBytes
  <2>1. \A i \in 1..16 : i \in 1..c \/ i \in e..16
    BY <1>0
  <2>2. \A i \in 1..c : i \in 1..16
    BY <1>0
  <2>3. \A i \in e..16 : i \in 1..16
    BY <1>0
  <2>4. QED
    BY <2>1, <2>2, <2>3 DEF AllBytes
<1> HIDE DEF B, D
<1>6. n1 \in Nat /\ c \in Nat /\ n2 \in Nat /\ l \in Nat
  BY <1>0, <1>1
<1>7. Row(Digest(a1, t1, n1) \o Raw(1, c) \o Digest(a2, t2, n2) \o Raw(e, 16),
          n1 + c + n2 + l, {} \cup B \cup {} \cup D)
  BY <1>2, <1>3, <1>4, <1>6, FourRows
<1>8. PICK n \in 0..64 : n = n1 + c + n2 + l
  BY <1>0, <1>1
<1>9. {} \cup B \cup {} \cup D = AllBytes
  BY <1>5
<1>10. QED
  BY <1>7, <1>8, <1>9 DEF ShortRow

LEMMA ShortWritten ==
  ASSUME v4_check_type \in 1..4
  PROVE  ShortRow(Written)
<1>1. /\ "sha1" \in Alg /\ "tiger" \in Alg /\ "ripemd128" \in Alg
      /\ "array" \in Table /\ "array_1" \in Table
  BY DEF Alg, Table
<1>2. /\ 20 \in 1..24 /\ 16 \in 1..24 /\ 24 \in 1..24
      /\ 6 \in 1..15 /\ 7 \in 2..16 /\ 7 = 6 + 1 /\ 10 \in 1..15 /\ 11 \in 2..16 /\ 11 = 10 + 1
      /\ 8 \in 1..15 /\ 9 \in 2..16 /\ 9 = 8 + 1
  OBVIOUS
<1>3. CASE v4_check_type = 1
  <2>1. Written = Digest("sha1", "array_1", 20) \o Raw(1, 6)
                  \o Digest("sha1", "array", 20) \o Raw(7, 16)
    BY <1>3 DEF Written
  <2>2. PICK n \in 1..24, m \in 1..24, c \in 1..15, e \in 2..16 :
          n = 20 /\ m = 20 /\ c = 6 /\ e = 7 /\ e = c + 1
    BY <1>2
  <2>3. Mixed("sha1", "array_1", n, c, "sha1", "array", m, e)
    BY <1>1, <2>2 DEF Mixed
  <2>4. ShortRow(Digest("sha1", "array_1", n) \o Raw(1, c) \o Digest("sha1", "array", m) \o Raw(e, 16))
    BY <2>3, MixedRow
  <2>5. QED
    BY <2>1, <2>2, <2>4
<1>4. CASE v4_check_type = 2
  <2>1. Written = Digest("sha1", "array_1", 20) \o Raw(1, 6)
                  \o Digest("ripemd128", "array", 16) \o Raw(7, 16)
    BY <1>4 DEF Written
  <2>2. PICK n \in 1..24, m \in 1..24, c \in 1..15, e \in 2..16 :
          n = 20 /\ m = 16 /\ c = 6 /\ e = 7 /\ e = c + 1
    BY <1>2
  <2>3. Mixed("sha1", "array_1", n, c, "ripemd128", "array", m, e)
    BY <1>1, <2>2 DEF Mixed
  <2>4. ShortRow(Digest("sha1", "array_1", n) \o Raw(1, c) \o Digest("ripemd128", "array", m) \o Raw(e, 16))
    BY <2>3, MixedRow
  <2>5. QED
    BY <2>1, <2>2, <2>4
<1>5. CASE v4_check_type = 3
  <2>1. Written = Digest("tiger", "array", 24) \o Raw(1, 10)
                  \o Digest("ripemd128", "array_1", 16) \o Raw(11, 16)
    BY <1>5 DEF Written
  <2>2. PICK n \in 1..24, m \in 1..24, c \in 1..15, e \in 2..16 :
          n = 24 /\ m = 16 /\ c = 10 /\ e = 11 /\ e = c + 1
    BY <1>2
  <2>3. Mixed("tiger", "array", n, c, "ripemd128", "array_1", m, e)
    BY <1>1, <2>2 DEF Mixed
  <2>4. ShortRow(Digest("tiger", "array", n) \o Raw(1, c) \o Digest("ripemd128", "array_1", m) \o Raw(e, 16))
    BY <2>3, MixedRow
  <2>5. QED
    BY <2>1, <2>2, <2>4
<1>6. CASE v4_check_type = 4
  <2>1. Written = Digest("tiger", "array_1", 24) \o Raw(1, 8)
                  \o Digest("sha1", "array", 20) \o Raw(9, 16)
    BY <1>6 DEF Written
  <2>2. PICK n \in 1..24, m \in 1..24, c \in 1..15, e \in 2..16 :
          n = 24 /\ m = 20 /\ c = 8 /\ e = 9 /\ e = c + 1
    BY <1>2
  <2>3. Mixed("tiger", "array_1", n, c, "sha1", "array", m, e)
    BY <1>1, <2>2 DEF Mixed
  <2>4. ShortRow(Digest("tiger", "array_1", n) \o Raw(1, c) \o Digest("sha1", "array", m) \o Raw(e, 16))
    BY <2>3, MixedRow
  <2>5. QED
    BY <2>1, <2>2, <2>4
<1>7. QED
  BY <1>3, <1>4, <1>5, <1>6

AllDigits == Digits8(1) \cup Digits8(2)

LEMMA HexWritten ==
  ASSUME Challenged, v4_check_type = 0
  PROVE  /\ Row(Written, 96 + 6 * Cardinality(High), AllDigits)
         /\ Cardinality(High) \in Nat
<1> DEFINE x == Hex(Digest("rjmd5", "array", 16))
           y == Hex(Digest("rjmd5", "array_1", 16))
<1>1. Row(x, 32, {}) /\ Row(y, 32, {})
  <2>1. "rjmd5" \in Alg /\ "array" \in Table /\ "array_1" \in Table
    BY DEF Alg, Table
  <2>2. QED
    BY <2>1, HexRow
<1>2. Written = x \o EverySecond(1) \o y \o EverySecond(2)
  BY DEF Written
<1> HIDE DEF x, y
<1>3. PICK one \in 1..2, two \in 1..2, h \in Nat : one = 1 /\ two = 2 /\ h = 32
  OBVIOUS
<1>4. PICK n \in Nat, m \in Nat :
        /\ n = Widths(1) /\ m = Widths(2)
        /\ Row(EverySecond(1), n, Digits8(1)) /\ Row(EverySecond(2), m, Digits8(2))
  <2>1. /\ Row(EverySecond(one), Widths(one), Digits8(one)) /\ Widths(one) \in Nat
        /\ Row(EverySecond(two), Widths(two), Digits8(two)) /\ Widths(two) \in Nat
    BY EverySecondRow
  <2>2. QED
    BY <1>3, <2>1
<1>5. Row(x \o EverySecond(1) \o y \o EverySecond(2), h + n + h + m,
          {} \cup Digits8(1) \cup {} \cup Digits8(2))
  BY <1>1, <1>3, <1>4, FourRows
<1>6. {} \cup Digits8(1) \cup {} \cup Digits8(2) = AllDigits
  BY DEF AllDigits
<1>7. n + m = 32 + 6 * Cardinality(High) /\ Cardinality(High) \in Nat
  BY <1>4, WidthsAre
<1>8. h + n + h + m = 96 + 6 * Cardinality(High)
  BY <1>3, <1>7
<1>9. QED
  BY <1>2, <1>5, <1>6, <1>7, <1>8

LEMMA VariantIs ==
  ASSUME Challenged
  PROVE  v4_check_type = 0 \/ v4_check_type \in 1..4
<1>1. PICK x \in 0..255, y \in 0..255 : x = s[1] /\ y = s[4]
  <2>1. s[1] \in 0..255 /\ s[4] \in 0..255
    BY 1 \in 1..16, 4 \in 1..16 DEF Challenged
  <2>2. QED
    BY <2>1
<1>2. signed(s[1]) \in Int /\ signed(s[4]) \in Int
  BY <1>1 DEF signed
<1>3. PICK sum \in Int : sum = signed(s[1]) + signed(s[4])
  BY <1>2
<1>4. PICK v \in Int : v = IF sum < 0 THEN sum + 256 ELSE sum
  OBVIOUS
<1>5. v % 5 \in 0..4
  OBVIOUS
<1>6. v4_check_type = v % 5
  BY <1>3, <1>4 DEF v4_check_type
<1>7. QED
  BY <1>5, <1>6

LEMMA WholeSubSeq ==
  ASSUME NEW x \in Seq(Token), NEW n \in Nat, Len(x) = n
  PROVE  SubSeq(x, 1, n) = x
OBVIOUS

LEMMA DigitsOfAll ==
  ASSUME NEW i \in 1..16
  PROVE  SentDigits(i) \subseteq AllDigits
<1>1. /\ SentDigits(1) \subseteq AllDigits /\ SentDigits(1 + 2) \subseteq AllDigits
      /\ SentDigits(1 + 4) \subseteq AllDigits /\ SentDigits(1 + 6) \subseteq AllDigits
      /\ SentDigits(1 + 8) \subseteq AllDigits /\ SentDigits(1 + 10) \subseteq AllDigits
      /\ SentDigits(1 + 12) \subseteq AllDigits /\ SentDigits(1 + 14) \subseteq AllDigits
      /\ SentDigits(2) \subseteq AllDigits /\ SentDigits(2 + 2) \subseteq AllDigits
      /\ SentDigits(2 + 4) \subseteq AllDigits /\ SentDigits(2 + 6) \subseteq AllDigits
      /\ SentDigits(2 + 8) \subseteq AllDigits /\ SentDigits(2 + 10) \subseteq AllDigits
      /\ SentDigits(2 + 12) \subseteq AllDigits /\ SentDigits(2 + 14) \subseteq AllDigits
  BY Zenon DEF AllDigits, Digits8
<1>2. \/ i = 1 \/ i = 1 + 2 \/ i = 1 + 4 \/ i = 1 + 6 \/ i = 1 + 8 \/ i = 1 + 10 \/ i = 1 + 12
      \/ i = 1 + 14 \/ i = 2 \/ i = 2 + 2 \/ i = 2 + 4 \/ i = 2 + 6 \/ i = 2 + 8 \/ i = 2 + 10
      \/ i = 2 + 12 \/ i = 2 + 14
  OBVIOUS
<1>3. QED
  BY <1>1, <1>2, Zenon

(* What is hashed holds the bytes of the challenge, or their digits. *)
LEMMA ChallengeHashed ==
  ASSUME Challenged
  PROVE  WholeChallengeHashed
<1>1. CASE v4_check_type \in 1..4
  <2>1. PICK n \in 0..64 : Row(Written, n, AllBytes)
    BY <1>1, ShortWritten DEF ShortRow
  <2>2. Written \in Seq(Token) /\ Len(Written) = n /\ AllBytes \subseteq Range(Written)
    BY <2>1 DEF Row
  <2>3. Hashed = Written
    <3>1. v4_check_type # 0 /\ n \in Nat
      BY <1>1
    <3>2. wpos = n
      BY <2>2, <3>1 DEF wpos
    <3>3. QED
      BY <2>2, <3>1, <3>2, WholeSubSeq DEF Hashed
  <2>4. ASSUME NEW i \in 1..16 PROVE <<"s", i>> \in Range(Hashed)
    <3>1. SentByte(i) \in AllBytes
      BY DEF AllBytes
    <3>2. QED
      BY <2>2, <2>3, <3>1 DEF SentByte
  <2>5. QED
    BY <2>4 DEF WholeChallengeHashed
<1>2. CASE v4_check_type = 0
  <2>1. SUFFICES ASSUME \A i \in 1..16 : s[i] < 128
                 PROVE  \A i \in 1..16 :
                          {<<"s", i, "high">>, <<"s", i, "low">>} \subseteq Range(Hashed)
    BY <1>2 DEF WholeChallengeHashed
  <2>2. Cardinality(High) = 0
    <3>1. High = {}
      <4>1. ASSUME NEW i \in 1..16 PROVE ~(s[i] > 127)
        <5>1. s[i] \in 0..255
          BY Zenon DEF Challenged
        <5>2. s[i] < 128
          BY <2>1, Zenon
        <5> HIDE DEF Challenged
        <5>3. QED
          BY ONLY <5>1, <5>2
      <4>2. QED
        BY <4>1, Zenon DEF High
    <3>2. QED
      BY <3>1, FS_EmptySet
  <2>3. Row(Written, 96, AllDigits)
    <3>1. Row(Written, 96 + 6 * Cardinality(High), AllDigits)
      BY <1>2, HexWritten
    <3>2. 96 + 6 * Cardinality(High) = 96
      BY <2>2
    <3>3. QED
      BY <3>1, <3>2
  <2>4. PICK n \in Nat :
          /\ n = 96 /\ Written \in Seq(Token) /\ Len(Written) = n
          /\ AllDigits \subseteq Range(Written)
    BY <2>3 DEF Row
  <2>5. Hashed = Written
    <3>1. SubSeq(Written, 1, n) = Written
      BY <2>4, WholeSubSeq
    <3>2. QED
      BY <1>2, <2>4, <3>1 DEF Hashed, wpos
  <2>6. TAKE i \in 1..16
  <2>7. SentDigits(i) \subseteq Range(Hashed)
    BY <2>4, <2>5, DigitsOfAll
  <2>8. QED
    BY <2>7 DEF SentDigits
<1>3. QED
  BY <1>1, <1>2, VariantIs

LEMMA WrittenFits ==
  ASSUME Challenged
  PROVE  V4BufferBounds
<1>1. CASE v4_check_type \in 1..4
  <2>1. PICK n \in 0..64 : Row(Written, n, AllBytes)
    BY <1>1, ShortWritten DEF ShortRow
  <2>2. Len(Written) = n /\ wpos = n
    BY <1>1, <2>1 DEF Row, wpos
  <2>3. v4_check_type # 0 /\ ~(n + 1 > 160) /\ n >= n
    BY <1>1
  <2>4. Len(Written) >= wpos /\ ~(Len(Written) + 1 > 160)
    BY <2>2, <2>3
  <2>5. QED
    BY <2>3, <2>4, Zenon DEF V4BufferBounds
<1>2. CASE v4_check_type = 0
  <2>1. PICK h \in Nat : h = Cardinality(High) /\ Row(Written, 96 + 6 * h, AllDigits)
    BY <1>2, HexWritten
  <2>2. Len(Written) = 96 + 6 * h /\ wpos = 96
    BY <1>2, <2>1 DEF Row, wpos
  <2>3. h = Cardinality({i \in 1..16 : s[i] > 127})
    BY <2>1 DEF High
  <2>4. Len(Written) >= wpos /\ (Len(Written) + 1 > 160 <=> h > 10)
    BY <2>1, <2>2
  <2>5. QED
    BY <1>2, <2>3, <2>4, Zenon DEF V4BufferBounds
<1>3. QED
  BY <1>1, <1>2, VariantIs

-----------------------------------------------------------------------------
(* The contents of tmp[40] in computePwd, whatever the lengths are. *)
Named == user_len \in Nat /\ pass_len \in Nat

(* A text of strcpy: its characters and the zero behind them. *)
LEMMA TextIs ==
  ASSUME NEW name, NEW n \in Nat
  PROVE  /\ Len(Text(name, n)) = n + 1
         /\ \A i \in 1..(n + 1) : Text(name, n)[i] = IF i <= n THEN <<name, i>> ELSE Zero
BY DEF Text

LEMMA RawIs == Len(Raw(1, 16)) = 16 /\ \A i \in 1..16 : Raw(1, 16)[i] = <<"s", i>>
BY DEF Raw

LEMMA PutIs ==
  ASSUME NEW tmp, NEW at \in Nat, NEW bytes, NEW n \in Nat, Len(bytes) = n,
         NEW i \in 1..TMP_SIZE
  PROVE  /\ i - at + 1 \in 1..n => Put(tmp, at, bytes)[i] = bytes[i - at + 1]
         /\ i - at + 1 \notin 1..n => Put(tmp, at, bytes)[i] = tmp[i]
BY DEF Put

(* The same of a text at the start of tmp. *)
LEMMA PutFirst ==
  ASSUME NEW tmp, NEW bytes, NEW n \in Nat, Len(bytes) = n, NEW i \in 1..TMP_SIZE
  PROVE  /\ i <= n => Put(tmp, 1, bytes)[i] = bytes[i]
         /\ ~(i <= n) => Put(tmp, 1, bytes)[i] = tmp[i]
<1>1. PICK at \in Nat : at = 1
  OBVIOUS
<1>2. i \in Nat /\ i >= 1
  BY DEF TMP_SIZE
<1>3. i - at + 1 = i /\ (i \in 1..n <=> i <= n)
  BY <1>1, <1>2
<1>4. Put(tmp, at, bytes)[i] = IF i - at + 1 \in 1..Len(bytes) THEN bytes[i - at + 1] ELSE tmp[i]
  BY Zenon DEF Put
<1>5. QED
  BY <1>1, <1>3, <1>4, Zenon

(* tmp when ComputeHash reads it. *)
LEMMA HashInputIs ==
  ASSUME NEW u \in 0..24, u = user_len, NEW i \in 1..(u + 16)
  PROVE  UserAndChallenge[i] = IF i <= u THEN <<"user", i>> ELSE <<"s", i - u>>
<1> DEFINE text == Text("user", user_len)
           once == Put(Uninitialised, 1, text)
           raw == Raw(1, 16)
<1>1. PICK at \in Nat, n \in Nat : at = u + 1 /\ n = 16
  OBVIOUS
<1>2. Len(text) = at /\ \A j \in 1..at : text[j] = IF j <= u THEN <<"user", j>> ELSE Zero
  BY <1>1, TextIs, u \in Nat
<1>3. Len(raw) = n /\ \A j \in 1..n : raw[j] = <<"s", j>>
  BY <1>1, RawIs
<1>4. i \in 1..TMP_SIZE
  BY DEF TMP_SIZE
<1>5. UserAndChallenge = Put(once, at, raw)
  BY <1>1 DEF UserAndChallenge
<1> HIDE DEF text, raw
<1>6. i <= at => once[i] = text[i]
  BY <1>2, <1>4, PutFirst
<1> HIDE DEF once
<1>7. /\ i - at + 1 \in 1..n => UserAndChallenge[i] = raw[i - at + 1]
      /\ i - at + 1 \notin 1..n => UserAndChallenge[i] = once[i]
  BY <1>3, <1>4, <1>5, PutIs
<1>8. CASE i <= u
  <2>1. i - at + 1 \notin 1..n /\ i <= at /\ i \in 1..at
    BY <1>1, <1>8
  <2>2. UserAndChallenge[i] = text[i]
    BY <1>6, <1>7, <2>1
  <2>3. QED
    BY <1>2, <1>8, <2>1, <2>2
<1>9. CASE ~(i <= u)
  <2>1. PICK k \in 1..n : k = i - u
    BY <1>1, <1>9
  <2>2. i - at + 1 = k
    BY <1>1, <2>1
  <2>3. UserAndChallenge[i] = <<"s", k>>
    BY <1>3, <1>7, <2>1, <2>2
  <2>4. QED
    BY <1>9, <2>1, <2>3
<1>10. QED
  BY <1>8, <1>9

(* tmp when it masks the digest. *)
LEMMA MaskIs ==
  ASSUME Named, NEW i \in 1..16
  PROVE  PwdMask[i] = IF i <= pass_len THEN <<"pass", i>> ELSE Zero
<1> DEFINE text == Text("pass", pass_len)
           zeros == [j \in 1..16 |-> Zero]
<1>0. PICK p \in Nat, n \in Nat, z \in Nat : p = pass_len /\ n = p + 1 /\ z = 16
  BY DEF Named
<1>1. Len(text) = n /\ \A j \in 1..n : text[j] = IF j <= p THEN <<"pass", j>> ELSE Zero
  BY <1>0, TextIs
<1>2. Len(zeros) = z /\ i <= z /\ zeros[i] = Zero
  BY <1>0
<1>3. i \in 1..TMP_SIZE
  BY DEF TMP_SIZE
<1>4. Cleared(UserAndChallenge) = Put(UserAndChallenge, 1, zeros)
  BY DEF Cleared
<1>5. PwdMask = Put(Cleared(UserAndChallenge), 1, text)
  BY DEF PwdMask
<1> HIDE DEF text, zeros
<1>6. Cleared(UserAndChallenge)[i] = Zero
  BY <1>2, <1>3, <1>4, PutFirst
<1>7. /\ i <= n => PwdMask[i] = text[i]
      /\ ~(i <= n) => PwdMask[i] = Zero
  BY <1>1, <1>3, <1>5, <1>6, PutFirst
<1>8. CASE i <= n
  <2>1. i \in 1..n
    BY <1>0, <1>8
  <2>2. QED
    BY <1>0, <1>1, <1>7, <1>8, <2>1
<1>9. CASE ~(i <= n)
  <2>1. ~(i <= p)
    BY <1>0, <1>9
  <2>2. QED
    BY <1>0, <1>7, <1>9, <2>1
<1>10. QED
  BY <1>8, <1>9

LEMMA SpillsAre ==
  ASSUME Named
  PROVE  PwdSpills <=> user_len > 24 \/ pass_len > 39
<1>0. PICK u \in Nat, p \in Nat : u = user_len /\ p = pass_len
  BY DEF Named
<1> DEFINE user == Text("user", user_len)
           pass == Text("pass", pass_len)
           raw == Raw(1, 16)
<1>1. Len(user) = u + 1 /\ Len(pass) = p + 1 /\ Len(raw) = 16
  BY <1>0, TextIs, RawIs
<1>2. PwdSpills <=> Spills(1, user) \/ Spills(u + 1, raw) \/ Spills(1, pass)
  BY <1>0 DEF PwdSpills
<1> HIDE DEF user, pass, raw
<1>3. Spills(1, user) <=> u > 39
  BY <1>1 DEF Spills, TMP_SIZE
<1>4. Spills(u + 1, raw) <=> u > 24
  BY <1>1 DEF Spills, TMP_SIZE
<1>5. Spills(1, pass) <=> p > 39
  BY <1>1 DEF Spills, TMP_SIZE
<1>6. u > 39 => u > 24
  OBVIOUS
<1>7. QED
  BY <1>0, <1>2, <1>3, <1>4, <1>5, <1>6

LEMMA PwdIs ==
  ASSUME Named
  PROVE  OnlyPasswordMasks
<1> DEFINE user_and_challenge == [i \in 1..(user_len + 16) |->
               IF i <= user_len THEN <<"user", i>> ELSE <<"s", i - user_len>>]
           hash_input == [i \in 1..(user_len + 16) |-> UserAndChallenge[i]]
<1>1. ASSUME ~PwdSpills
      PROVE  computePwd = [i \in 1..16 |-> <<<<"md5", user_and_challenge, i>>,
                              IF i <= pass_len THEN <<"pass", i>> ELSE Zero>>]
  <2>1. PICK u \in 0..24 : u = user_len
    BY <1>1, SpillsAre DEF Named
  <2>2. \A i \in 1..(user_len + 16) :
          UserAndChallenge[i] = IF i <= user_len THEN <<"user", i>> ELSE <<"s", i - user_len>>
    BY <2>1, HashInputIs
  <2>3. hash_input = user_and_challenge
    BY <2>2
  <2>4. computePwd = [i \in 1..16 |-> <<<<"md5", hash_input, i>>, PwdMask[i]>>]
    BY DEF computePwd
  <2> HIDE DEF user_and_challenge, hash_input
  <2>5. \A i \in 1..16 : PwdMask[i] = IF i <= pass_len THEN <<"pass", i>> ELSE Zero
    BY MaskIs
  <2>6. QED
    BY <2>3, <2>4, <2>5
<1>2. QED
  BY <1>1, SpillsAre DEF OnlyPasswordMasks

LEMMA NamedInvariant == ChallengeSpec => []Named
<1>1. InitChallenge => Named
  BY DEF InitChallenge, Named
<1>2. Named /\ [ChallengeNext]_challenge_vars => Named'
  BY NameLenAssumption DEF Named, ChallengeNext, NewChallenge, NewUser, challenge_vars
<1>3. QED
  BY <1>1, <1>2, PTL DEF ChallengeSpec

LEMMA ChallengeIsBytes ==
  ASSUME NEW first \in 0..255, NEW fourth \in 0..255, NEW high \in 0..16
  PROVE  Challenge(first, fourth, high) \in [1..16 -> 0..255]
<1> DEFINE At(i) == CASE i = 1 -> first [] i = 4 -> fourth
                      [] OTHER -> IF i <= high THEN 128 + i ELSE i
<1>1. ASSUME NEW i \in 1..16 PROVE At(i) \in 0..255
  <2>1. (IF i <= high THEN 128 + i ELSE i) \in 0..255
    OBVIOUS
  <2>2. CASE i = 1
    BY <2>2
  <2>3. CASE i = 4
    BY <2>3
  <2>4. CASE i # 1 /\ i # 4
    BY <2>1, <2>4
  <2>5. QED
    BY <2>2, <2>3, <2>4
<1>2. Challenge(first, fourth, high) = [i \in 1..16 |-> At(i)]
  BY DEF Challenge
<1>3. QED
  <2> HIDE DEF At
  <2> QED
    BY <1>1, <1>2

LEMMA FirstChallenge == Challenge(0, 0, 0) \in [1..16 -> 0..255]
<1>1. PICK z \in 0..16 : z = 0
  OBVIOUS
<1>2. z \in 0..255
  OBVIOUS
<1>3. Challenge(z, z, z) \in [1..16 -> 0..255]
  BY <1>2, ChallengeIsBytes
<1>4. QED
  BY <1>1, <1>3

(* Whatever bytes a request brings: there is a challenge of sixteen of them. *)
LEMMA ChallengeInvariant == ChallengeSpec => []Challenged
<1>1. InitChallenge => Challenged
  BY FirstChallenge DEF InitChallenge, Challenged
<1>2. Challenged /\ [ChallengeNext]_challenge_vars => Challenged'
  <2>1. SUFFICES ASSUME Challenged, [ChallengeNext]_challenge_vars PROVE Challenged'
    OBVIOUS
  <2>2. ASSUME NEW first \in ChallengeByte, NEW fourth \in ChallengeByte, NEW high \in 0..16,
               NewChallenge(first, fourth, high)
        PROVE  Challenged'
    <3>1. first \in 0..255 /\ fourth \in 0..255
      BY ChallengeByteAssumption
    <3>2. QED
      BY <2>2, <3>1, ChallengeIsBytes DEF NewChallenge, Challenged
  <2>3. ASSUME NEW ul \in NameLen, NEW pl \in NameLen, NewUser(ul, pl) PROVE Challenged'
    BY <2>3, FirstChallenge DEF NewUser, Challenged
  <2>4. CASE UNCHANGED challenge_vars
    BY <2>1, <2>4 DEF challenge_vars, Challenged
  <2>5. QED
    BY <2>1, <2>2, <2>3, <2>4 DEF ChallengeNext
<1>3. QED
  BY <1>1, <1>2, PTL DEF ChallengeSpec

(* computeV4 leaves no byte of the challenge out, except in the variant whose
   digits a byte above 0x7f makes longer.                                      *)
THEOREM WholeChallengeHashedHolds == ChallengeSpec => []WholeChallengeHashed
<1>1. Challenged => WholeChallengeHashed
  BY ChallengeHashed
<1>2. QED
  BY <1>1, ChallengeInvariant, PTL

(* It hashes only what it wrote, and overruns wtmp exactly for the challenges of
   the first variant with more than ten bytes above 0x7f.                      *)
THEOREM V4BufferBoundsHolds == ChallengeSpec => []V4BufferBounds
<1>1. Challenged => V4BufferBounds
  BY WrittenFits
<1>2. QED
  BY <1>1, ChallengeInvariant, PTL

(* For user names and passwords of every length: computePwd either overruns
   tmp[40], as it does for more than 24 and 39 bytes, or returns the digest of
   user name and challenge masked with the password and zeros alone.           *)
THEOREM OnlyPasswordMasksHolds == ChallengeSpec => []OnlyPasswordMasks
<1>1. Named => OnlyPasswordMasks
  BY PwdIs
<1>2. QED
  BY <1>1, NamedInvariant, PTL
=============================================================================
