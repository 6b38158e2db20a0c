---------------------------- MODULE DataProofs ------------------------------
(***************************************************************************)
(* Proofs about the code that computes on data, for inputs of every        *)
(* length: the conversion of the server's messages, the saving of          *)
(* --rj-option values, the reading of the server's properties, the trailer *)
(* of a frame, the host's fields and the settings of a start.              *)
(*                                                                         *)
(* A loop of the code is a recursive function of the place it has come to. *)
(* That the function exists, and what it yields at every place, is shown   *)
(* by the least number principle: of the places where it were otherwise,   *)
(* take the one the loop comes to first.                                   *)
(***************************************************************************)
EXTENDS GbConv, Rjv3Props, NetInfo, Config, WellFoundedInduction, TLAPS

-----------------------------------------------------------------------------
Below == {ss \in Nat \X Nat : ss[1] < ss[2]}

(* Every set of natural numbers that is not empty has a least element. *)
LEMMA Least ==
  ASSUME NEW T, T \subseteq Nat, T # {}
  PROVE  \E x \in T : \A y \in T : x <= y
<1>1. IsWellFoundedOn(Below, Nat)
  BY NatLessThanWellFounded DEF OpToRel, Below
<1>2. PICK x \in T : \A y \in T : ~(<<y, x>> \in Below)
  BY <1>1, WFMin
<1>3. ASSUME NEW y \in T PROVE x <= y
  <2>1. (<<y, x>>)[1] = y /\ (<<y, x>>)[2] = x /\ <<y, x>> \in Nat \X Nat
    OBVIOUS
  <2>2. ~(y < x)
    BY <1>2, <2>1 DEF Below
  <2>3. QED
    BY <2>2
<1>4. QED
  BY <1>2, <1>3

-----------------------------------------------------------------------------
(* What holds at the first place of a loop, and at each place if it holds at the
   one before it, holds at all of them.                                       *)
LEMMA Along ==
  ASSUME NEW m \in Nat, NEW n \in Nat, NEW T, m \in T,
         \A k \in (m + 1)..n : k - 1 \in T => k \in T
  PROVE  \A k \in m..n : k \in T
<1> DEFINE Bad == {k \in m..n : k \notin T}
<1>1. SUFFICES ASSUME Bad # {} PROVE FALSE
  OBVIOUS
<1>2. Bad \subseteq Nat
  OBVIOUS
<1>3. PICK k \in Bad : \A j \in Bad : k <= j
  <2> HIDE DEF Bad
  <2>1. QED
    BY <1>1, <1>2, Least
<1>4. k \in m..n /\ k \notin T
  OBVIOUS
<1>5. k \in (m + 1)..n
  BY <1>4
<1>6. k - 1 \in m..n /\ k - 1 \notin Bad
  <2> HIDE DEF Bad
  <2>1. QED
    BY <1>3, <1>5
<1>7. k - 1 \in T
  BY <1>6
<1>8. QED
  BY <1>4, <1>5, <1>7

(* A loop over the places m to n that keeps a value of V. *)
Course(m, n, first, step, f) ==
    f = [k \in m..n |-> IF k = m THEN first ELSE step[<<k, f[k - 1]>>]]

LEMMA LoopRuns ==
  ASSUME NEW V, NEW m \in Nat, NEW n \in Nat, m <= n, NEW first \in V,
         NEW step \in [((m + 1)..n) \X V -> V]
  PROVE  \E f \in [m..n -> V] : Course(m, n, first, step, f)
<1> DEFINE Solved == {k \in m..n : \E f \in [m..k -> V] : Course(m, k, first, step, f)}
<1>1. m \in Solved
  <2> DEFINE f == [k \in m..m |-> first]
  <2>1. f \in [m..m -> V] /\ Course(m, m, first, step, f)
    BY DEF Course
  <2>2. QED
    BY <2>1
<1>2. ASSUME NEW k \in (m + 1)..n, k - 1 \in Solved PROVE k \in Solved
  <2>1. PICK f \in [m..(k - 1) -> V] : Course(m, k - 1, first, step, f)
    BY <1>2
  <2> DEFINE g == [j \in m..k |-> IF j = k THEN step[<<k, f[k - 1]>>] ELSE f[j]]
  <2>2. f[k - 1] \in V
    BY <2>1
  <2>3. step[<<k, f[k - 1]>>] \in V
    BY <2>2
  <2>4. g \in [m..k -> V]
    BY <2>1, <2>3
  <2>5. ASSUME NEW j \in m..k
        PROVE  g[j] = IF j = m THEN first ELSE step[<<j, g[j - 1]>>]
    <3>1. CASE j = k
      <4>1. g[k - 1] = f[k - 1]
        OBVIOUS
      <4>2. QED
        BY <3>1, <4>1, SMTT(30)
    <3>2. CASE j # k
      <4>1. j \in m..(k - 1)
        BY <3>2
      <4>2. f[j] = IF j = m THEN first ELSE step[<<j, f[j - 1]>>]
        BY <2>1, <4>1 DEF Course
      <4>3. j # m => g[j - 1] = f[j - 1]
        BY <4>1
      <4>4. QED
        BY <3>2, <4>1, <4>2, <4>3
    <3>3. QED
      BY <3>1, <3>2
  <2>6. Course(m, k, first, step, g)
    BY <2>5 DEF Course
  <2>7. QED
    BY <2>4, <2>6
<1>3. \A k \in m..n : k \in Solved
  <2> HIDE DEF Solved
  <2>1. QED
    BY <1>1, <1>2, Along
<1>4. QED
  BY <1>3

-----------------------------------------------------------------------------
(* The list of the hits, after each entry of the table. *)
Listing(table, hits, f) ==
    f = [i \in 0..Len(table) |->
            IF i = 0 THEN <<>>
            ELSE IF i \in hits THEN Append(f[i - 1], table[i]) ELSE f[i - 1]]

LEMMA ListIs ==
  ASSUME NEW table, NEW hits
  PROVE  ListOf(table, hits) = (CHOOSE f : Listing(table, hits, f))[Len(table)]
BY DEF ListOf, Listing

LEMMA ListRuns ==
  ASSUME NEW S, NEW table \in Seq(S), NEW hits
  PROVE  \E f : Listing(table, hits, f)
<1> DEFINE n == Len(table)
           step == [kv \in (1..n) \X Seq(S) |->
                       IF kv[1] \in hits THEN Append(kv[2], table[kv[1]]) ELSE kv[2]]
<1>1. n \in Nat /\ 0 <= n /\ <<>> \in Seq(S)
  OBVIOUS
<1>2. step \in [((0 + 1)..n) \X Seq(S) -> Seq(S)]
  <2>1. ASSUME NEW k \in 1..n, NEW v \in Seq(S) PROVE Append(v, table[k]) \in Seq(S)
    <3>1. table[k] \in S
      OBVIOUS
    <3>2. QED
      BY <3>1
  <2>2. QED
    BY <2>1
<1>3. PICK f \in [0..n -> Seq(S)] : Course(0, n, <<>>, step, f)
  <2> HIDE DEF n, step
  <2>1. QED
    BY <1>1, <1>2, LoopRuns
<1>4. ASSUME NEW k \in 0..n
      PROVE  f[k] = IF k = 0 THEN <<>>
                    ELSE IF k \in hits THEN Append(f[k - 1], table[k]) ELSE f[k - 1]
  <2>1. f[k] = IF k = 0 THEN <<>> ELSE step[<<k, f[k - 1]>>]
    BY <1>3 DEF Course
  <2>2. CASE k = 0
    BY <2>1, <2>2
  <2>3. CASE k # 0
    <3>1. k \in 1..n /\ f[k - 1] \in Seq(S)
      BY <1>3, <2>3
    <3>2. QED
      BY <2>1, <2>3, <3>1
  <2>4. QED
    BY <2>2, <2>3
<1>5. f = [k \in 0..n |-> f[k]]
  BY <1>3
<1>6. QED
  BY <1>4, <1>5 DEF Listing

(* The list has the hits up to entry k of the table, in their order; pos says
   where its elements are from.                                              *)
CopyOf(list, table, hits, k, pos) ==
    /\ pos \in [1..Len(list) -> Nat]
    /\ \A j \in 1..Len(list) : pos[j] \in hits /\ pos[j] <= k /\ list[j] = table[pos[j]]
    /\ \A i, j \in 1..Len(list) : i < j => pos[i] < pos[j]
    /\ \A i \in hits : i <= k => \E j \in 1..Len(list) : pos[j] = i

LEMMA CopyGrows ==
  ASSUME NEW S, NEW table \in Seq(S), NEW hits, hits \subseteq 1..Len(table),
         NEW k \in 1..Len(table), NEW list \in Seq(S), NEW pos,
         CopyOf(list, table, hits, k - 1, pos), k \in hits
  PROVE  \E new : CopyOf(Append(list, table[k]), table, hits, k, new)
<1> DEFINE longer == Append(list, table[k])
           n == Len(list)
           new == [j \in 1..(n + 1) |-> IF j = n + 1 THEN k ELSE pos[j]]
<1>1. n \in Nat /\ Len(longer) = n + 1 /\ k \in Nat /\ table[k] \in S
  OBVIOUS
<1>2. longer[n + 1] = table[k] /\ \A j \in 1..n : longer[j] = list[j]
  OBVIOUS
<1>3. /\ \A j \in 1..n : pos[j] \in Nat /\ pos[j] \in hits /\ pos[j] <= k - 1 /\ list[j] = table[pos[j]]
      /\ \A i, j \in 1..n : i < j => pos[i] < pos[j]
      /\ \A i \in hits : i <= k - 1 => \E j \in 1..n : pos[j] = i
  BY DEF CopyOf
<1> HIDE DEF longer, n
<1>4. new \in [1..(n + 1) -> Nat]
  BY <1>1, <1>3
<1>5. ASSUME NEW j \in 1..(n + 1)
      PROVE  new[j] \in hits /\ new[j] <= k /\ longer[j] = table[new[j]]
  <2>1. CASE j = n + 1
    BY <1>1, <1>2, <2>1
  <2>2. CASE j # n + 1
    <3>1. j \in 1..n /\ new[j] = pos[j]
      BY <1>1, <2>2
    <3> HIDE DEF new
    <3>2. QED
      BY <1>1, <1>2, <1>3, <3>1
  <2>3. QED
    BY <2>1, <2>2
<1>6. ASSUME NEW i \in 1..(n + 1), NEW j \in 1..(n + 1), i < j PROVE new[i] < new[j]
  <2>1. i \in 1..n /\ new[i] = pos[i]
    BY <1>1, <1>6
  <2>2. CASE j = n + 1
    BY <1>1, <1>3, <2>1, <2>2
  <2>3. CASE j # n + 1
    <3>1. j \in 1..n /\ new[j] = pos[j]
      BY <1>1, <2>3
    <3> HIDE DEF new
    <3>2. QED
      BY <1>3, <1>6, <2>1, <3>1
  <2>4. QED
    BY <2>2, <2>3
<1>7. ASSUME NEW i \in hits, i <= k PROVE \E j \in 1..(n + 1) : new[j] = i
  <2>1. CASE i = k
    <3>1. new[n + 1] = i /\ n + 1 \in 1..(n + 1)
      BY <1>1, <2>1
    <3>2. QED
      BY <3>1
  <2>2. CASE i # k
    <3>1. i \in Nat /\ i <= k - 1
      BY <1>1, <1>7, <2>2
    <3>2. PICK j \in 1..n : pos[j] = i
      BY <1>3, <3>1
    <3>3. j \in 1..(n + 1) /\ new[j] = i
      BY <1>1, <3>2
    <3>4. QED
      BY <3>3
  <2>3. QED
    BY <2>1, <2>2
<1>8. CopyOf(longer, table, hits, k, new)
  <2> HIDE DEF new
  <2>1. QED
    BY <1>1, <1>4, <1>5, <1>6, <1>7 DEF CopyOf
<1>9. QED
  BY <1>8 DEF longer

LEMMA CopyStays ==
  ASSUME NEW S, NEW table \in Seq(S), NEW hits, hits \subseteq 1..Len(table),
         NEW k \in 1..Len(table), NEW list \in Seq(S), NEW pos,
         CopyOf(list, table, hits, k - 1, pos), k \notin hits
  PROVE  CopyOf(list, table, hits, k, pos)
<1>1. /\ pos \in [1..Len(list) -> Nat]
      /\ \A j \in 1..Len(list) : pos[j] \in hits /\ pos[j] <= k - 1 /\ list[j] = table[pos[j]]
      /\ \A i, j \in 1..Len(list) : i < j => pos[i] < pos[j]
      /\ \A i \in hits : i <= k - 1 => \E j \in 1..Len(list) : pos[j] = i
  BY DEF CopyOf
<1>2. \A j \in 1..Len(list) : pos[j] \in Nat /\ pos[j] <= k
  BY <1>1
<1>3. \A i \in hits : i <= k => i <= k - 1
  <2>1. \A i \in hits : i \in Nat
    OBVIOUS
  <2>2. QED
    BY <2>1
<1>4. QED
  BY <1>1, <1>2, <1>3, Zenon DEF CopyOf

LEMMA ListIsCopy ==
  ASSUME NEW S, NEW table \in Seq(S), NEW hits, hits \subseteq 1..Len(table)
  PROVE  /\ ListOf(table, hits) \in Seq(S)
         /\ \E pos : CopyOf(ListOf(table, hits), table, hits, Len(table), pos)
<1> DEFINE n == Len(table)
           f == CHOOSE g : Listing(table, hits, g)
           Copied(list, k) == list \in Seq(S) /\ \E pos : CopyOf(list, table, hits, k, pos)
           Good == {k \in 0..n : Copied(f[k], k)}
<1>1. n \in Nat /\ 0 \in Nat
  OBVIOUS
<1>2. Listing(table, hits, f)
  BY ListRuns
<1>3. \A k \in 0..n : f[k] = IF k = 0 THEN <<>>
                             ELSE IF k \in hits THEN Append(f[k - 1], table[k]) ELSE f[k - 1]
  BY <1>2 DEF Listing
<1> HIDE DEF f
<1>4. 0 \in Good
  <2>1. f[0] = <<>>
    BY <1>1, <1>3
  <2>2. CopyOf(<<>>, table, hits, 0, <<>>)
    <3>1. ~ \E i \in hits : i <= 0
      OBVIOUS
    <3>2. QED
      BY <3>1 DEF CopyOf
  <2>3. Copied(<<>>, 0)
    BY <2>2
  <2> HIDE DEF Copied
  <2>4. QED
    BY <1>1, <2>1, <2>3
<1>5. ASSUME NEW k \in 1..n, k - 1 \in Good PROVE k \in Good
  <2>1. PICK pos : CopyOf(f[k - 1], table, hits, k - 1, pos)
    BY <1>5
  <2>2. f[k - 1] \in Seq(S) /\ table[k] \in S /\ k \in 1..Len(table)
    BY <1>5
  <2>3. f[k] = IF k \in hits THEN Append(f[k - 1], table[k]) ELSE f[k - 1]
    BY <1>3
  <2>4. CASE k \in hits
    <3>1. \E new : CopyOf(Append(f[k - 1], table[k]), table, hits, k, new)
      BY <2>1, <2>2, <2>4, CopyGrows
    <3>2. Append(f[k - 1], table[k]) \in Seq(S)
      BY <2>2
    <3>3. Copied(Append(f[k - 1], table[k]), k)
      BY <3>1, <3>2
    <3> HIDE DEF Copied
    <3>4. f[k] = Append(f[k - 1], table[k]) /\ k \in 0..n
      BY <2>3, <2>4
    <3>5. Copied(f[k], k)
      BY <3>3, <3>4, Zenon
    <3>6. QED
      BY <3>4, <3>5
  <2>5. CASE k \notin hits
    <3>1. CopyOf(f[k - 1], table, hits, k, pos)
      BY <2>1, <2>2, <2>5, CopyStays
    <3>2. Copied(f[k - 1], k)
      BY <2>2, <3>1
    <3> HIDE DEF Copied
    <3>3. QED
      BY <2>3, <2>5, <3>2
  <2>6. QED
    BY <2>4, <2>5
<1>6. \A k \in 0..n : k \in Good
  <2> HIDE DEF Good, n
  <2>1. QED
    BY <1>1, <1>4, <1>5, Along, SMTT(30)
<1>7. ListOf(table, hits) = f[n]
  BY ListIs DEF f
<1>8. n \in Good
  BY <1>1, <1>6
<1>9. QED
  BY <1>7, <1>8

-----------------------------------------------------------------------------
(* The loop at place pos, with f the result for the places behind it, and the
   function gbconv8 defines by it.                                          *)
Body(src, n, f, pos) ==
    IF pos > n \/ src[pos] = 0 THEN AtEnd
    ELSE Turn(src[pos], src[pos + 1], f[pos + 1], f[pos + 2])

From(src, n) == CHOOSE f : f = [pos \in 1..(n + 2) |-> Body(src, n, f, pos)]

LEMMA Unfold ==
  ASSUME NEW src, NEW n, NEW d
  PROVE  gbconv8(src, n, d) =
           LET all == From(src, n)[1]
           IN  [reads |-> all.reads, len |-> Len(all.out),
                out |-> SubSeq(all.out, 1, IF Len(all.out) < d THEN Len(all.out) ELSE d)]
BY DEF gbconv8, From, Body

(* The last k places have a result, whatever k is: the loop ends. *)
LEMMA Ends ==
  ASSUME NEW src, NEW n \in Nat
  PROVE  \E f : f = [pos \in 1..(n + 2) |-> Body(src, n, f, pos)]
<1> DEFINE Place(k) == (n + 3 - k)..(n + 2)
           Solved(k) == \E f : f = [pos \in Place(k) |-> Body(src, n, f, pos)]
           Bad == {k \in 0..(n + 2) : ~Solved(k)}
<1>1. Solved(0)
  <2>1. Place(0) = {}
    OBVIOUS
  <2>2. [pos \in {} |-> 0] = [pos \in {} |-> Body(src, n, [p \in {} |-> 0], pos)]
    OBVIOUS
  <2>3. QED
    BY <2>1, <2>2
<1>2. ASSUME NEW k \in 0..(n + 1), Solved(k) PROVE Solved(k + 1)
  <2>1. PICK f : f = [pos \in Place(k) |-> Body(src, n, f, pos)]
    BY <1>2
  <2> DEFINE new == n + 2 - k
             g == [pos \in Place(k + 1) |-> IF pos = new THEN Body(src, n, f, new) ELSE f[pos]]
  <2>2. ASSUME NEW pos \in Place(k + 1) PROVE Body(src, n, g, pos) = Body(src, n, f, pos)
    <3>1. CASE pos > n
      BY <3>1 DEF Body
    <3>2. CASE pos <= n
      <4>1. pos + 1 \in Place(k) /\ pos + 2 \in Place(k)
        BY <3>2
      <4>2. g[pos + 1] = f[pos + 1] /\ g[pos + 2] = f[pos + 2]
        BY <4>1
      <4>3. QED
        BY <4>2 DEF Body
    <3>3. QED
      BY <3>1, <3>2
  <2>3. ASSUME NEW pos \in Place(k + 1) PROVE g[pos] = Body(src, n, g, pos)
    <3>1. CASE pos = new
      BY <2>2, <3>1
    <3>2. CASE pos # new
      <4>1. pos \in Place(k)
        BY <3>2
      <4>2. f[pos] = Body(src, n, f, pos)
        BY <2>1, <4>1
      <4>3. QED
        BY <2>2, <3>2, <4>2
    <3>3. QED
      BY <3>1, <3>2
  <2>4. g = [pos \in Place(k + 1) |-> Body(src, n, g, pos)]
    BY <2>3
  <2>5. QED
    BY <2>4
<1>3. Bad = {}
  <2>1. SUFFICES ASSUME Bad # {} PROVE FALSE
    OBVIOUS
  <2>2. Bad \subseteq Nat
    OBVIOUS
  <2>3. PICK k \in Bad : \A j \in Bad : k <= j
    BY <2>1, <2>2, Least
  <2>4. k # 0
    BY <1>1
  <2>5. k - 1 \in 0..(n + 1) /\ k - 1 \notin Bad
    <3>1. k \in 0..(n + 2)
      BY <2>3
    <3> HIDE DEF Bad
    <3>2. QED
      BY <2>3, <2>4, <3>1
  <2>6. Solved(k - 1)
    BY <2>5
  <2>7. Solved((k - 1) + 1)
    BY <1>2, <2>5, <2>6
  <2>8. QED
    BY <2>7
<1>4. Solved(n + 2)
  BY <1>3
<1>5. Place(n + 2) = 1..(n + 2)
  OBVIOUS
<1>6. QED
  BY <1>4, <1>5

LEMMA FromIs ==
  ASSUME NEW src, NEW n \in Nat
  PROVE  \A pos \in 1..(n + 2) : From(src, n)[pos] = Body(src, n, From(src, n), pos)
<1>1. From(src, n) = [pos \in 1..(n + 2) |-> Body(src, n, From(src, n), pos)]
  BY Ends DEF From
<1>2. QED
  BY <1>1

-----------------------------------------------------------------------------
Byte == 0..255

(* The entry of every pair of bytes that are looked up is in the table.  The
   code does not test it.                                                   *)
LEMMA IndexInTable ==
  ASSUME NEW byte1 \in 128..255, NEW byte2 \in 1..255, byte2 % 128 # 127
  PROVE  gbk_to_index(byte1, byte2) \in 0..(TableSize - 1)
<1>1. CASE byte2 \in 64..127
  <2>1. PICK x \in Int : x = byte1 * 64 /\ 8192 <= x /\ x <= 32640
    OBVIOUS
  <2>2. PICK low \in Int : low = byte2 % 64 /\ 0 <= low /\ low <= 127
    OBVIOUS
  <2>3. gbk_to_index(byte1, byte2) = (x + low) - 8192
    BY <1>1, <2>1, <2>2, SMT DEF gbk_to_index
  <2>4. 0 <= (x + low) - 8192 /\ (x + low) - 8192 <= 24575
    BY <2>1, <2>2
  <2>5. TableSize - 1 = 24575
    BY DEF TableSize
  <2>6. PICK index \in Int : index = (x + low) - 8192
    OBVIOUS
  <2>7. 0 <= index /\ index <= TableSize - 1 /\ TableSize - 1 \in Int
    BY <2>4, <2>5, <2>6
  <2>8. index \in 0..(TableSize - 1)
    BY ONLY <2>6, <2>7
  <2>9. QED
    BY <2>3, <2>6, <2>8, SMT
<1>2. CASE byte2 \notin 64..127
  <2>1. PICK x \in Int : x = byte1 * 128 /\ 8192 <= x /\ x <= 32640
    OBVIOUS
  <2>2. PICK low \in Int : low = byte2 % 128 /\ 0 <= low /\ low <= 127
    OBVIOUS
  <2>3. gbk_to_index(byte1, byte2) = (x + low) - 8192
    BY <1>2, <2>1, <2>2, SMT DEF gbk_to_index
  <2>4. 0 <= (x + low) - 8192 /\ (x + low) - 8192 <= 24575
    BY <2>1, <2>2
  <2>5. TableSize - 1 = 24575
    BY DEF TableSize
  <2>6. PICK index \in Int : index = (x + low) - 8192
    OBVIOUS
  <2>7. 0 <= index /\ index <= TableSize - 1 /\ TableSize - 1 \in Int
    BY <2>4, <2>5, <2>6
  <2>8. index \in 0..(TableSize - 1)
    BY ONLY <2>6, <2>7
  <2>9. QED
    BY <2>3, <2>6, <2>8, SMT
<1>3. QED
  BY <1>1, <1>2

(* One character of UTF-8. *)
Char(c) ==
    /\ c \in Seq(Byte) /\ Len(c) \in 1..3
    /\ CharLen(c[1]) = Len(c)
    /\ \A k \in 2..Len(c) : Continues(c[k])

LEMMA TwoBytes ==
  ASSUME NEW x \in 0..31, NEW y \in 0..63
  PROVE  Char(<<192 + x, 128 + y>>)
<1> DEFINE a == 192 + x
           b == 128 + y
<1>1. a \in Byte /\ b \in Byte /\ CharLen(a) = 2 /\ Continues(b)
  BY DEF Byte, CharLen, Continues
<1> HIDE DEF a, b
<1>2. Char(<<a, b>>)
  BY <1>1 DEF Char
<1>3. QED
  BY <1>2 DEF a, b

LEMMA ThreeBytes ==
  ASSUME NEW x \in 0..15, NEW y \in 0..63, NEW z \in 0..63
  PROVE  Char(<<224 + x, 128 + y, 128 + z>>)
<1> DEFINE a == 224 + x
           b == 128 + y
           c == 128 + z
<1>1. /\ a \in Byte /\ b \in Byte /\ c \in Byte
      /\ CharLen(a) = 3 /\ Continues(b) /\ Continues(c)
  BY DEF Byte, CharLen, Continues
<1> HIDE DEF a, b, c
<1>2. Char(<<a, b, c>>)
  BY <1>1 DEF Char
<1>3. QED
  BY <1>2 DEF a, b, c

LEMMA ByteIsChar ==
  ASSUME NEW b \in 0..127
  PROVE  Char(<<b>>)
<1>1. b \in Byte /\ CharLen(b) = 1
  BY DEF Byte, CharLen
<1>2. QED
  BY <1>1 DEF Char

(* The greatest value of a uint16_t. *)
MaxCode == 65535

(* Every value of a uint16_t is written as one character. *)
LEMMA Utf8IsChar ==
  ASSUME NEW u \in Nat, u <= MaxCode
  PROVE  Char(Utf8(u))
<1>1. CASE u = 0
  <2>1. Utf8(u) = <<Unknown>> /\ Unknown \in 0..127
    BY <1>1 DEF Utf8, Unknown
  <2>2. QED
    BY <2>1, ByteIsChar
<1>2. CASE u # 0 /\ u < 128
  <2>1. Utf8(u) = <<u>>
    BY <1>2 DEF Utf8
  <2>2. u \in 0..127
    BY <1>2
  <2>3. QED
    BY <2>1, <2>2, ByteIsChar
<1>3. CASE u >= 128 /\ u < 2048
  <2>1. u \div 64 \in 0..31 /\ u % 64 \in 0..63
    BY <1>3
  <2>2. Utf8(u) = <<192 + (u \div 64), 128 + (u % 64)>>
    BY <1>3 DEF Utf8
  <2>3. QED
    BY <2>1, <2>2, TwoBytes
<1>4. CASE u >= 2048
  <2> DEFINE v == u \div 64
             x == u \div 4096
             y == v % 64
             z == u % 64
  <2>1. x \in 0..15
    BY DEF MaxCode
  <2>2. y \in 0..63
    <3>1. v \in Nat
      OBVIOUS
    <3> HIDE DEF v
    <3>2. QED
      BY <3>1
  <2>3. z \in 0..63
    OBVIOUS
  <2>4. Utf8(u) = <<224 + x, 128 + y, 128 + z>>
    BY <1>4 DEF Utf8
  <2> HIDE DEF x, y, z
  <2>5. QED
    BY <2>1, <2>2, <2>3, <2>4, ThreeBytes, ZenonT(30)
<1>5. QED
  BY <1>1, <1>2, <1>3, <1>4

LEMMA EntryIsChar ==
  ASSUME NEW index \in 0..(TableSize - 1)
  PROVE  index \in DOMAIN TableEntry /\ Char(Utf8(TableEntry[index]))
<1>1. DOMAIN TableEntry = 0..(TableSize - 1)
  BY DEF TableEntry
<1>2. TableEntry[index] \in Nat /\ TableEntry[index] <= MaxCode
  BY DEF TableEntry, MaxCode
<1>3. Char(Utf8(TableEntry[index]))
  BY <1>2, Utf8IsChar
<1>4. QED
  BY <1>1, <1>3, Zenon

(* Text that ends with 0. *)
Text(t) == t \in Seq(Byte) /\ t # <<>> /\ t[Len(t)] = 0 /\ WellFormed(t)

(* A character in front of a text makes a text. *)
LEMMA CharThenText ==
  ASSUME NEW c, NEW t, Char(c), Text(t)
  PROVE  Text(c \o t) /\ Len(c \o t) = Len(c) + Len(t)
<1> DEFINE s == c \o t
           m == Len(c)
<1>1. /\ s \in Seq(Byte) /\ Len(s) = m + Len(t)
      /\ \A i \in 1..m : s[i] = c[i]
      /\ \A i \in 1..Len(t) : s[m + i] = t[i]
  BY DEF Char, Text
<1>2. m \in 1..3 /\ Len(t) \in Nat \ {0} /\ c \in Seq(Byte) /\ t \in Seq(Byte)
  BY DEF Char, Text
<1>3. DOMAIN s = 1..Len(s) /\ DOMAIN t = 1..Len(t)
  BY <1>1, <1>2
<1>4. s # <<>> /\ s[Len(s)] = 0
  BY <1>1, <1>2 DEF Text
<1>5. ~Continues(s[1])
  <2>1. s[1] = c[1] /\ CharLen(c[1]) \in 1..3 /\ c[1] \in Byte
    BY <1>1, <1>2 DEF Char
  <2>2. \A b \in Byte : CharLen(b) \in 1..3 => ~Continues(b)
    BY DEF CharLen, Continues, Byte
  <2>3. QED
    BY <2>1, <2>2
<1>6. ~Continues(t[1])
  BY DEF Text, WellFormed
<1>7. ASSUME NEW i \in DOMAIN s PROVE Continues(s[i]) \/ CharAt(s, i, i + CharLen(s[i]))
  <2>1. CASE i = 1
    <3>1. s[m + 1] = t[1]
      BY <1>1, <1>2
    <3>2. CharLen(s[1]) = m
      BY <1>1, <1>2 DEF Char
    <3>3. \A k \in 2..m : Continues(s[k])
      BY <1>1, <1>2 DEF Char
    <3>4. CharAt(s, 1, 1 + m)
      <4>1. s[1 + m] = s[m + 1] /\ Len(t) \in Nat \ {0}
        BY <1>2
      <4> HIDE DEF s, m
      <4>2. 1 < 1 + m /\ 1 + m <= Len(s) + 1 /\ (1 + 1)..((1 + m) - 1) = 2..m
        BY <1>1, <1>2
      <4>3. QED
        BY <1>6, <3>1, <3>3, <4>1, <4>2, Zenon DEF CharAt
    <3>5. QED
      BY <2>1, <3>2, <3>4
  <2>2. CASE i \in 2..m
    BY <1>1, <1>2, <2>2 DEF Char
  <2>3. CASE i > m
    <3> DEFINE j == i - m
               next == j + CharLen(t[j])
    <3>1. j \in DOMAIN t /\ s[i] = t[j] /\ i \in Nat
      <4>1. j \in 1..Len(t) /\ i = m + j
        BY <1>1, <1>2, <1>3, <2>3
      <4>2. QED
        BY <1>1, <1>3, <4>1
    <3>2. Continues(t[j]) \/ CharAt(t, j, next)
      BY <3>1 DEF Text, WellFormed
    <3>3. CASE CharAt(t, j, next)
      <4>1. CharLen(t[j]) \in 0..3
        BY DEF CharLen
      <4>2. j < next /\ next <= Len(t) + 1
        BY <3>3 DEF CharAt
      <4>3. ASSUME NEW k \in (i + 1)..((m + next) - 1) PROVE Continues(s[k])
        <5>1. k - m \in (j + 1)..(next - 1) /\ k - m \in 1..Len(t) /\ k = m + (k - m)
          BY <1>2, <3>1, <4>1, <4>2, SMTT(30)
        <5>2. Continues(t[k - m])
          BY <3>3, <5>1 DEF CharAt
        <5>3. QED
          BY <1>1, <5>1, <5>2
      <4>4. ASSUME m + next <= Len(s) PROVE ~Continues(s[m + next])
        <5>1. next \in 1..Len(t)
          BY <1>1, <1>2, <3>1, <4>1, <4>2, <4>4
        <5>2. ~Continues(t[next])
          BY <3>3, <5>1 DEF CharAt
        <5>3. QED
          BY <1>1, <5>1, <5>2
      <4>5. i + CharLen(s[i]) = m + next
        BY <1>2, <3>1, <4>1
      <4>6. i < m + next /\ m + next <= Len(s) + 1
        BY <1>1, <1>2, <3>1, <4>1, <4>2
      <4>7. CharAt(s, i, m + next)
        <5>1. m + next <= Len(s) => ~Continues(s[m + next])
          BY <4>4
        <5>2. \A k \in (i + 1)..((m + next) - 1) : Continues(s[k])
          BY <4>3, Zenon
        <5> HIDE DEF s, m, next
        <5>3. QED
          BY <4>6, <5>1, <5>2, Zenon DEF CharAt
      <4>8. QED
        BY <4>5, <4>7
    <3>4. QED
      BY <3>1, <3>2, <3>3
  <2>4. QED
    BY <1>1, <1>2, <1>3, <2>1, <2>2, <2>3
<1>8. WellFormed(s)
  BY <1>5, <1>7 DEF WellFormed
<1>9. QED
  BY <1>1, <1>4, <1>8 DEF Text

-----------------------------------------------------------------------------
(* What the loop writes and reads from a place on that has left bytes behind it:
   text, entries of the table, and no more than four bytes for each of the left.
   A character of three bytes for the last byte alone, and the 0, need four. *)
Room(left) == IF left > 0 THEN 4 * left ELSE 1
Tidy(r, left) ==
    Text(r.out) /\ Len(r.out) <= Room(left) /\ r.reads \subseteq 0..(TableSize - 1)

LEMMA JustEnd == Text(<<0>>)
<1> DEFINE z == <<0>>
<1>1. z \in Seq(Byte) /\ z # <<>> /\ Len(z) = 1 /\ z[1] = 0
  BY DEF Byte
<1> HIDE DEF z
<1>2. CharLen(z[1]) = 1 /\ ~Continues(z[1])
  BY <1>1 DEF CharLen, Continues
<1>3. CharAt(z, 1, 1 + CharLen(z[1]))
  BY <1>1, <1>2 DEF CharAt
<1>4. WellFormed(z)
  BY <1>1, <1>2, <1>3 DEF WellFormed
<1>5. Text(z)
  BY <1>1, <1>4 DEF Text
<1>6. QED
  BY <1>5 DEF z

LEMMA TurnIsTidy ==
  ASSUME NEW left \in Nat \ {0}, NEW byte1 \in 1..255, NEW byte2 \in Byte,
         NEW one, NEW two, Tidy(one, left - 1), Tidy(two, left - 2)
  PROVE  Tidy(Turn(byte1, byte2, one, two), left)
<1>a. /\ Text(one.out) /\ Len(one.out) \in Nat /\ Len(one.out) <= Room(left - 1)
      /\ Text(two.out) /\ Len(two.out) \in Nat /\ Len(two.out) <= Room(left - 2)
  BY DEF Tidy, Text
<1>b. Char(<<Unknown>>)
  <2>1. Unknown \in 0..127
    BY DEF Unknown
  <2>2. QED
    BY <2>1, ByteIsChar
<1>c. /\ \A a \in 1..3, len \in Nat : len <= Room(left - 2) => a + len <= Room(left)
      /\ \A len \in Nat : len <= Room(left - 1) => 1 + len <= Room(left)
  BY DEF Room
<1>1. CASE byte1 < 128
  <2>1. Turn(byte1, byte2, one, two) = [out |-> <<byte1>> \o one.out, reads |-> one.reads]
    BY <1>1 DEF Turn
  <2>2. Char(<<byte1>>)
    <3>1. byte1 \in 0..127
      BY <1>1
    <3>2. QED
      BY <3>1, ByteIsChar
  <2>3. Text(<<byte1>> \o one.out) /\ Len(<<byte1>> \o one.out) = 1 + Len(one.out)
    BY <1>a, <2>2, CharThenText
  <2>4. 1 + Len(one.out) <= Room(left)
    BY <1>a, <1>c
  <2>5. QED
    BY <2>1, <2>3, <2>4 DEF Tidy
<1>2. CASE ~(byte1 < 128) /\ byte2 = 0
  <2>1. Turn(byte1, byte2, one, two) = [out |-> <<Unknown>> \o <<0>>, reads |-> {}]
    BY <1>2, Zenon DEF Turn, AtEnd
  <2>2. Text(<<Unknown>> \o <<0>>) /\ Len(<<Unknown>> \o <<0>>) = 2
    BY <1>b, JustEnd, CharThenText
  <2>3. 2 <= Room(left)
    BY DEF Room
  <2>4. QED
    BY <2>1, <2>2, <2>3 DEF Tidy
<1>3. CASE ~(byte1 < 128) /\ byte2 # 0 /\ byte2 % 128 = 127
  <2>1. Turn(byte1, byte2, one, two) = [out |-> <<Unknown>> \o two.out, reads |-> two.reads]
    BY <1>3, Zenon DEF Turn
  <2>2. Text(<<Unknown>> \o two.out) /\ Len(<<Unknown>> \o two.out) = 1 + Len(two.out)
    BY <1>a, <1>b, CharThenText
  <2>3. 1 + Len(two.out) <= Room(left)
    BY <1>a, <1>c
  <2>4. QED
    BY <2>1, <2>2, <2>3 DEF Tidy
<1>4. CASE ~(byte1 < 128) /\ byte2 # 0 /\ byte2 % 128 # 127
  <2> DEFINE index == gbk_to_index(byte1, byte2)
             char == Utf8(TableEntry[index])
  <2>1. index \in 0..(TableSize - 1)
    <3>1. byte1 \in 128..255 /\ byte2 \in 1..255
      BY <1>4 DEF Byte
    <3>2. QED
      BY <1>4, <3>1, IndexInTable
  <2>2. Turn(byte1, byte2, one, two) =
          [out |-> (IF index \in DOMAIN TableEntry THEN char ELSE <<Unknown>>) \o two.out,
           reads |-> {index} \union two.reads]
    BY <1>4, Zenon DEF Turn
  <2> HIDE DEF index
  <2>3. index \in DOMAIN TableEntry /\ Char(char)
    BY <2>1, EntryIsChar
  <2> HIDE DEF char
  <2>5. Text(char \o two.out) /\ Len(char \o two.out) = Len(char) + Len(two.out)
    BY <1>a, <2>3, CharThenText
  <2>6. Len(char) + Len(two.out) <= Room(left)
    BY <1>a, <1>c, <2>3 DEF Char
  <2>7. {index} \union two.reads \subseteq 0..(TableSize - 1)
    BY <2>1 DEF Tidy
  <2>8. QED
    BY <2>2, <2>3, <2>5, <2>6, <2>7 DEF Tidy
<1>5. QED
  BY <1>1, <1>2, <1>3, <1>4

(* At every place, down to the first: the last place where it were otherwise is
   neither at the end nor, by TurnIsTidy, before it.                        *)
LEMMA AllGood ==
  ASSUME NEW n \in Nat, NEW src \in Seq(Byte), Len(src) = n + 1
  PROVE  Tidy(From(src, n)[1], n)
<1> DEFINE F == From(src, n)
           Bad == {k \in 0..(n + 1) : ~Tidy(F[n + 2 - k], k - 1)}
<1> HIDE DEF F
<1>1. \A pos \in 1..(n + 2) : F[pos] = Body(src, n, F, pos)
  BY FromIs DEF F
<1>2. Bad = {}
  <2>1. SUFFICES ASSUME Bad # {} PROVE FALSE
    OBVIOUS
  <2>2. PICK k \in Bad : \A j \in Bad : k <= j
    <3>1. Bad \subseteq Nat
      OBVIOUS
    <3> HIDE DEF Bad
    <3>2. QED
      BY <2>1, <3>1, Least
  <2> DEFINE pos == n + 2 - k
  <2>3. k \in 0..(n + 1) /\ pos \in 1..(n + 2) /\ ~Tidy(F[pos], k - 1)
    BY <2>2
  <2>4. \A j \in 0..(n + 1) : j < k => Tidy(F[n + 2 - j], j - 1)
    <3>1. SUFFICES ASSUME NEW j \in 0..(n + 1), j < k, ~Tidy(F[n + 2 - j], j - 1)
                   PROVE  FALSE
      OBVIOUS
    <3>2. j \in Bad
      BY <3>1
    <3> HIDE DEF Bad
    <3>3. QED
      BY <2>2, <2>3, <3>1, <3>2
  <2> HIDE DEF Bad
  <2>5. CASE pos > n \/ src[pos] = 0
    <3>1. F[pos] = AtEnd
      BY <1>1, <2>3, <2>5 DEF Body
    <3>2. Tidy(AtEnd, k - 1)
      <4>1. 1 <= Room(k - 1)
        BY <2>3 DEF Room
      <4>2. QED
        BY <4>1, JustEnd DEF Tidy, AtEnd
    <3>3. QED
      BY <2>3, <3>1, <3>2
  <2>6. CASE pos <= n /\ src[pos] # 0
    <3>1. F[pos] = Turn(src[pos], src[pos + 1], F[pos + 1], F[pos + 2])
      BY <1>1, <2>3, <2>6 DEF Body
    <3>2. k - 1 \in Nat \ {0} /\ k - 2 \in 0..(n + 1) /\ k - 1 \in 0..(n + 1)
      BY <2>3, <2>6
    <3>3. pos + 1 = n + 2 - (k - 1) /\ pos + 2 = n + 2 - (k - 2)
      BY <2>3
    <3>4. Tidy(F[pos + 1], (k - 1) - 1) /\ Tidy(F[pos + 2], (k - 1) - 2)
      <4>1. (k - 1) - 2 = (k - 2) - 1 /\ k - 1 < k /\ k - 2 < k
        BY <2>3
      <4>2. Tidy(F[n + 2 - (k - 1)], (k - 1) - 1) /\ Tidy(F[n + 2 - (k - 2)], (k - 2) - 1)
        BY <2>4, <3>2, <4>1
      <4>3. QED
        BY <3>3, <4>1, <4>2
    <3>5. src[pos] \in 1..255 /\ src[pos + 1] \in Byte
      <4>1. pos \in 1..Len(src) /\ pos + 1 \in 1..Len(src)
        BY <2>3, <2>6
      <4>2. src[pos] \in Byte /\ src[pos + 1] \in Byte
        BY <4>1
      <4>3. QED
        BY <2>6, <4>2, SMTT(30) DEF Byte
    <3>6. Tidy(F[pos], k - 1)
      BY <3>1, <3>2, <3>4, <3>5, TurnIsTidy
    <3>7. QED
      BY <2>3, <3>6
  <2>7. QED
    BY <2>3, <2>5, <2>6
<1>3. Tidy(F[n + 2 - (n + 1)], (n + 1) - 1)
  <2>1. \A k \in 0..(n + 1) : Tidy(F[n + 2 - k], k - 1)
    BY <1>2
  <2>2. n + 1 \in 0..(n + 1)
    OBVIOUS
  <2>3. QED
    BY <2>1, <2>2
<1>4. n + 2 - (n + 1) = 1 /\ (n + 1) - 1 = n
  OBVIOUS
<1>5. QED
  BY <1>3, <1>4 DEF F

-----------------------------------------------------------------------------
(* A message and the byte behind it are bytes, and a message that is not empty
   is as long as pr_info_gbk is told.                                       *)
MessageInv == message \in Seq(Byte) /\ behind \in Byte

LEMMA MessageInvariant == MessageSpec => []MessageInv
<1>1. InitMessage => MessageInv
  BY DEF InitMessage, MessageInv, Byte
<1>2. MessageInv /\ [MessageNext]_gb_vars => MessageInv'
  <2> SUFFICES ASSUME MessageInv, [MessageNext]_gb_vars PROVE MessageInv'
    OBVIOUS
  <2>1. ASSUME NEW byte \in MessageByte, NEW next \in MessageByte, Receive(byte, next)
        PROVE MessageInv'
    <3>1. byte \in Byte /\ next \in Byte
      BY MessageAssumption DEF Byte
    <3>2. QED
      BY <2>1, <3>1 DEF Receive, MessageInv
  <2>2. CASE UNCHANGED gb_vars
    BY <2>2 DEF gb_vars, MessageInv
  <2>3. QED
    BY <2>1, <2>2 DEF MessageNext
<1>3. QED
  BY <1>1, <1>2, PTL DEF MessageSpec

(* What is shown is all that the loop writes, since it has room. *)
LEMMA ShownIs ==
  ASSUME MessageInv
  PROVE  /\ Shown.reads \subseteq 0..(TableSize - 1)
         /\ message # <<>> => /\ Text(Shown.out)
                              /\ Shown.len <= 4 * Len(message)
<1> DEFINE n == Len(message)
           src == Append(message, behind)
           all == From(src, n)[1]
<1>1. n \in Nat /\ src \in Seq(Byte) /\ Len(src) = n + 1
  BY DEF MessageInv
<1>2. Tidy(all, n)
  <2> HIDE DEF n, src
  <2>1. QED
    BY <1>1, AllGood
<1>3. Shown = [reads |-> all.reads, len |-> Len(all.out),
               out |-> SubSeq(all.out, 1, IF Len(all.out) < 4 * n THEN Len(all.out) ELSE 4 * n)]
  BY Unfold, Zenon DEF Shown, pr_info_gbk
<1>4. n # 0 <=> message # <<>>
  BY DEF MessageInv
<1> HIDE DEF n, all
<1>5. all.reads \subseteq 0..(TableSize - 1) /\ all.out \in Seq(Byte) /\ Len(all.out) \in Nat
  BY <1>2 DEF Tidy, Text
<1>6. ASSUME n # 0
      PROVE  Text(Shown.out) /\ Shown.len <= 4 * n
  <2>1. Len(all.out) <= 4 * n
    BY <1>1, <1>2, <1>6 DEF Tidy, Room
  <2>2. (IF Len(all.out) < 4 * n THEN Len(all.out) ELSE 4 * n) = Len(all.out)
    BY <1>1, <1>5, <2>1
  <2>3. \A t \in Seq(Byte) : SubSeq(t, 1, Len(t)) = t
    OBVIOUS
  <2>4. Shown.out = all.out /\ Shown.len = Len(all.out)
    BY <1>3, <1>5, <2>2, <2>3
  <2>5. QED
    BY <1>2, <2>1, <2>4 DEF Tidy
<1>7. Shown.reads = all.reads
  BY <1>3
<1>8. QED
  BY <1>4, <1>5, <1>6, <1>7 DEF n

(* gbconv8 reads its table inside its bounds, for messages of every length and
   of every bytes, although it tests neither the pair of bytes nor the index, and
   although a message may end within a pair.                                *)
THEOREM TableReadInBoundsHolds == MessageSpec => []TableReadInBounds
<1>1. MessageInv => TableReadInBounds
  BY ShownIs DEF TableReadInBounds
<1>2. QED
  BY <1>1, MessageInvariant, PTL

(* Four bytes for each byte of the message are enough for pr_info_gbk, for every
   message that is not empty: what it prints ends inside its buffer, is whole,
   and is well-formed UTF-8.                                                *)
THEOREM MessageIsShownWholeHolds == MessageSpec => []MessageIsShownWhole
<1>1. MessageInv => MessageIsShownWhole
  BY ShownIs DEF MessageIsShownWhole, Text
<1>2. QED
  BY <1>1, MessageInvariant, PTL

-----------------------------------------------------------------------------
(* A sequence of pairs laid end to end, as rjv3_save_one_prop writes digits. *)
Joined(pairs, f, i) == IF i = 1 THEN pairs[i] ELSE f[i - 1] \o pairs[i]
Flatten(pairs) == CHOOSE f : f = [i \in 1..Len(pairs) |-> Joined(pairs, f, i)]

LEMMA FlattenIs ==
  ASSUME NEW pairs, Len(pairs) # 0
  PROVE  FlattenSeq(pairs) = Flatten(pairs)[Len(pairs)]
BY DEF FlattenSeq, Flatten, Joined

LEMMA Flattens ==
  ASSUME NEW pairs, NEW n \in Nat
  PROVE  \E f : f = [i \in 1..n |-> Joined(pairs, f, i)]
<1> DEFINE Solved(k) == \E f : f = [i \in 1..k |-> Joined(pairs, f, i)]
           Bad == {k \in 0..n : ~Solved(k)}
<1>1. Solved(0)
  <2>1. 1..0 = {}
    OBVIOUS
  <2>2. [i \in {} |-> 0] = [i \in {} |-> Joined(pairs, [j \in {} |-> 0], i)]
    OBVIOUS
  <2>3. QED
    BY <2>1, <2>2
<1>2. ASSUME NEW k \in 1..n, Solved(k - 1) PROVE Solved(k)
  <2>1. PICK f : f = [i \in 1..(k - 1) |-> Joined(pairs, f, i)]
    BY <1>2
  <2> DEFINE g == [i \in 1..k |-> IF i = k THEN Joined(pairs, f, k) ELSE f[i]]
  <2>2. ASSUME NEW i \in 1..k PROVE g[i] = Joined(pairs, g, i)
    <3>1. Joined(pairs, g, i) = Joined(pairs, f, i)
      <4>1. CASE i = 1
        BY <4>1 DEF Joined
      <4>2. CASE i # 1
        <5>1. g[i - 1] = f[i - 1]
          BY <4>2
        <5>2. QED
          BY <5>1 DEF Joined
      <4>3. QED
        BY <4>1, <4>2
    <3>2. CASE i = k
      BY <3>1, <3>2
    <3>3. CASE i # k
      <4>1. i \in 1..(k - 1)
        BY <3>3
      <4>2. f[i] = Joined(pairs, f, i)
        BY <2>1, <4>1
      <4>3. QED
        BY <3>1, <3>3, <4>2
    <3>4. QED
      BY <3>2, <3>3
  <2>3. g = [i \in 1..k |-> Joined(pairs, g, i)]
    BY <2>2
  <2>4. QED
    BY <2>3
<1>3. Bad = {}
  <2>1. SUFFICES ASSUME Bad # {} PROVE FALSE
    OBVIOUS
  <2>2. PICK k \in Bad : \A j \in Bad : k <= j
    <3>1. Bad \subseteq Nat
      OBVIOUS
    <3> HIDE DEF Bad
    <3>2. QED
      BY <2>1, <3>1, Least
  <2>3. k \in 0..n /\ ~Solved(k)
    OBVIOUS
  <2>4. k \in 1..n
    <3> HIDE DEF Solved
    <3>1. k # 0
      BY <1>1, <2>3
    <3>2. QED
      BY <2>3, <3>1
  <2>5. k - 1 \notin Bad
    <3> HIDE DEF Bad
    <3>1. QED
      BY <2>2, <2>4
  <2>6. Solved(k - 1)
    BY <2>4, <2>5
  <2>7. QED
    BY <1>2, <2>3, <2>4, <2>6
<1>4. Solved(n)
  BY <1>3
<1>5. QED
  BY <1>4

LEMMA FlattenDef ==
  ASSUME NEW pairs, Len(pairs) \in Nat
  PROVE  \A i \in 1..Len(pairs) : Flatten(pairs)[i] = Joined(pairs, Flatten(pairs), i)
<1>1. Flatten(pairs) = [i \in 1..Len(pairs) |-> Joined(pairs, Flatten(pairs), i)]
  BY Flattens DEF Flatten
<1>2. QED
  BY <1>1

(* t is s with two more elements. *)
Extends(t, s, x, y) ==
    /\ t \in Seq(Int) /\ Len(t) = Len(s) + 2
    /\ \A i \in 1..Len(s) : t[i] = s[i]
    /\ t[Len(s) + 1] = x /\ t[Len(s) + 2] = y

LEMMA PairBehind ==
  ASSUME NEW s \in Seq(Int), NEW x \in Int, NEW y \in Int
  PROVE  Extends(s \o <<x, y>>, s, x, y)
BY DEF Extends

(* Element by element: the pair number i is at 2i - 1 and 2i. *)
LEMMA PairsInOrder ==
  ASSUME NEW n \in Nat \ {0}, NEW a \in [1..n -> Int], NEW b \in [1..n -> Int]
  PROVE  LET all == FlattenSeq([i \in 1..n |-> <<a[i], b[i]>>])
         IN  /\ all \in Seq(Int) /\ Len(all) = 2 * n
             /\ \A i \in 1..n : all[2 * i - 1] = a[i] /\ all[2 * i] = b[i]
<1> DEFINE pairs == [i \in 1..n |-> <<a[i], b[i]>>]
           F == Flatten(pairs)
           Right(s, m) == /\ s \in Seq(Int) /\ Len(s) = 2 * m
                          /\ \A i \in 1..m : s[2 * i - 1] = a[i] /\ s[2 * i] = b[i]
           Bad == {k \in 1..n : ~Right(F[k], k)}
<1>1. Len(pairs) = n
  OBVIOUS
<1>2. \A i \in 1..n : F[i] = Joined(pairs, F, i)
  <2> HIDE DEF pairs
  <2>1. QED
    BY <1>1, FlattenDef
<1> HIDE DEF F
<1>3. \A i \in 1..n : pairs[i] = <<a[i], b[i]>>
  OBVIOUS
<1>4. Bad = {}
  <2>1. SUFFICES ASSUME Bad # {} PROVE FALSE
    OBVIOUS
  <2>2. PICK k \in Bad : \A j \in Bad : k <= j
    <3>1. Bad \subseteq Nat
      OBVIOUS
    <3> HIDE DEF Bad
    <3>2. QED
      BY <2>1, <3>1, Least
  <2>3. k \in 1..n /\ ~Right(F[k], k)
    OBVIOUS
  <2>4. a[k] \in Int /\ b[k] \in Int
    BY <2>3
  <2>5. CASE k = 1
    <3>1. F[k] = <<a[1], b[1]>>
      BY <1>2, <1>3, <2>3, <2>5 DEF Joined
    <3>2. Right(<<a[1], b[1]>>, 1)
      BY <2>4, <2>5
    <3>3. QED
      BY <2>3, <2>5, <3>1, <3>2
  <2>6. CASE k # 1
    <3>1. k - 1 \in 1..n /\ k - 1 \notin Bad
      <4> HIDE DEF Bad
      <4>1. QED
        BY <2>2, <2>3, <2>6
    <3>2. Right(F[k - 1], k - 1)
      BY <3>1
    <3>3. F[k] = F[k - 1] \o <<a[k], b[k]>>
      BY <1>2, <1>3, <2>3, <2>6 DEF Joined
    <3> DEFINE s == F[k - 1]
               t == s \o <<a[k], b[k]>>
    <3>4. /\ t \in Seq(Int) /\ Len(t) = 2 * k
          /\ \A i \in 1..(2 * (k - 1)) : t[i] = s[i]
          /\ t[2 * k - 1] = a[k] /\ t[2 * k] = b[k]
      <4>1. s \in Seq(Int) /\ Len(s) = 2 * (k - 1)
        BY <3>2
      <4> HIDE DEF s, Bad, Right, pairs
      <4>2. Extends(t, s, a[k], b[k])
        BY <2>4, <4>1, PairBehind, Zenon
      <4>3. 2 * (k - 1) + 1 = 2 * k - 1 /\ 2 * (k - 1) + 2 = 2 * k
        BY <2>3
      <4> HIDE DEF t
      <4>4. QED
        BY <4>1, <4>2, <4>3 DEF Extends
    <3>5. \A i \in 1..k : t[2 * i - 1] = a[i] /\ t[2 * i] = b[i]
      <4>1. SUFFICES ASSUME NEW i \in 1..k PROVE t[2 * i - 1] = a[i] /\ t[2 * i] = b[i]
        OBVIOUS
      <4>2. CASE i = k
        BY <3>4, <4>2
      <4>3. CASE i # k
        <5>1. i \in 1..(k - 1) /\ 2 * i - 1 \in 1..(2 * (k - 1)) /\ 2 * i \in 1..(2 * (k - 1))
          BY <2>3, <4>3
        <5>2. s[2 * i - 1] = a[i] /\ s[2 * i] = b[i]
          BY <3>2, <5>1
        <5> HIDE DEF t, s
        <5>3. QED
          BY <3>4, <5>1, <5>2
      <4>4. QED
        BY <4>2, <4>3
    <3>6. Right(t, k)
      BY <3>4, <3>5
    <3>7. QED
      BY <2>3, <3>3, <3>6
  <2>7. QED
    BY <2>5, <2>6
<1>5. Right(F[n], n)
  <2>1. n \in 1..n
    OBVIOUS
  <2>2. QED
    BY <1>4, <2>1
<1>6. FlattenSeq(pairs) = F[n]
  BY <1>1, FlattenIs DEF F
<1>7. QED
  BY <1>5, <1>6

-----------------------------------------------------------------------------
(* A byte is read back from the two digits it is written in. *)
LEMMA HexRoundTrip ==
  ASSUME NEW b \in Byte
  PROVE  char2hex(hex2char(b)) = b
<1>1. b \in 0..255
  BY DEF Byte
<1>2. 16 * (b \div 16) + (b % 16) = b
  BY <1>1
<1>3. QED
  BY <1>2 DEF char2hex, hex2char

(* The properties --rj-option can make: MAX_PROP_LEN digits are 100 bytes, so
   that neither of the two length bytes wraps.                              *)
OptionBytes == {c \in Seq(Byte) : Len(c) \in 1..100}
OptionProps == {NewProp(type, content) : type \in Byte, content \in OptionBytes}

LEMMA DigitsMakeBytes ==
  ASSUME NEW d \in Seq(0..15), d # <<>>
  PROVE  OptionContent(d) \in OptionBytes
<1> DEFINE n == IF Len(d) > 200 THEN 200 ELSE Len(d)
           m == (n + 1) \div 2
           c == OptionContent(d)
<1>1. Len(d) \in Nat \ {0} /\ n \in 1..200 /\ n <= Len(d)
  <2>1. Len(d) \in Nat \ {0}
    OBVIOUS
  <2>2. \A l \in Nat \ {0} : LET k == IF l > 200 THEN 200 ELSE l IN k \in 1..200 /\ k <= l
    OBVIOUS
  <2>3. QED
    BY <2>1, <2>2
<1>2. m \in 1..100 /\ 2 * m <= n + 1
  <2> HIDE DEF n
  <2>1. QED
    BY <1>1
<1>3. c = [i \in 1..m |-> char2hex(SubSeq(d, 2 * i - 1, IF 2 * i > Len(d) THEN 2 * i - 1 ELSE 2 * i))]
  BY DEF OptionContent
<1>4. ASSUME NEW i \in 1..m
      PROVE  char2hex(SubSeq(d, 2 * i - 1, IF 2 * i > Len(d) THEN 2 * i - 1 ELSE 2 * i)) \in Byte
  <2> HIDE DEF m, n
  <2>1. 2 * i - 1 \in 1..Len(d)
    BY <1>1, <1>2
  <2>2. CASE 2 * i > Len(d)
    <3> DEFINE t == SubSeq(d, 2 * i - 1, 2 * i - 1)
    <3>1. Len(t) = 1 /\ t[1] = d[2 * i - 1]
      BY <2>1
    <3>2. d[2 * i - 1] \in 0..15
      BY <2>1
    <3>3. char2hex(t) \in Byte
      BY <3>1, <3>2 DEF char2hex, Byte
    <3>4. QED
      BY <2>2, <3>3
  <2>3. CASE ~(2 * i > Len(d))
    <3> DEFINE t == SubSeq(d, 2 * i - 1, 2 * i)
    <3>1. Len(t) = 2 /\ t[1] = d[2 * i - 1] /\ t[2] = d[2 * i]
      BY <2>1, <2>3
    <3>2. d[2 * i - 1] \in 0..15 /\ d[2 * i] \in 0..15
      BY <2>1, <2>3, SMTT(30)
    <3>3. \A x \in 0..15, y \in 0..15 : 16 * x + y \in Byte
      BY DEF Byte
    <3>4. char2hex(t) = 16 * d[2 * i - 1] + d[2 * i]
      BY <3>1 DEF char2hex
    <3>5. char2hex(t) \in Byte
      BY <3>2, <3>3, <3>4
    <3>6. QED
      BY <2>3, <3>5
  <2>4. QED
    BY <2>2, <2>3
<1> HIDE DEF m, n, c
<1>5. c \in [1..m -> Byte]
  BY <1>3, <1>4
<1>6. c \in Seq(Byte) /\ Len(c) = m
  BY <1>2, <1>5
<1>7. QED
  BY <1>2, <1>6 DEF OptionBytes, c

(* What is saved of a property is read back as the same property. *)
LEMMA PropRoundTrip ==
  ASSUME NEW type \in Byte, NEW c \in OptionBytes
  PROVE  LET prop == NewProp(type, c)
         IN  NewProp(char2hex(hex2char(prop.type)), OptionContent(rjv3_save_one_prop(prop))) = prop
<1> DEFINE prop == NewProp(type, c)
           n == Len(c)
           a == [i \in 1..n |-> c[i] \div 16]
           b == [i \in 1..n |-> c[i] % 16]
           digits == rjv3_save_one_prop(prop)
<1>1. n \in 1..100 /\ c \in Seq(Byte)
  BY DEF OptionBytes
<1>2. \A i \in 1..n : c[i] \in 0..255
  <2>1. \A i \in 1..n : c[i] \in Byte
    BY <1>1
  <2>2. QED
    BY <2>1 DEF Byte
<1>3. prop.type = type /\ prop.content = c /\ PROP_TO_CONTENT_SIZE(prop) = n
  <2>1. prop.type = type /\ prop.content = c /\ prop.len = (n + 2) % 256
    BY DEF NewProp
  <2> HIDE DEF prop, n
  <2>2. (n + 2) % 256 = n + 2
    BY <1>1
  <2>3. QED
    BY <1>1, <2>1, <2>2 DEF PROP_TO_CONTENT_SIZE
<1>4. a \in [1..n -> Int] /\ b \in [1..n -> Int]
  <2>1. \A v \in 0..255 : v \div 16 \in Int /\ v % 16 \in Int
    OBVIOUS
  <2> HIDE DEF n
  <2>2. QED
    BY <1>2, <2>1
<1>5. digits = FlattenSeq([i \in 1..n |-> <<a[i], b[i]>>])
  <2> HIDE DEF prop, n
  <2>1. \A i \in 1..n : hex2char(c[i]) = <<a[i], b[i]>>
    BY DEF hex2char
  <2>2. [i \in 1..n |-> hex2char(c[i])] = [i \in 1..n |-> <<a[i], b[i]>>]
    BY <2>1
  <2>3. QED
    BY <1>3, <2>2, Zenon DEF rjv3_save_one_prop
<1>6. /\ digits \in Seq(Int) /\ Len(digits) = 2 * n
      /\ \A i \in 1..n : digits[2 * i - 1] = a[i] /\ digits[2 * i] = b[i]
  <2> HIDE DEF digits, a, b, n
  <2>1. n \in Nat \ {0}
    BY <1>1
  <2>2. QED
    BY <1>4, <1>5, <2>1, PairsInOrder, Zenon
<1> HIDE DEF digits, prop, n
<1>7. OptionContent(digits) = c
  <2>1. Len(digits) \in Nat /\ ~(Len(digits) > 200) /\ (Len(digits) + 1) \div 2 = n
    BY <1>1, <1>6
  <2>2. OptionContent(digits) =
          [i \in 1..n |-> char2hex(SubSeq(digits, 2 * i - 1,
                                          IF 2 * i > Len(digits) THEN 2 * i - 1 ELSE 2 * i))]
    BY <2>1 DEF OptionContent
  <2>3. ASSUME NEW i \in 1..n
        PROVE  char2hex(SubSeq(digits, 2 * i - 1,
                               IF 2 * i > Len(digits) THEN 2 * i - 1 ELSE 2 * i)) = c[i]
    <3> DEFINE t == SubSeq(digits, 2 * i - 1, 2 * i)
    <3>1. ~(2 * i > Len(digits)) /\ 2 * i - 1 \in 1..Len(digits) /\ 2 * i \in 1..Len(digits)
      BY <1>1, <1>6
    <3>2. Len(t) = 2 /\ t[1] = digits[2 * i - 1] /\ t[2] = digits[2 * i]
      BY <1>6, <3>1
    <3>3. t[1] = c[i] \div 16 /\ t[2] = c[i] % 16
      BY <1>6, <3>2
    <3>4. 16 * (c[i] \div 16) + (c[i] % 16) = c[i]
      BY <1>2
    <3> HIDE DEF t
    <3>5. char2hex(t) = 16 * t[1] + t[2]
      BY <3>2 DEF char2hex
    <3>6. char2hex(t) = c[i]
      BY <3>3, <3>4, <3>5, Zenon
    <3>7. QED
      BY <3>1, <3>6 DEF t
  <2>4. OptionContent(digits) = [i \in 1..n |-> c[i]]
    BY <2>2, <2>3
  <2>5. c = [i \in 1..n |-> c[i]]
    BY <1>1 DEF n
  <2>6. QED
    BY <2>4, <2>5
<1>8. QED
  BY <1>3, <1>7, HexRoundTrip DEF prop, digits

(* The lists hold nothing but what --rj-option made. *)
PropsInv == cmd_prop_list \in Seq(OptionProps) /\ cmd_prop_mod_list \in Seq(OptionProps)

LEMMA PropsInvariant == PropsSpec => []PropsInv
<1>1. InitProps => PropsInv
  BY DEF InitProps, PropsInv
<1>2. PropsInv /\ [PropsNext]_props_vars => PropsInv'
  <2> SUFFICES ASSUME PropsInv, [PropsNext]_props_vars PROVE PropsInv'
    OBVIOUS
  <2>1. ASSUME NEW type \in OptionType, NEW digits \in OptionDigits, NEW replace \in BOOLEAN,
               RjOption(type, digits, replace)
        PROVE  PropsInv'
    <3> DEFINE prop == NewProp(type, OptionContent(digits))
    <3>1. type \in Byte /\ digits \in Seq(0..15) /\ digits # <<>>
      BY PropsAssumption DEF Byte
    <3>2. OptionContent(digits) \in OptionBytes
      BY <3>1, DigitsMakeBytes
    <3>3. prop \in OptionProps
      BY <3>1, <3>2 DEF OptionProps
    <3>4. \/ cmd_prop_mod_list' = Append(cmd_prop_mod_list, prop) /\ cmd_prop_list' = cmd_prop_list
          \/ cmd_prop_list' = Append(cmd_prop_list, prop) /\ cmd_prop_mod_list' = cmd_prop_mod_list
      BY <2>1, Zenon DEF RjOption
    <3> HIDE DEF prop
    <3>5. \A list \in Seq(OptionProps) : Append(list, prop) \in Seq(OptionProps)
      <4> HIDE DEF OptionProps
      <4>1. QED
        BY <3>3
    <3>6. QED
      BY <3>4, <3>5, Zenon DEF PropsInv
  <2>2. ASSUME NEW type \in ServerType, NEW size \in ServerSize, NEW lie \in BOOLEAN,
               ServerProp(type, size, lie)
        PROVE  PropsInv'
    BY <2>2, Zenon DEF ServerProp, PropsInv
  <2>3. CASE UNCHANGED props_vars
    BY <2>3 DEF props_vars, PropsInv
  <2>4. QED
    BY <2>1, <2>2, <2>3, Zenon DEF PropsNext
<1>3. QED
  BY <1>1, <1>2, PTL DEF PropsSpec

(* Whatever --rj-options were given, in whatever number, and however many digits
   their values have: rjv3_save_config writes each of them so that the next start
   makes the same property of it.                                           *)
THEOREM OptionsSurviveSaveHolds == PropsSpec => []OptionsSurviveSave
<1>1. PropsInv => OptionsSurviveSave
  <2> SUFFICES ASSUME PropsInv, NEW prop \in Range(cmd_prop_list \o cmd_prop_mod_list)
               PROVE  NewProp(char2hex(hex2char(prop.type)),
                              OptionContent(rjv3_save_one_prop(prop))) = prop
    BY Zenon DEF OptionsSurviveSave
  <2> DEFINE both == cmd_prop_list \o cmd_prop_mod_list
  <2>1. both \in Seq(OptionProps)
    BY DEF PropsInv
  <2>2. PICK i \in DOMAIN both : prop = both[i]
    BY DEF Range
  <2>3. prop \in OptionProps
    BY <2>1, <2>2
  <2>4. PICK type \in Byte, c \in OptionBytes : prop = NewProp(type, c)
    BY <2>3 DEF OptionProps
  <2>5. QED
    BY <2>4, PropRoundTrip, Zenon
<1>2. QED
  BY <1>1, PropsInvariant, PTL

-----------------------------------------------------------------------------
(* The parser at place pos, with f the result for the places behind it. *)
Header(bare) == IF bare THEN HEADER2 ELSE HEADER1 + HEADER2
Refused(buf, bare, pos) ==
    pos + Header(bare) > Len(buf) \/ Slice(buf, pos + Header(bare) - HEADER2, 4) # Magic
PropAt(buf, bare, start) ==
    NewProp(buf[start - 1], Slice(buf, start, ContentLen(buf, start, bare)))
Behind(buf, bare, pos) == pos + Header(bare) + ContentLen(buf, pos + Header(bare), bare)
Reading(buf, bare, f, pos) ==
    IF pos >= Len(buf) THEN [ok |-> TRUE, list |-> <<>>]
    ELSE IF Refused(buf, bare, pos) THEN [ok |-> FALSE, list |-> <<>>]
    ELSE [ok |-> f[Behind(buf, bare, pos)].ok,
          list |-> <<PropAt(buf, bare, pos + Header(bare))>> \o f[Behind(buf, bare, pos)].list]
Reader(buf, bare) == CHOOSE f : f = [pos \in Nat |-> Reading(buf, bare, f, pos)]

LEMMA ParseIs ==
  ASSUME NEW buf, NEW bare
  PROVE  parse_rjv3_buf_to_prop_list(buf, bare) = Reader(buf, bare)[0]
BY DEF parse_rjv3_buf_to_prop_list, Reader, Reading, Refused, PropAt, Behind, Header

LEMMA FindIs ==
  ASSUME NEW buf \in Seq(Nat), NEW from \in 0..Len(buf)
  PROVE  find_byte_pattern(buf, from) \in (-1)..(Len(buf) - from)
<1> DEFINE rest == Len(buf) - from
           hits == {k \in 0..rest : k + 4 < rest /\ Slice(buf, from + k, 4) = Magic}
<1>1. rest \in Nat
  OBVIOUS
<1>2. CASE hits = {}
  BY <1>1, <1>2 DEF find_byte_pattern
<1>3. CASE hits # {}
  <2>1. hits \subseteq Nat
    OBVIOUS
  <2>2. PICK k \in hits : \A j \in hits : k <= j
    <3> HIDE DEF hits
    <3>1. QED
      BY <1>3, <2>1, Least
  <2>3. (CHOOSE j \in hits : \A i \in hits : j <= i) \in hits
    BY <2>2
  <2>4. find_byte_pattern(buf, from) \in hits
    BY <1>3, <2>3 DEF find_byte_pattern
  <2>5. QED
    BY <2>4
<1>4. QED
  BY <1>2, <1>3

(* Every property the parser takes brings it further, into a buffer that may
   end before it.                                                           *)
LEMMA GoesOn ==
  ASSUME NEW buf \in Seq(Nat), NEW bare \in BOOLEAN, NEW pos \in Nat,
         pos < Len(buf), ~Refused(buf, bare, pos)
  PROVE  Behind(buf, bare, pos) \in Nat /\ Behind(buf, bare, pos) > pos
<1> DEFINE start == pos + Header(bare)
           next == find_byte_pattern(buf, start)
<1>1. Header(bare) \in {6, 8} /\ (bare <=> Header(bare) = 6)
  BY DEF Header, HEADER1, HEADER2
<1>2. start \in 1..Len(buf) /\ start \in 0..Len(buf)
  BY <1>1 DEF Refused
<1>3. next \in (-1)..(Len(buf) - start)
  BY <1>2, FindIs
<1>4. buf[start] \in Nat
  BY <1>2
<1>5. ContentLen(buf, start, bare) \in Int /\ ContentLen(buf, start, bare) >= -2
  <2> HIDE DEF start, next
  <2>1. CASE bare
    <3>1. ContentLen(buf, start, bare) =
            IF rjv3_prop_length_field_ok(buf[start - 1], buf[start]) THEN buf[start] - 2
            ELSE IF next = -1 THEN Len(buf) - start ELSE next
      BY <2>1 DEF ContentLen, next
    <3>2. QED
      BY <1>2, <1>3, <1>4, <3>1
  <2>2. CASE ~bare
    <3>1. ContentLen(buf, start, bare) =
            IF buf[start - 7] = 26 THEN buf[start] - 2
            ELSE IF next = -1 THEN Len(buf) - start ELSE next - 2
      BY <2>2 DEF ContentLen, next, HEADER1
    <3>2. QED
      BY <1>2, <1>3, <1>4, <3>1
  <2>3. QED
    BY <2>1, <2>2
<1>6. QED
  <2> DEFINE c == ContentLen(buf, start, bare)
             h == Header(bare)
  <2>1. Behind(buf, bare, pos) = pos + h + c
    BY DEF Behind
  <2> HIDE DEF c, h
  <2>2. c \in Int /\ c >= -2 /\ h \in {6, 8}
    BY <1>1, <1>5 DEF c, h
  <2>3. QED
    BY <2>1, <2>2

LEMMA ReaderExists ==
  ASSUME NEW buf \in Seq(Nat), NEW bare \in BOOLEAN
  PROVE  \E f : f = [pos \in Nat |-> Reading(buf, bare, f, pos)]
<1> DEFINE n == Len(buf)
           Place(k) == {pos \in Nat : pos >= n - k}
           Solved(k) == \E f : f = [pos \in Place(k) |-> Reading(buf, bare, f, pos)]
           Bad == {k \in 0..n : ~Solved(k)}
<1>0. n \in Nat
  OBVIOUS
<1>1. Solved(0)
  <2> DEFINE f == [pos \in Place(0) |-> [ok |-> TRUE, list |-> <<>>]]
  <2>1. \A pos \in Place(0) : Reading(buf, bare, f, pos) = [ok |-> TRUE, list |-> <<>>]
    BY DEF Reading
  <2>2. f = [pos \in Place(0) |-> Reading(buf, bare, f, pos)]
    BY <2>1
  <2>3. QED
    BY <2>2
<1>2. ASSUME NEW k \in 0..(n - 1), Solved(k) PROVE Solved(k + 1)
  <2>1. PICK f : f = [pos \in Place(k) |-> Reading(buf, bare, f, pos)]
    BY <1>2
  <2> DEFINE new == n - (k + 1)
             g == [pos \in Place(k + 1) |-> IF pos = new THEN Reading(buf, bare, f, new) ELSE f[pos]]
  <2>2. ASSUME NEW pos \in Place(k + 1)
        PROVE  Reading(buf, bare, g, pos) = Reading(buf, bare, f, pos)
    <3>1. CASE pos >= n \/ Refused(buf, bare, pos)
      BY <3>1 DEF Reading
    <3>2. CASE pos < n /\ ~Refused(buf, bare, pos)
      <4> DEFINE next == Behind(buf, bare, pos)
      <4>1. next \in Nat /\ next > pos
        BY <3>2, GoesOn
      <4> HIDE DEF next
      <4>2. next \in Place(k) /\ next \in Place(k + 1) /\ next # new
        BY <1>0, <4>1
      <4>3. g[next] = f[next]
        BY <4>2
      <4>4. QED
        BY <4>3 DEF Reading, next
    <3>3. QED
      BY <1>0, <3>1, <3>2
  <2>3. ASSUME NEW pos \in Place(k + 1) PROVE g[pos] = Reading(buf, bare, g, pos)
    <3>1. CASE pos = new
      BY <2>2, <3>1
    <3>2. CASE pos # new
      <4>1. pos \in Place(k)
        BY <1>0, <3>2
      <4>2. f[pos] = Reading(buf, bare, f, pos)
        BY <2>1, <4>1
      <4>3. QED
        BY <2>2, <3>2, <4>2
    <3>3. QED
      BY <3>1, <3>2
  <2>4. g = [pos \in Place(k + 1) |-> Reading(buf, bare, g, pos)]
    BY <2>3
  <2>5. QED
    BY <2>4
<1>3. Bad = {}
  <2>1. SUFFICES ASSUME Bad # {} PROVE FALSE
    OBVIOUS
  <2>2. Bad \subseteq Nat
    OBVIOUS
  <2>3. PICK k \in Bad : \A j \in Bad : k <= j
    <3> HIDE DEF Bad
    <3>1. QED
      BY <2>1, <2>2, Least
  <2>4. k # 0
    BY <1>1
  <2>5. k - 1 \in 0..(n - 1) /\ k - 1 \in 0..n /\ k - 1 \notin Bad
    <3>1. k \in 0..n
      BY <2>3
    <3> HIDE DEF Bad
    <3>2. QED
      BY <1>0, <2>3, <2>4, <3>1
  <2>6. Solved(k - 1)
    BY <2>5
  <2>7. Solved((k - 1) + 1)
    <3> HIDE DEF Solved, Bad
    <3>1. QED
      BY <1>2, <2>5, <2>6
  <2>8. k \in 0..n /\ ~Solved(k)
    BY <2>3
  <2>9. (k - 1) + 1 = k
    BY <2>8
  <2> HIDE DEF Solved, Bad
  <2>10. QED
    BY <2>7, <2>8, <2>9
<1>4. Solved(n)
  <2>1. \A k \in 0..n : Solved(k)
    BY <1>3
  <2> HIDE DEF Solved
  <2>2. QED
    BY <1>0, <2>1
<1>5. Place(n) = Nat
  BY <1>0
<1>6. QED
  BY <1>4, <1>5

LEMMA ReaderIs ==
  ASSUME NEW buf \in Seq(Nat), NEW bare \in BOOLEAN
  PROVE  \A pos \in Nat : Reader(buf, bare)[pos] = Reading(buf, bare, Reader(buf, bare), pos)
<1>1. Reader(buf, bare) = [pos \in Nat |-> Reading(buf, bare, Reader(buf, bare), pos)]
  BY ReaderExists, Zenon DEF Reader
<1>2. QED
  BY <1>1

-----------------------------------------------------------------------------
(* A property as the server may send it: its length byte is right unless it is
   of the types 0 and 1, and no byte of its content is one of a header.     *)
Sent ==
    {p \in [type : Byte, len : 2..255, content : Seq(Nat)] :
        /\ Len(p.content) <= 253
        /\ p.type \notin {0, 1} => p.len = Len(p.content) + 2
        /\ \A k \in 1..Len(p.content) : p.content[k] > 255}

Piece(p) == Magic \o <<p.type, p.len>> \o p.content

(* The property p is in s behind the byte number at. *)
LaidAt(s, at, p) ==
    /\ at + 6 + Len(p.content) <= Len(s)
    /\ s[at + 1] = 0 /\ s[at + 2] = 0 /\ s[at + 3] = 19 /\ s[at + 4] = 17
    /\ s[at + 5] = p.type /\ s[at + 6] = p.len
    /\ \A k \in 1..Len(p.content) : s[at + 6 + k] = p.content[k]

LEMMA SentHas ==
  ASSUME NEW p \in Sent
  PROVE  /\ p.type \in Nat /\ p.len \in Nat /\ p.content \in Seq(Nat)
         /\ Len(p.content) \in Nat /\ Len(p.content) <= 253 /\ p.len >= 2
<1>1. p.type \in Byte /\ p.len \in 2..255 /\ p.content \in Seq(Nat) /\ Len(p.content) <= 253
  BY DEF Sent
<1>2. p.type \in Nat /\ p.len \in Nat /\ p.len >= 2
  <2>1. (\A b \in Byte : b \in Nat) /\ \A b \in 2..255 : b \in Nat /\ b >= 2
    BY DEF Byte
  <2>2. QED
    BY <1>1, <2>1, Zenon
<1>3. Len(p.content) \in Nat
  BY <1>1
<1>4. QED
  BY <1>1, <1>2, <1>3, Zenon

LEMMA Concat ==
  ASSUME NEW s \in Seq(Nat), NEW t \in Seq(Nat)
  PROVE  /\ s \o t \in Seq(Nat) /\ Len(s \o t) = Len(s) + Len(t)
         /\ Len(s) \in Nat /\ Len(t) \in Nat
         /\ \A i \in 1..Len(s) : (s \o t)[i] = s[i]
         /\ \A i \in 1..Len(t) : (s \o t)[Len(s) + i] = t[i]
OBVIOUS

LEMMA PieceIs ==
  ASSUME NEW p \in Sent
  PROVE  Piece(p) \in Seq(Nat) /\ Len(Piece(p)) = 6 + Len(p.content) /\ LaidAt(Piece(p), 0, p)
<1> DEFINE m == <<0, 0, 19, 17>>
           h == <<p.type, p.len>>
           first == m \o h
           c == p.content
           all == first \o c
<1>1. p.type \in Nat /\ p.len \in Nat /\ c \in Seq(Nat)
  BY SentHas
<1>2. m \in Seq(Nat) /\ Len(m) = 4 /\ m[1] = 0 /\ m[2] = 0 /\ m[3] = 19 /\ m[4] = 17
  OBVIOUS
<1>3. h \in Seq(Nat) /\ Len(h) = 2 /\ h[1] = p.type /\ h[2] = p.len
  BY <1>1
<1>4. Piece(p) = all
  <2>1. Piece(p) = m \o h \o c
    BY DEF Piece, Magic
  <2>2. m \o h \o c = (m \o h) \o c
    BY <1>1, <1>2, <1>3
  <2>3. QED
    BY <2>1, <2>2
<1> HIDE DEF m, h, c
<1>5. /\ first \in Seq(Nat) /\ Len(first) = 6
      /\ first[1] = 0 /\ first[2] = 0 /\ first[3] = 19 /\ first[4] = 17
      /\ first[5] = p.type /\ first[6] = p.len
  <2>1. /\ first \in Seq(Nat) /\ Len(first) = Len(m) + Len(h)
        /\ \A i \in 1..Len(m) : first[i] = m[i]
        /\ \A i \in 1..Len(h) : first[Len(m) + i] = h[i]
    BY <1>2, <1>3, Concat
  <2> HIDE DEF first
  <2>2. Len(first) = 6 /\ (\A i \in 1..4 : first[i] = m[i]) /\ \A i \in 1..2 : first[4 + i] = h[i]
    BY <1>2, <1>3, <2>1
  <2>3. first[4 + 1] = h[1] /\ first[4 + 2] = h[2]
    BY <2>2
  <2>4. QED
    BY <1>2, <1>3, <2>1, <2>2, <2>3
<1> HIDE DEF first
<1>6. /\ all \in Seq(Nat) /\ Len(all) = Len(first) + Len(c) /\ Len(c) \in Nat
      /\ \A i \in 1..Len(first) : all[i] = first[i]
      /\ \A i \in 1..Len(c) : all[Len(first) + i] = c[i]
  BY <1>1, <1>5, Concat
<1> HIDE DEF all
<1>7. LaidAt(all, 0, p)
  <2>1. Len(all) = 6 + Len(c) /\ (\A i \in 1..6 : all[i] = first[i])
        /\ \A i \in 1..Len(c) : all[6 + i] = c[i]
    BY <1>5, <1>6
  <2>2. all[0 + 1] = 0 /\ all[0 + 2] = 0 /\ all[0 + 3] = 19 /\ all[0 + 4] = 17
        /\ all[0 + 5] = p.type /\ all[0 + 6] = p.len
    BY <1>5, <2>1
  <2>3. \A k \in 1..Len(c) : all[0 + 6 + k] = c[k]
    BY <1>6, <2>1
  <2>4. 0 + 6 + Len(c) <= Len(all)
    BY <1>6, <2>1
  <2>5. QED
    BY <2>2, <2>3, <2>4, Zenon DEF LaidAt, c
<1>8. QED
  BY <1>4, <1>5, <1>6, <1>7 DEF c

(* What lies in s lies in t as well, when t has the same bytes there. *)
LEMMA LaidMoves ==
  ASSUME NEW s, NEW t, NEW at \in Nat, NEW d \in Nat, NEW p \in Sent,
         Len(s) \in Nat, Len(t) \in Nat, LaidAt(s, at, p), d + Len(s) <= Len(t),
         \A i \in 1..Len(s) : t[d + i] = s[i]
  PROVE  LaidAt(t, d + at, p)
<1> DEFINE c == p.content
           l == Len(c)
<1>1. l \in Nat
  BY SentHas
<1>2. at + 6 + l <= Len(s)
  BY DEF LaidAt
<1> HIDE DEF l
<1>3. \A j \in 1..(6 + l) : t[d + at + j] = s[at + j]
  <2>1. ASSUME NEW j \in 1..(6 + l) PROVE t[d + at + j] = s[at + j]
    <3>1. at + j \in 1..Len(s)
      BY <1>1, <1>2
    <3>2. d + at + j = d + (at + j)
      BY <1>1
    <3>3. QED
      BY <3>1, <3>2
  <2>2. QED
    BY <2>1
<1>4. /\ t[d + at + 1] = 0 /\ t[d + at + 2] = 0 /\ t[d + at + 3] = 19 /\ t[d + at + 4] = 17
      /\ t[d + at + 5] = p.type /\ t[d + at + 6] = p.len
  <2>1. {1, 2, 3, 4, 5, 6} \subseteq 1..(6 + l)
    BY <1>1
  <2>2. /\ s[at + 1] = 0 /\ s[at + 2] = 0 /\ s[at + 3] = 19 /\ s[at + 4] = 17
        /\ s[at + 5] = p.type /\ s[at + 6] = p.len
    BY DEF LaidAt
  <2>3. QED
    BY <1>3, <2>1, <2>2
<1>5. ASSUME NEW k \in 1..l PROVE t[d + at + 6 + k] = c[k]
  <2>1. s[at + 6 + k] = c[k]
    BY DEF LaidAt, l
  <2>2. at + 6 + k = at + (6 + k) /\ d + at + 6 + k = d + at + (6 + k) /\ 6 + k \in 1..(6 + l)
    BY <1>1
  <2>3. QED
    BY <1>3, <2>1, <2>2
<1>6. d + at + 6 + l <= Len(t)
  BY <1>1, <1>2
<1>7. QED
  BY <1>4, <1>5, <1>6, Zenon DEF LaidAt, l

LEMMA LaidStays ==
  ASSUME NEW s \in Seq(Nat), NEW t \in Seq(Nat), NEW at \in Nat, NEW p \in Sent, LaidAt(s, at, p)
  PROVE  LaidAt(s \o t, at, p)
<1> DEFINE all == s \o t
<1>1. Len(s) \in Nat /\ Len(all) \in Nat /\ 0 + Len(s) <= Len(all)
  BY Concat
<1>2. \A i \in 1..Len(s) : all[0 + i] = s[i]
  BY Concat
<1> HIDE DEF all
<1>3. LaidAt(all, 0 + at, p)
  BY <1>1, <1>2, LaidMoves
<1>4. QED
  BY <1>3 DEF all

LEMMA LaidBehind ==
  ASSUME NEW s \in Seq(Nat), NEW t \in Seq(Nat), NEW p \in Sent, LaidAt(t, 0, p)
  PROVE  LaidAt(s \o t, Len(s), p)
<1> DEFINE all == s \o t
<1>1. Len(s) \in Nat /\ Len(t) \in Nat /\ Len(all) \in Nat /\ Len(s) + Len(t) <= Len(all)
  BY Concat
<1>2. \A i \in 1..Len(t) : all[Len(s) + i] = t[i]
  BY Concat
<1> HIDE DEF all
<1>3. LaidAt(all, Len(s) + 0, p)
  BY <1>1, <1>2, LaidMoves
<1>4. Len(s) + 0 = Len(s)
  BY <1>1
<1>5. QED
  BY <1>3, <1>4 DEF all

(* The properties lie in buf one behind the other, place[i] bytes up to and with
   the one of number i.                                                     *)
Layout(props, m, place, buf) ==
    /\ buf \in Seq(Nat) /\ place[0] = 0 /\ place[m] = Len(buf)
    /\ \A i \in 1..m : /\ place[i - 1] \in Nat
                       /\ place[i] = place[i - 1] + (6 + Len(props[i].content))
                       /\ LaidAt(buf, place[i - 1], props[i])

LEMMA ServerLayout ==
  ASSUME NEW props \in Seq(Sent), props # <<>>
  PROVE  \E place : Layout(props, Len(props), place,
                           FlattenSeq([i \in DOMAIN props |-> Piece(props[i])]))
<1> DEFINE n == Len(props)
           pieces == [i \in DOMAIN props |-> Piece(props[i])]
           F == Flatten(pieces)
           place == [i \in 0..n |-> IF i = 0 THEN 0 ELSE Len(F[i])]
           Bad == {k \in 1..n : ~Layout(props, k, place, F[k])}
<1>1. n \in Nat \ {0} /\ DOMAIN props = 1..n /\ Len(pieces) = n
  OBVIOUS
<1>2. \A i \in 1..n : F[i] = Joined(pieces, F, i)
  <2> HIDE DEF pieces, n
  <2>1. QED
    BY <1>1, FlattenDef
<1>3. \A i \in 1..n : pieces[i] = Piece(props[i]) /\ props[i] \in Sent
  BY <1>1
<1> HIDE DEF F, pieces
<1>4. Bad = {}
  <2>1. SUFFICES ASSUME Bad # {} PROVE FALSE
    OBVIOUS
  <2>2. PICK k \in Bad : \A j \in Bad : k <= j
    <3>1. Bad \subseteq Nat
      BY <1>1
    <3> HIDE DEF Bad
    <3>2. QED
      BY <2>1, <3>1, Least
  <2>3. k \in 1..n /\ ~Layout(props, k, place, F[k])
    OBVIOUS
  <2> DEFINE p == props[k]
             q == Piece(p)
             l == Len(p.content)
  <2>4. p \in Sent /\ pieces[k] = q
    BY <1>3, <2>3
  <2>5. q \in Seq(Nat) /\ Len(q) = 6 + l /\ LaidAt(q, 0, p) /\ l \in Nat
    BY <2>4, PieceIs, SentHas
  <2>6. CASE k = 1
    <3>1. F[k] = q
      BY <1>2, <2>3, <2>4, <2>6 DEF Joined
    <3>2. place[0] = 0 /\ place[1] = Len(q)
      BY <1>1, <2>6, <3>1
    <3> HIDE DEF place, q, l
    <3>3. Layout(props, 1, place, q)
      BY <2>5, <2>6, <3>2 DEF Layout, l
    <3>4. QED
      BY <2>3, <2>6, <3>1, <3>3
  <2>7. CASE k # 1
    <3> DEFINE s == F[k - 1]
    <3>1. k - 1 \in 1..n /\ k - 1 \notin Bad
      <4> HIDE DEF Bad
      <4>1. QED
        BY <1>1, <2>2, <2>3, <2>7
    <3>2. Layout(props, k - 1, place, s)
      BY <3>1
    <3>3. F[k] = s \o q
      BY <1>2, <2>3, <2>4, <2>7 DEF Joined
    <3>4. place[k - 1] = Len(s) /\ place[k] = Len(s \o q)
      BY <1>1, <2>3, <2>7, <3>1, <3>3, SMTT(30)
    <3> HIDE DEF place, q, l, s, p
    <3>5. s \in Seq(Nat) /\ place[0] = 0
      BY <3>2 DEF Layout
    <3>6. s \o q \in Seq(Nat) /\ Len(s \o q) = Len(s) + (6 + l) /\ Len(s) \in Nat
      <4>1. s \o q \in Seq(Nat) /\ Len(s \o q) = Len(s) + Len(q) /\ Len(s) \in Nat
        BY <2>5, <3>5, Concat, Zenon
      <4>2. Len(q) = 6 + l
        BY <2>5
      <4>3. QED
        BY <4>1, <4>2, Zenon
    <3>7. LaidAt(s \o q, Len(s), p)
      BY <2>4, <2>5, <3>5, LaidBehind
    <3>8. ASSUME NEW i \in 1..k
          PROVE  /\ place[i - 1] \in Nat
                 /\ place[i] = place[i - 1] + (6 + Len(props[i].content))
                 /\ LaidAt(s \o q, place[i - 1], props[i])
      <4>1. CASE i = k
        BY <3>4, <3>6, <3>7, <4>1 DEF p, l
      <4>2. CASE i # k
        <5>1. i \in 1..(k - 1)
          BY <2>3, <4>2
        <5>2. /\ place[i - 1] \in Nat
              /\ place[i] = place[i - 1] + (6 + Len(props[i].content))
              /\ LaidAt(s, place[i - 1], props[i])
          BY <3>2, <5>1 DEF Layout
        <5>3. props[i] \in Sent
          BY <1>3, <2>3
        <5>4. QED
          BY <2>5, <3>5, <5>2, <5>3, LaidStays
      <4>3. QED
        BY <4>1, <4>2
    <3>9. Layout(props, k, place, s \o q)
      BY <3>4, <3>5, <3>6, <3>8 DEF Layout
    <3>10. QED
      BY <2>3, <3>3, <3>9
  <2>8. QED
    BY <2>6, <2>7
<1>5. Layout(props, n, place, F[n])
  <2>1. \A k \in 1..n : Layout(props, k, place, F[k])
    BY <1>4
  <2> HIDE DEF place, n
  <2>2. QED
    BY <1>1, <2>1
<1>6. FlattenSeq(pieces) = F[n]
  BY <1>1, FlattenIs DEF F
<1>7. QED
  BY <1>5, <1>6 DEF pieces

LEMMA LaidFits ==
  ASSUME NEW buf \in Seq(Nat), NEW at \in Nat, NEW p \in Sent, LaidAt(buf, at, p)
  PROVE  \A i \in 1..(6 + Len(p.content)) : at + i <= Len(buf)
<1> DEFINE l == Len(p.content)
           b == Len(buf)
<1>1. l \in Nat /\ at + 6 + l <= b
  BY SentHas DEF LaidAt
<1>2. b \in Nat
  OBVIOUS
<1> HIDE DEF l, b
<1>3. \A i \in 1..(6 + l) : at + i <= b
  BY <1>1, <1>2
<1>4. QED
  BY <1>3 DEF l, b

(* The magic of a property is found where it is, *)
LEMMA MagicHere ==
  ASSUME NEW buf \in Seq(Nat), NEW at \in Nat, NEW p \in Sent, LaidAt(buf, at, p)
  PROVE  Slice(buf, at, 4) = Magic
<1>1. \A i \in 1..4 : at + i <= Len(buf)
  <2>1. Len(p.content) \in Nat
    BY SentHas
  <2>2. 1..4 \subseteq 1..(6 + Len(p.content))
    BY <2>1
  <2>3. QED
    BY <2>2, LaidFits
<1>2. /\ buf[at + 1] = 0 /\ buf[at + 2] = 0 /\ buf[at + 3] = 19 /\ buf[at + 4] = 17
  BY DEF LaidAt
<1>3. Slice(buf, at, 4) = [i \in 1..4 |-> buf[at + i]]
  BY <1>1 DEF Slice
<1>4. \A i \in 1..4 : buf[at + i] = Magic[i]
  BY <1>2, SMTT(30) DEF Magic
<1>5. Magic = [i \in 1..4 |-> Magic[i]]
  BY DEF Magic
<1>6. QED
  BY <1>3, <1>4, <1>5

(* and nowhere in its content. *)
LEMMA NoMagicInside ==
  ASSUME NEW buf \in Seq(Nat), NEW at \in Nat, NEW p \in Sent, LaidAt(buf, at, p),
         NEW k \in Nat, k < Len(p.content)
  PROVE  Slice(buf, at + 6 + k, 4) # Magic
<1> DEFINE c == p.content
           here == at + 6 + k
<1>1. Len(c) \in Nat
  BY SentHas
<1>2. k + 1 \in 1..Len(c) /\ here + 1 = at + 6 + (k + 1) /\ here + 1 <= Len(buf)
  <2>1. k + 1 \in 1..Len(c) /\ 7 + k \in 1..(6 + Len(c))
    BY <1>1
  <2>2. at + (7 + k) <= Len(buf)
    BY <2>1, LaidFits
  <2>3. here + 1 = at + 6 + (k + 1) /\ here + 1 = at + (7 + k)
    OBVIOUS
  <2> HIDE DEF here, c
  <2>4. QED
    BY <2>1, <2>2, <2>3, Zenon
<1>3. c[k + 1] > 255
  BY <1>2 DEF Sent
<1>4. buf[here + 1] = c[k + 1]
  BY <1>2 DEF LaidAt
<1> HIDE DEF here, c
<1>5. Slice(buf, here, 4)[1] = buf[here + 1]
  BY <1>2 DEF Slice
<1>6. Magic[1] = 0
  BY DEF Magic
<1>7. c[k + 1] # 0
  BY <1>3
<1>8. QED
  BY <1>4, <1>5, <1>6, <1>7 DEF here

LEMMA ContentHere ==
  ASSUME NEW buf \in Seq(Nat), NEW at \in Nat, NEW p \in Sent, LaidAt(buf, at, p)
  PROVE  Slice(buf, at + 6, Len(p.content)) = p.content
<1> DEFINE c == p.content
           l == Len(c)
<1>1. c \in Seq(Nat) /\ l \in Nat /\ at + 6 + l <= Len(buf)
  BY SentHas DEF LaidAt
<1>2. \A k \in 1..l : buf[at + 6 + k] = c[k]
  BY DEF LaidAt
<1>3. c = [k \in 1..l |-> c[k]]
  BY <1>1
<1> HIDE DEF c, l
<1>4. \A k \in 1..l : at + 6 + k <= Len(buf)
  BY <1>1
<1>5. Slice(buf, at + 6, l) = [k \in 1..l |-> buf[at + 6 + k]]
  BY <1>4 DEF Slice
<1>6. QED
  BY <1>2, <1>3, <1>5 DEF c, l

(* The length the parser comes to is right, whether it believes the length byte
   or looks for the next magic.                                             *)
LEMMA LengthFound ==
  ASSUME NEW props \in Seq(Sent), NEW place, NEW buf, NEW i \in 1..Len(props),
         Layout(props, Len(props), place, buf)
  PROVE  ContentLen(buf, place[i - 1] + 6, TRUE) = Len(props[i].content)
<1> DEFINE n == Len(props)
           at == place[i - 1]
           p == props[i]
           l == Len(p.content)
           start == at + 6
           next == find_byte_pattern(buf, start)
           rest == Len(buf) - start
           hits == {k \in 0..rest : k + 4 < rest /\ Slice(buf, start + k, 4) = Magic}
<1>1. buf \in Seq(Nat) /\ at \in Nat /\ place[i] = at + (6 + l) /\ LaidAt(buf, at, p)
  BY DEF Layout
<1>2. p \in Sent /\ l \in Nat /\ at + 6 + l <= Len(buf) /\ n \in Nat
  <2>1. p \in Sent
    OBVIOUS
  <2>2. QED
    BY <1>1, <2>1, SentHas DEF LaidAt
<1>3. buf[start - 1] = p.type /\ buf[start] = p.len
  <2>1. start - 1 = at + 5
    BY <1>1
  <2>2. QED
    BY <1>1, <2>1 DEF LaidAt
<1>4. ContentLen(buf, start, TRUE) =
        IF rjv3_prop_length_field_ok(p.type, p.len) THEN p.len - 2
        ELSE IF next = -1 THEN Len(buf) - start ELSE next
  BY <1>3 DEF ContentLen
<1>5. CASE p.type \notin {0, 1}
  <2>1. p.len = l + 2 /\ p.len >= 2
    BY <1>2, <1>5, SentHas DEF Sent
  <2>2. rjv3_prop_length_field_ok(p.type, p.len)
    BY <1>5, <2>1 DEF rjv3_prop_length_field_ok
  <2>3. ContentLen(buf, start, TRUE) = p.len - 2
    BY <1>4, <2>2
  <2>4. (l + 2) - 2 = l
    BY <1>2
  <2>5. QED
    BY <2>1, <2>3, <2>4
<1>6. CASE p.type \in {0, 1}
  <2>1. ~rjv3_prop_length_field_ok(p.type, p.len)
    BY <1>6 DEF rjv3_prop_length_field_ok
  <2>2. ASSUME NEW k \in hits PROVE k \in Nat /\ k >= l
    <3>1. k \in Nat /\ Slice(buf, start + k, 4) = Magic
      OBVIOUS
    <3>2. start + k = at + 6 + k
      BY <1>1, <3>1
    <3> HIDE DEF l
    <3>3. ~(k < l)
      BY <1>1, <1>2, <3>1, <3>2, NoMagicInside DEF l
    <3>4. QED
      BY <1>2, <3>1, <3>3
  <2>3. next = IF hits = {} THEN -1 ELSE CHOOSE k \in hits : \A j \in hits : k <= j
    BY DEF find_byte_pattern
  <2>4. CASE i = n
    <3>1. rest = l /\ rest \in Nat
      <4>1. place[n] = Len(buf)
        BY DEF Layout
      <4> HIDE DEF l, at, n
      <4>2. QED
        BY <1>1, <1>2, <2>4, <4>1
    <3>2. ASSUME NEW k \in hits PROVE FALSE
      <4>1. k + 4 < rest
        OBVIOUS
      <4> HIDE DEF hits, rest, l
      <4>2. QED
        BY <1>2, <2>2, <3>1, <4>1
    <3>3. hits = {}
      BY <3>2
    <3> HIDE DEF hits, next, rest
    <3>4. next = -1
      BY <2>3, <3>3
    <3>5. ContentLen(buf, start, TRUE) = Len(buf) - start
      BY <1>4, <2>1, <3>4
    <3>6. QED
      BY <3>1, <3>5 DEF rest
  <2>5. CASE i # n
    <3> DEFINE r == props[i + 1]
    <3>1. i + 1 \in 1..n /\ (i + 1) - 1 = i
      BY <1>2, <2>5
    <3>2. r \in Sent /\ Len(r.content) \in Nat
      BY <3>1, SentHas
    <3>3. place[i] \in Nat /\ LaidAt(buf, place[i], r)
      BY <3>1 DEF Layout
    <3>4. Slice(buf, place[i], 4) = Magic /\ place[i] + 6 + Len(r.content) <= Len(buf)
      BY <1>1, <3>2, <3>3, MagicHere DEF LaidAt
    <3>5. place[i] = start + l
      <4> HIDE DEF l, at
      <4>1. QED
        BY <1>1, <1>2
    <3>6. l \in hits
      <4> DEFINE v == Len(r.content)
                 b == Len(buf)
      <4>1. start \in Nat /\ v \in Nat /\ b \in Nat /\ start + l + 6 + v <= b
        <5> HIDE DEF l, v
        <5>1. start \in Nat /\ start + l \in Nat /\ b \in Nat
          <6>1. at \in Nat /\ l \in Nat /\ b \in Nat
            BY <1>1, <1>2
          <6> HIDE DEF at, b
          <6>2. QED
            BY <6>1
        <5> HIDE DEF start, b
        <5>2. QED
          BY <3>2, <3>4, <3>5, <5>1 DEF v, b
      <4> HIDE DEF l, start, v, r
      <4>2. l \in 0..rest /\ l + 4 < rest
        <5> HIDE DEF b
        <5>1. rest = b - start
          BY DEF b
        <5> HIDE DEF rest
        <5>2. QED
          BY <1>2, <4>1, <5>1
      <4>3. QED
        BY <3>4, <3>5, <4>2
    <3> HIDE DEF hits, next, l, start
    <3>7. (CHOOSE k \in hits : \A j \in hits : k <= j) = l
      <4>1. \A j \in hits : l <= j
        BY <1>2, <2>2
      <4>2. \A k \in hits : (\A j \in hits : k <= j) => k = l
        BY <1>2, <2>2, <3>6
      <4>3. QED
        BY <3>6, <4>1, <4>2
    <3>8. next = l /\ next # -1
      <4>1. hits # {}
        BY <3>6
      <4>2. next = l
        BY <2>3, <3>7, <4>1
      <4>3. QED
        BY <1>2, <4>2
    <3>9. QED
      BY <1>4, <2>1, <3>8 DEF l, start
  <2>6. QED
    BY <2>4, <2>5
<1>7. QED
  BY <1>5, <1>6

-----------------------------------------------------------------------------
Got(p) == NewProp(p.type, p.content)
AllGot(props) == [k \in 1..Len(props) |-> Got(props[k])]

(* What is behind the first i elements of G. *)
RestOf(G, n, i) == [k \in 1..(n - i) |-> G[i + k]]

LEMMA ConsRest ==
  ASSUME NEW S, NEW n \in Nat, NEW G \in [1..n -> S], NEW i \in 0..n, i < n
  PROVE  <<G[i + 1]>> \o RestOf(G, n, i + 1) = RestOf(G, n, i)
<1> DEFINE one == <<G[i + 1]>>
           t == RestOf(G, n, i + 1)
           s == RestOf(G, n, i)
           m == n - (i + 1)
<1>1. m \in Nat /\ n - i = m + 1 /\ i + 1 \in 1..n
  OBVIOUS
<1>2. \A k \in 1..m : (i + 1) + k \in 1..n
  OBVIOUS
<1>3. t \in Seq(S) /\ Len(t) = m /\ \A k \in 1..m : t[k] = G[(i + 1) + k]
  <2>1. t = [k \in 1..m |-> G[(i + 1) + k]]
    BY DEF RestOf
  <2> HIDE DEF t, m
  <2>2. QED
    BY <1>1, <1>2, <2>1
<1>4. s = [k \in 1..(m + 1) |-> G[i + k]]
  BY <1>1 DEF RestOf
<1>5. one \in Seq(S) /\ Len(one) = 1 /\ one[1] = G[i + 1]
  BY <1>1
<1> HIDE DEF one, t, s, m
<1> DEFINE u == one \o t
<1>6. /\ u \in Seq(S) /\ Len(u) = m + 1
      /\ u[1] = G[i + 1] /\ \A k \in 1..m : u[1 + k] = t[k]
  <2>1. /\ u \in Seq(S) /\ Len(u) = Len(one) + Len(t)
        /\ \A k \in 1..Len(one) : u[k] = one[k]
        /\ \A k \in 1..Len(t) : u[Len(one) + k] = t[k]
    <3>1. one \in Seq(S) /\ t \in Seq(S)
      BY <1>3, <1>5
    <3>2. QED
      BY <3>1
  <2> HIDE DEF u
  <2>2. QED
    BY <1>1, <1>3, <1>5, <2>1
<1> HIDE DEF u
<1>7. ASSUME NEW k \in 1..(m + 1) PROVE u[k] = G[i + k]
  <2>1. CASE k = 1
    BY <1>6, <2>1
  <2>2. CASE k # 1
    <3>1. k - 1 \in 1..m /\ (i + 1) + (k - 1) = i + k
      BY <1>1, <2>2
    <3>2. u[k] = t[k - 1]
      <4>1. 1 + (k - 1) = k
        BY <3>1
      <4>2. QED
        BY <1>6, <3>1, <4>1
    <3>3. QED
      BY <1>3, <3>1, <3>2
  <2>3. QED
    BY <2>1, <2>2
<1>8. u = [k \in 1..(m + 1) |-> u[k]]
  BY <1>6
<1>9. u = s
  BY <1>4, <1>7, <1>8
<1>10. QED
  BY <1>9 DEF u, one, t, s

(* The parser reads a laid out message property by property. *)
LEMMA ReadsAll ==
  ASSUME NEW props \in Seq(Sent), props # <<>>, NEW place, NEW buf,
         Layout(props, Len(props), place, buf)
  PROVE  parse_rjv3_buf_to_prop_list(buf, TRUE).list = AllGot(props)
<1> DEFINE n == Len(props)
           R == Reader(buf, TRUE)
           G == AllGot(props)
           Read(i) == [ok |-> TRUE, list |-> RestOf(G, n, i)]
           Bad == {m \in 0..n : R[place[n - m]] # Read(n - m)}
<1>1. n \in Nat /\ n # 0 /\ buf \in Seq(Nat) /\ Len(buf) \in Nat
  BY DEF Layout
<1>2. place[0] = 0 /\ place[n] = Len(buf)
  BY DEF Layout
<1>3. \A i \in 0..(n - 1) :
         /\ place[i] \in Nat /\ place[i + 1] = place[i] + (6 + Len(props[i + 1].content))
         /\ LaidAt(buf, place[i], props[i + 1]) /\ props[i + 1] \in Sent
  <2>1. ASSUME NEW i \in 0..(n - 1)
        PROVE  /\ place[i] \in Nat /\ place[i + 1] = place[i] + (6 + Len(props[i + 1].content))
               /\ LaidAt(buf, place[i], props[i + 1]) /\ props[i + 1] \in Sent
    <3>1. i + 1 \in 1..n /\ (i + 1) - 1 = i
      BY <1>1
    <3>2. props[i + 1] \in Sent
      BY <3>1
    <3>3. QED
      BY <3>1, <3>2 DEF Layout
  <2>2. QED
    BY <2>1
<1>4. \A pos \in Nat : R[pos] = Reading(buf, TRUE, R, pos)
  BY <1>1, ReaderIs
<1>5. G = [k \in 1..n |-> Got(props[k])]
  BY DEF AllGot
<1> HIDE DEF R, G
<1>6. Bad = {}
  <2>1. SUFFICES ASSUME Bad # {} PROVE FALSE
    OBVIOUS
  <2>2. PICK m \in Bad : \A j \in Bad : m <= j
    <3>1. Bad \subseteq Nat
      BY <1>1
    <3> HIDE DEF Bad
    <3>2. QED
      BY <2>1, <3>1, Least
  <2>3. m \in 0..n /\ R[place[n - m]] # Read(n - m)
    OBVIOUS
  <2>4. CASE m = 0
    <3>1. n - m = n /\ n - n = 0
      BY <1>1, <2>4
    <3>2. R[place[n]] = [ok |-> TRUE, list |-> <<>>]
      <4>1. R[Len(buf)] = Reading(buf, TRUE, R, Len(buf))
        BY <1>1, <1>4, Zenon
      <4>2. Len(buf) >= Len(buf)
        BY <1>1
      <4>3. QED
        BY <1>2, <4>1, <4>2 DEF Reading
    <3>3. RestOf(G, n, n) = <<>>
      BY <3>1 DEF RestOf
    <3>4. QED
      BY <2>3, <3>1, <3>2, <3>3
  <2>5. CASE m # 0
    <3> DEFINE i == n - m
               p == props[i + 1]
               l == Len(p.content)
               pos == place[i]
               next == place[i + 1]
    <3>1. i \in 0..(n - 1) /\ i \in 0..n /\ i < n /\ m - 1 \in 0..n /\ n - (m - 1) = i + 1
          /\ i + 1 \in 1..n /\ (i + 1) - 1 = i
      BY <1>1, <2>3, <2>5
    <3>2. pos \in Nat /\ next = pos + (6 + l) /\ LaidAt(buf, pos, p) /\ p \in Sent
      BY <1>3, <3>1
    <3>3. m - 1 \notin Bad
      <4> HIDE DEF Bad, i
      <4>1. QED
        BY <1>1, <2>2, <2>3, <2>5, <3>1
    <3>4. R[next] = Read(i + 1)
      BY <3>1, <3>3
    <3>5. ContentLen(buf, pos + 6, TRUE) = l
      <4>1. ContentLen(buf, place[(i + 1) - 1] + 6, TRUE) = Len(props[i + 1].content)
        <5> HIDE DEF i
        <5>1. QED
          BY <3>1, LengthFound
      <4>2. QED
        BY <3>1, <4>1
    <3> HIDE DEF i, p, pos, next
    <3>6. l \in Nat /\ pos < Len(buf) /\ ~(pos + 6 > Len(buf)) /\ pos + 6 - 6 = pos
          /\ (pos + 6) - 1 = pos + 5
      <4>1. l \in Nat
        BY <3>2, SentHas
      <4>2. 6 \in 1..(6 + l)
        BY <4>1
      <4>3. pos + 6 <= Len(buf)
        BY <1>1, <3>2, <4>2, LaidFits
      <4> HIDE DEF l
      <4>4. QED
        BY <1>1, <3>2, <4>1, <4>3
    <3>7. Header(TRUE) = 6 /\ HEADER2 = 6
      BY DEF Header, HEADER2
    <3>8. Slice(buf, pos, 4) = Magic
      BY <1>1, <3>2, MagicHere
    <3>9. ~Refused(buf, TRUE, pos)
      BY <3>6, <3>7, <3>8, Zenon DEF Refused
    <3>10. Behind(buf, TRUE, pos) = next
      <4>1. Behind(buf, TRUE, pos) = pos + 6 + l
        BY <3>5, <3>7 DEF Behind
      <4> HIDE DEF l
      <4>2. pos + 6 + l = pos + (6 + l)
        BY <3>2, <3>6
      <4>3. QED
        BY <3>2, <4>1, <4>2
    <3>11. PropAt(buf, TRUE, pos + 6) = Got(p)
      <4>1. buf[pos + 5] = p.type
        BY <3>2 DEF LaidAt
      <4>2. Slice(buf, pos + 6, l) = p.content
        BY <1>1, <3>2, ContentHere
      <4>3. QED
        BY <3>5, <3>6, <4>1, <4>2 DEF PropAt, Got
    <3>12. R[pos] = [ok |-> TRUE, list |-> <<Got(p)>> \o RestOf(G, n, i + 1)]
      <4>1. R[pos] = Reading(buf, TRUE, R, pos)
        BY <1>4, <3>2
      <4>2. ~(pos >= Len(buf))
        BY <1>1, <3>2, <3>6
      <4>3. R[next].ok = TRUE /\ R[next].list = RestOf(G, n, i + 1)
        BY <3>4
      <4>4. QED
        BY <3>7, <3>9, <3>10, <3>11, <4>1, <4>2, <4>3, Zenon DEF Reading
    <3>13. Got(p) = G[i + 1]
      BY <1>5, <3>1 DEF p
    <3>14. <<G[i + 1]>> \o RestOf(G, n, i + 1) = RestOf(G, n, i)
      <4> DEFINE S == {Got(props[k]) : k \in 1..n}
      <4>1. G \in [1..n -> S]
        BY <1>5
      <4> HIDE DEF S, n
      <4>2. QED
        BY <1>1, <3>1, <4>1, ConsRest
    <3>15. R[pos] = Read(i)
      BY <3>12, <3>13, <3>14
    <3>16. QED
      BY <2>3, <3>15 DEF i, pos
  <2>6. QED
    BY <2>4, <2>5
<1>7. R[place[0]] = Read(0)
  <2>1. \A m \in 0..n : R[place[n - m]] = Read(n - m)
    BY <1>6
  <2> HIDE DEF n, Read
  <2>2. n \in 0..n /\ n - n = 0
    BY <1>1
  <2>3. QED
    BY <2>1, <2>2
<1>8. RestOf(G, n, 0) = G
  <2>1. n - 0 = n /\ \A k \in 1..n : 0 + k = k
    BY <1>1
  <2> HIDE DEF n
  <2>2. RestOf(G, n, 0) = [k \in 1..n |-> G[k]]
    BY <2>1 DEF RestOf
  <2>3. G = [k \in 1..n |-> G[k]]
    BY <1>5
  <2>4. QED
    BY <2>2, <2>3
<1>9. parse_rjv3_buf_to_prop_list(buf, TRUE) = R[0]
  BY ParseIs DEF R
<1>10. R[0] = [ok |-> TRUE, list |-> G]
  BY <1>2, <1>7, <1>8
<1>11. R[0].list = G
  BY <1>10
<1>12. QED
  BY <1>9, <1>11 DEF G

-----------------------------------------------------------------------------
(* The server's properties are as Sent has it. *)
ServerInv == server_props \in Seq(Sent)

LEMMA ServerInvariant == PropsSpec => []ServerInv
<1>1. InitProps => ServerInv
  BY DEF InitProps, ServerInv
<1>2. ServerInv /\ [PropsNext]_props_vars => ServerInv'
  <2> SUFFICES ASSUME ServerInv, [PropsNext]_props_vars PROVE ServerInv'
    OBVIOUS
  <2>1. ASSUME NEW type \in OptionType, NEW digits \in OptionDigits, NEW replace \in BOOLEAN,
               RjOption(type, digits, replace)
        PROVE  ServerInv'
    BY <2>1, Zenon DEF RjOption, ServerInv
  <2>2. ASSUME NEW type \in ServerType, NEW size \in ServerSize, NEW lie \in BOOLEAN,
               ServerProp(type, size, lie)
        PROVE  ServerInv'
    <3> DEFINE m == Len(server_props) + 1
               content == [k \in 1..size |-> 1000 * m + k]
               len == IF lie /\ type \in {0, 1} THEN 2 ELSE size + 2
               p == [type |-> type, len |-> len, content |-> content]
    <3>1. type \in Byte /\ size \in 0..253
      BY PropsAssumption DEF Byte
    <3>2. m \in Nat /\ m >= 1
      BY DEF ServerInv
    <3>3. server_props' = Append(server_props, p)
      BY <2>2, Zenon DEF ServerProp
    <3>4. len \in 2..255 /\ (type \notin {0, 1} => len = size + 2)
      BY <3>1
    <3> HIDE DEF m, len
    <3>5. \A k \in 1..size : 1000 * m + k \in Nat /\ 1000 * m + k > 255
      BY <3>1, <3>2
    <3>6. content \in Seq(Nat) /\ Len(content) = size /\ \A k \in 1..size : content[k] > 255
      BY <3>1, <3>5
    <3> HIDE DEF content
    <3>7. p.type = type /\ p.len = len /\ p.content = content
          /\ p \in [type : Byte, len : 2..255, content : Seq(Nat)]
      BY <3>1, <3>4, <3>6
    <3> HIDE DEF p
    <3>8. p \in Sent
      <4>1. size <= 253
        BY <3>1
      <4>2. QED
        BY <3>4, <3>6, <3>7, <4>1, Zenon DEF Sent
    <3>9. QED
      BY <3>3, <3>8 DEF ServerInv
  <2>3. CASE UNCHANGED props_vars
    BY <2>3 DEF props_vars, ServerInv
  <2>4. QED
    BY <2>1, <2>2, <2>3, Zenon DEF PropsNext
<1>3. QED
  BY <1>1, <1>2, PTL DEF PropsSpec

LEMMA ServerListIs ==
  ASSUME ServerInv
  PROVE  rjv3_process_result_prop.list = AllGot(server_props)
<1> DEFINE pieces == [i \in DOMAIN server_props |-> Piece(server_props[i])]
           list == IF server_props = <<>> THEN <<>>
                   ELSE parse_rjv3_buf_to_prop_list(ServerBytes, TRUE).list
<1>1. rjv3_process_result_prop.list = list
  BY DEF rjv3_process_result_prop
<1>2. CASE server_props = <<>>
  <2>1. AllGot(server_props) = <<>>
    BY <1>2 DEF AllGot
  <2>2. QED
    BY <1>1, <1>2, <2>1
<1>3. CASE server_props # <<>>
  <2>1. ServerBytes = FlattenSeq(pieces)
    BY DEF ServerBytes, Piece
  <2>2. PICK place : Layout(server_props, Len(server_props), place, FlattenSeq(pieces))
    BY <1>3, ServerLayout DEF ServerInv
  <2> HIDE DEF pieces
  <2>3. parse_rjv3_buf_to_prop_list(FlattenSeq(pieces), TRUE).list = AllGot(server_props)
    BY <1>3, <2>2, ReadsAll DEF ServerInv
  <2>4. QED
    BY <1>1, <1>3, <2>1, <2>3
<1>4. QED
  BY <1>2, <1>3

LEMMA GotHas ==
  ASSUME NEW p \in Sent
  PROVE  /\ Got(p).type = p.type /\ Got(p).content = p.content
         /\ PROP_TO_CONTENT_SIZE(Got(p)) = Len(p.content)
<1> DEFINE l == Len(p.content)
<1>1. Got(p).type = p.type /\ Got(p).content = p.content /\ Got(p).len = (l + 2) % 256
  BY DEF Got, NewProp
<1>2. l \in Nat /\ l <= 253
  BY SentHas
<1> HIDE DEF l
<1>3. (l + 2) % 256 = l + 2 /\ (l + 2) - 2 = l
  BY <1>2
<1>4. QED
  BY <1>1, <1>3 DEF PROP_TO_CONTENT_SIZE, l

LEMMA FirstIsMin ==
  ASSUME NEW I \in SUBSET Nat, NEW i \in I, \A j \in I : i <= j
  PROVE  Min(I) = i
<1>1. \A k \in I : (\A j \in I : k <= j) => k = i
  OBVIOUS
<1>2. QED
  BY <1>1 DEF Min

(* Whatever properties a server puts into its message, and whatever length the
   ones of the types 0 and 1 claim, rjv3_process_result_prop takes it apart into
   these properties, shows the first and the first accounting message whole and
   finds the echo key in the first property of type 1 with a content.       *)
THEOREM ServerMessageIsReadHolds == PropsSpec => []ServerMessageIsRead
<1>1. ServerInv => ServerMessageIsRead
  <2> SUFFICES ASSUME ServerInv PROVE ServerMessageIsRead
    OBVIOUS
  <2> DEFINE n == Len(server_props)
             sp == server_props
             got == rjv3_process_result_prop
             list == got.list
             keys == {i \in DOMAIN sp : sp[i].type = 1 /\ sp[i].content # <<>>}
  <2>1. n \in Nat /\ DOMAIN sp = 1..n /\ \A i \in 1..n : sp[i] \in Sent
    BY DEF ServerInv
  <2>2. list = [k \in 1..n |-> Got(sp[k])]
    BY ServerListIs DEF AllGot
  <2>3. Len(list) = n /\ \A i \in 1..n : list[i] = Got(sp[i])
    <3> HIDE DEF list, n
    <3>1. QED
      BY <2>1, <2>2
  <2>4. \A i \in 1..n : /\ list[i].type = sp[i].type /\ list[i].content = sp[i].content
                        /\ PROP_TO_CONTENT_SIZE(list[i]) = Len(sp[i].content)
    <3> HIDE DEF list, n
    <3>1. QED
      BY <2>1, <2>3, GotHas
  <2>5. \A i \in 1..n : Len(sp[i].content) \in Nat /\ (Len(sp[i].content) # 0 <=> sp[i].content # <<>>)
    <3>1. \A i \in 1..n : sp[i].content \in Seq(Nat)
      BY <2>1, SentHas
    <3> HIDE DEF n
    <3>2. QED
      BY <3>1
  <2>6. got = [list |-> list,
               notice |-> IF find_rjv3_prop(list, 60) = 0 THEN 0
                          ELSE PROP_TO_CONTENT_SIZE(list[find_rjv3_prop(list, 60)]),
               shown |-> IF list = <<>> THEN 0 ELSE PROP_TO_CONTENT_SIZE(list[1]),
               echokey |-> IF SelectInSeq(list, rjv3_is_echokey_prop) = 0 THEN <<>>
                           ELSE Slice(list[SelectInSeq(list, rjv3_is_echokey_prop)].content, 6, 4)]
    BY DEF rjv3_process_result_prop, RJV3_TYPE_ACCOUNTING_MSG
  <2>7. /\ got.notice = IF find_rjv3_prop(list, 60) = 0 THEN 0
                        ELSE PROP_TO_CONTENT_SIZE(list[find_rjv3_prop(list, 60)])
        /\ got.shown = IF list = <<>> THEN 0 ELSE PROP_TO_CONTENT_SIZE(list[1])
        /\ got.echokey = IF SelectInSeq(list, rjv3_is_echokey_prop) = 0 THEN <<>>
                         ELSE Slice(list[SelectInSeq(list, rjv3_is_echokey_prop)].content, 6, 4)
    <3> HIDE DEF list
    <3>1. QED
      BY <2>6
  <2> HIDE DEF got, list, n
  <2>8. sp # <<>> => got.shown = Len(sp[1].content)
    <3>1. SUFFICES ASSUME sp # <<>> PROVE got.shown = Len(sp[1].content)
      OBVIOUS
    <3>2. n # 0
      BY <3>1 DEF ServerInv, n
    <3>3. 1 \in 1..n /\ list # <<>>
      BY <2>1, <2>3, <3>2
    <3>4. QED
      BY <2>4, <2>7, <3>3
  <2>9. ASSUME NEW i \in DOMAIN sp, sp[i].type = 60, \A j \in 1..(i - 1) : sp[j].type # 60
        PROVE  got.notice = Len(sp[i].content)
    <3> DEFINE I == {k \in 1..Len(list) : list[k].type = 60}
    <3>1. i \in I /\ I \subseteq Nat
      BY <2>1, <2>3, <2>4, <2>9
    <3>2. \A j \in I : i <= j
      BY <2>1, <2>3, <2>4, <2>9
    <3>3. find_rjv3_prop(list, 60) = IF I # {} THEN Min(I) ELSE 0
      BY DEF find_rjv3_prop, SelectInSeq
    <3> HIDE DEF I
    <3>4. Min(I) = i
      BY <3>1, <3>2, FirstIsMin
    <3>5. find_rjv3_prop(list, 60) = i /\ i # 0
      BY <2>1, <3>1, <3>3, <3>4
    <3>6. QED
      BY <2>1, <2>4, <2>7, <3>5
  <2>10. ASSUME NEW i \in keys, \A j \in keys : i <= j
         PROVE  got.echokey = Slice(sp[i].content, 6, 4)
    <3> DEFINE I == {k \in 1..Len(list) : rjv3_is_echokey_prop(list[k])}
    <3>1. I = keys
      BY <2>1, <2>3, <2>4, <2>5 DEF rjv3_is_echokey_prop
    <3>2. SelectInSeq(list, rjv3_is_echokey_prop) = IF I # {} THEN Min(I) ELSE 0
      BY DEF SelectInSeq
    <3> HIDE DEF I
    <3>3. keys \in SUBSET Nat /\ i \in 1..n
      BY <2>1
    <3>4. Min(I) = i
      <4> HIDE DEF keys
      <4>1. QED
        BY <2>10, <3>1, <3>3, FirstIsMin
    <3>5. SelectInSeq(list, rjv3_is_echokey_prop) = i /\ i # 0
      <4> HIDE DEF keys
      <4>1. QED
        BY <2>10, <3>1, <3>2, <3>3, <3>4
    <3>6. QED
      BY <2>4, <2>7, <3>3, <3>5
  <2>11. QED
    BY <2>1, <2>3, <2>4, <2>8, <2>9, <2>10, Zenon DEF ServerMessageIsRead, got, list, n
<1>2. QED
  BY <1>1, ServerInvariant, PTL

-----------------------------------------------------------------------------
(* The properties whose two length bytes do not wrap and whose content is there. *)
Contents == {c \in Seq(Nat) : Len(c) <= 245}
Wholes == {NewProp(type, content) : type \in Nat, content \in Contents}

LEMMA WholeHas ==
  ASSUME NEW p \in Wholes
  PROVE  /\ p = NewProp(p.type, p.content) /\ p.type \in Nat
         /\ p.content \in Seq(Nat) /\ Len(p.content) \in Nat /\ Len(p.content) <= 245
         /\ p.header_type = 26 /\ p.header_len \in Nat /\ p.len = Len(p.content) + 2
<1>1. PICK type \in Nat, c \in Contents : p = NewProp(type, c)
  BY DEF Wholes
<1>2. c \in Seq(Nat) /\ Len(c) \in Nat /\ Len(c) <= 245
  BY DEF Contents
<1> DEFINE l == Len(c)
           n == (l + 2) % 256
           h == (l + HEADER1 + HEADER2) % 256
<1>3. n = l + 2
  <2>1. \A k \in 0..245 : (k + 2) % 256 = k + 2
    OBVIOUS
  <2>2. \A k \in Nat : k <= 245 => k \in 0..245
    OBVIOUS
  <2>3. l \in 0..245
    BY <1>2, <2>2, Zenon
  <2> HIDE DEF l
  <2>4. QED
    BY <2>1, <2>3
<1>4. h \in Nat
  <2> HIDE DEF l
  <2>1. l \in Nat
    BY <1>2 DEF l
  <2>2. QED
    BY <2>1 DEF HEADER1, HEADER2
<1>5. p = [header_type |-> 26, header_len |-> h, type |-> type, len |-> n, content |-> c]
  BY <1>1 DEF NewProp
<1> HIDE DEF n, h
<1>6. p.header_type = 26 /\ p.header_len = h /\ p.type = type /\ p.len = n /\ p.content = c
  BY <1>5
<1>7. QED
  BY <1>1, <1>2, <1>3, <1>4, <1>6 DEF l

LEMMA BytesAre ==
  ASSUME NEW p \in Wholes
  PROVE  /\ PropBytes(p) \in Seq(Nat) /\ Len(PropBytes(p)) = 8 + Len(p.content)
         /\ PropBytes(p)[1] = 26
         /\ PropBytes(p)[3] = 0 /\ PropBytes(p)[4] = 0 /\ PropBytes(p)[5] = 19 /\ PropBytes(p)[6] = 17
         /\ PropBytes(p)[7] = p.type /\ PropBytes(p)[8] = p.len
         /\ \A k \in 1..Len(p.content) : PropBytes(p)[8 + k] = p.content[k]
<1> DEFINE a == <<p.header_type, p.header_len>>
           m == <<0, 0, 19, 17>>
           h == <<p.type, p.len>>
           c == p.content
           ab == a \o m
           abh == ab \o h
           all == abh \o c
<1>1. p.header_type = 26 /\ p.header_len \in Nat /\ p.type \in Nat /\ c \in Seq(Nat)
      /\ p.len = Len(c) + 2 /\ Len(c) \in Nat
  BY WholeHas
<1>2. p.len \in Nat
  BY <1>1
<1>3. PropBytes(p) = all
  <2>1. p.len - 2 = Len(c)
    BY <1>1
  <2>2. SubSeq(c, 1, p.len - 2) = c
    BY <1>1, <2>1
  <2>3. QED
    BY <2>2 DEF PropBytes, PROP_TO_CONTENT_SIZE, Magic
<1>4. a \in Seq(Nat) /\ Len(a) = 2 /\ a[1] = 26
  BY <1>1
<1>5. m \in Seq(Nat) /\ Len(m) = 4 /\ m[1] = 0 /\ m[2] = 0 /\ m[3] = 19 /\ m[4] = 17
  OBVIOUS
<1>6. h \in Seq(Nat) /\ Len(h) = 2 /\ h[1] = p.type /\ h[2] = p.len
  BY <1>1, <1>2
<1> HIDE DEF a, m, h, c
<1>7. /\ ab \in Seq(Nat) /\ Len(ab) = 6 /\ (\A i \in 1..2 : ab[i] = a[i])
      /\ \A i \in 1..4 : ab[2 + i] = m[i]
  <2>1. /\ ab \in Seq(Nat) /\ Len(ab) = Len(a) + Len(m)
        /\ \A i \in 1..Len(a) : ab[i] = a[i]
        /\ \A i \in 1..Len(m) : ab[Len(a) + i] = m[i]
    BY <1>4, <1>5, Concat
  <2> HIDE DEF ab
  <2>2. QED
    BY <1>4, <1>5, <2>1
<1> HIDE DEF ab
<1>8. /\ abh \in Seq(Nat) /\ Len(abh) = 8 /\ (\A i \in 1..6 : abh[i] = ab[i])
      /\ \A i \in 1..2 : abh[6 + i] = h[i]
  <2>1. /\ abh \in Seq(Nat) /\ Len(abh) = Len(ab) + Len(h)
        /\ \A i \in 1..Len(ab) : abh[i] = ab[i]
        /\ \A i \in 1..Len(h) : abh[Len(ab) + i] = h[i]
    BY <1>6, <1>7, Concat
  <2> HIDE DEF abh
  <2>2. QED
    BY <1>6, <1>7, <2>1
<1> HIDE DEF abh
<1>9. /\ all \in Seq(Nat) /\ Len(all) = 8 + Len(c) /\ (\A i \in 1..8 : all[i] = abh[i])
      /\ \A k \in 1..Len(c) : all[8 + k] = c[k]
  <2>1. /\ all \in Seq(Nat) /\ Len(all) = Len(abh) + Len(c)
        /\ \A i \in 1..Len(abh) : all[i] = abh[i]
        /\ \A k \in 1..Len(c) : all[Len(abh) + k] = c[k]
    BY <1>1, <1>8, Concat, ZenonT(30)
  <2> HIDE DEF all
  <2>2. QED
    BY <1>8, <2>1
<1> HIDE DEF all
<1>10. all[1] = 26
  BY <1>4, <1>7, <1>8, <1>9
<1>11. all[3] = 0 /\ all[4] = 0 /\ all[5] = 19 /\ all[6] = 17
  <2>1. ab[2 + 1] = m[1] /\ ab[2 + 2] = m[2] /\ ab[2 + 3] = m[3] /\ ab[2 + 4] = m[4]
    BY <1>7
  <2>2. ab[3] = 0 /\ ab[4] = 0 /\ ab[5] = 19 /\ ab[6] = 17
    BY <1>5, <2>1
  <2>3. abh[3] = ab[3] /\ abh[4] = ab[4] /\ abh[5] = ab[5] /\ abh[6] = ab[6]
    BY <1>8
  <2>4. all[3] = abh[3] /\ all[4] = abh[4] /\ all[5] = abh[5] /\ all[6] = abh[6]
    <3>1. \A i \in 1..8 : all[i] = abh[i]
      BY <1>9
    <3>2. QED
      BY <3>1
  <2>5. QED
    BY <2>2, <2>3, <2>4, Zenon
<1>12. all[7] = p.type /\ all[8] = p.len
  <2>1. abh[6 + 1] = h[1] /\ abh[6 + 2] = h[2]
    BY <1>8
  <2>2. all[7] = abh[7] /\ all[8] = abh[8]
    <3>1. \A i \in 1..8 : all[i] = abh[i]
      BY <1>9
    <3>2. QED
      BY <3>1
  <2>3. abh[7] = h[1] /\ abh[8] = h[2]
    BY <2>1
  <2>4. QED
    BY <1>6, <2>2, <2>3, Zenon
<1>13. QED
  BY <1>3, <1>9, <1>10, <1>11, <1>12 DEF c

(* The bytes are in buf behind the byte number at. *)
HasAt(buf, at, bytes) ==
    at + Len(bytes) <= Len(buf) /\ \A k \in 1..Len(bytes) : buf[at + k] = bytes[k]

(* The parser takes a property that is written at its place. *)
LEMMA OneRead ==
  ASSUME NEW buf \in Seq(Nat), NEW pos \in Nat, NEW p \in Wholes, HasAt(buf, pos, PropBytes(p))
  PROVE  /\ pos < Len(buf) /\ ~Refused(buf, FALSE, pos)
         /\ Behind(buf, FALSE, pos) = pos + Len(PropBytes(p))
         /\ PropAt(buf, FALSE, pos + 8) = p
<1> DEFINE b == PropBytes(p)
           l == Len(p.content)
<1>1. l \in Nat /\ Len(b) = 8 + l /\ Len(buf) \in Nat /\ pos + (8 + l) <= Len(buf)
  BY WholeHas, BytesAre DEF HasAt
<1>2. Header(FALSE) = 8 /\ HEADER2 = 6 /\ HEADER1 = 2
  BY DEF Header, HEADER1, HEADER2
<1>3. \A k \in 1..(8 + l) : buf[pos + k] = b[k] /\ pos + k \in 1..Len(buf)
  BY <1>1 DEF HasAt
<1>4. /\ buf[pos + 1] = 26 /\ buf[pos + 7] = p.type /\ buf[pos + 8] = p.len
      /\ buf[pos + 3] = 0 /\ buf[pos + 4] = 0 /\ buf[pos + 5] = 19 /\ buf[pos + 6] = 17
  <2>1. {1, 3, 4, 5, 6, 7, 8} \subseteq 1..(8 + l)
    BY <1>1
  <2>2. QED
    BY <1>3, <2>1, BytesAre
<1>5. \A k \in 1..l : buf[pos + 8 + k] = p.content[k] /\ pos + 8 + k <= Len(buf)
  <2>1. ASSUME NEW k \in 1..l PROVE buf[pos + 8 + k] = p.content[k] /\ pos + 8 + k <= Len(buf)
    <3>1. 8 + k \in 1..(8 + l) /\ pos + (8 + k) = pos + 8 + k
      BY <1>1
    <3>2. b[8 + k] = p.content[k]
      BY BytesAre
    <3>3. buf[pos + (8 + k)] = b[8 + k] /\ pos + (8 + k) \in 1..Len(buf)
      BY <1>3, <3>1
    <3> HIDE DEF l, b
    <3>4. QED
      BY <1>1, <3>1, <3>2, <3>3
  <2>2. QED
    BY <2>1
<1> HIDE DEF l, b
<1>6. Slice(buf, pos + 2, 4) = Magic
  <2>1. \A i \in 1..4 : pos + 2 + i <= Len(buf)
    BY <1>1
  <2>2. Slice(buf, pos + 2, 4) = [i \in 1..4 |-> buf[pos + 2 + i]]
    BY <2>1 DEF Slice
  <2> DEFINE m == <<0, 0, 19, 17>>
  <2>3. \A i \in 1..4 : buf[pos + 2 + i] = m[i]
    <3>1. pos + 2 + 1 = pos + 3 /\ pos + 2 + 2 = pos + 4 /\ pos + 2 + 3 = pos + 5 /\ pos + 2 + 4 = pos + 6
      OBVIOUS
    <3>2. m[1] = 0 /\ m[2] = 0 /\ m[3] = 19 /\ m[4] = 17
      OBVIOUS
    <3> HIDE DEF m
    <3>3. /\ buf[pos + 2 + 1] = m[1] /\ buf[pos + 2 + 2] = m[2]
          /\ buf[pos + 2 + 3] = m[3] /\ buf[pos + 2 + 4] = m[4]
      BY <1>4, <3>1, <3>2
    <3>4. \A i \in 1..4 : i = 1 \/ i = 2 \/ i = 3 \/ i = 4
      OBVIOUS
    <3>5. QED
      BY <3>3, <3>4, Zenon
  <2>4. m = [i \in 1..4 |-> m[i]]
    OBVIOUS
  <2>5. QED
    BY <2>2, <2>3, <2>4 DEF Magic
<1>7. ~Refused(buf, FALSE, pos) /\ pos < Len(buf)
  <2>1. pos + 8 - 6 = pos + 2 /\ ~(pos + 8 > Len(buf)) /\ pos < Len(buf)
    BY <1>1
  <2>2. QED
    BY <1>2, <1>6, <2>1 DEF Refused
<1>8. ContentLen(buf, pos + 8, FALSE) = l
  <2>1. (pos + 8) - 7 = pos + 1
    OBVIOUS
  <2>2. ContentLen(buf, pos + 8, FALSE) = buf[pos + 8] - 2
    BY <1>4, <2>1 DEF ContentLen
  <2>3. buf[pos + 8] = l + 2
    BY <1>4, WholeHas DEF l
  <2>4. (l + 2) - 2 = l
    BY <1>1
  <2>5. QED
    BY <2>2, <2>3, <2>4, Zenon
<1>9. Behind(buf, FALSE, pos) = pos + Len(PropBytes(p))
  <2>1. Behind(buf, FALSE, pos) = pos + 8 + l
    BY <1>2, <1>8 DEF Behind
  <2>2. pos + 8 + l = pos + (8 + l) /\ Len(b) = 8 + l
    BY <1>1
  <2>3. QED
    BY <2>1, <2>2, Zenon DEF b
<1>10. PropAt(buf, FALSE, pos + 8) = p
  <2>1. Slice(buf, pos + 8, l) = p.content
    <3>1. Slice(buf, pos + 8, l) = [i \in 1..l |-> p.content[i]]
      BY <1>5 DEF Slice
    <3>2. p.content = [i \in 1..l |-> p.content[i]]
      BY WholeHas DEF l
    <3>3. QED
      BY <3>1, <3>2
  <2>2. (pos + 8) - 1 = pos + 7
    OBVIOUS
  <2>3. QED
    BY <1>4, <1>8, <2>1, <2>2, WholeHas DEF PropAt
<1>11. QED
  BY <1>7, <1>9, <1>10

(* place[i] bytes are those of the first i properties of the list. *)
Places(list, place) ==
    /\ place[0] = 0
    /\ \A i \in 1..Len(list) :
          /\ place[i - 1] \in Nat /\ place[i] \in Nat
          /\ place[i] = place[i - 1] + Len(PropBytes(list[i]))

(* The properties lie in buf one behind the other, from the byte behind at on. *)
Lying(list, place, at, buf) ==
    \A i \in 1..Len(list) : HasAt(buf, at + place[i - 1], PropBytes(list[i]))

(* The parser reads a trailer property by property. *)
LEMMA TrailerRead ==
  ASSUME NEW list \in Seq(Wholes), NEW place, NEW buf \in Seq(Nat),
         Places(list, place), place[Len(list)] = Len(buf), Lying(list, place, 0, buf)
  PROVE  parse_rjv3_buf_to_prop_list(buf, FALSE) = [ok |-> TRUE, list |-> list]
<1> DEFINE n == Len(list)
           R == Reader(buf, FALSE)
           Read(i) == [ok |-> TRUE, list |-> RestOf(list, n, i)]
           Good == {m \in 0..n : R[place[n - m]] = Read(n - m)}
<1>1. n \in Nat /\ Len(buf) \in Nat /\ list \in [1..n -> Wholes]
  OBVIOUS
<1>2. place[0] = 0 /\ place[n] = Len(buf)
  BY DEF Places
<1>3. \A pos \in Nat : R[pos] = Reading(buf, FALSE, R, pos)
  BY <1>1, ReaderIs
<1>4. ASSUME NEW i \in 1..n
      PROVE  /\ place[i - 1] \in Nat /\ place[i] = place[i - 1] + Len(PropBytes(list[i]))
             /\ HasAt(buf, place[i - 1], PropBytes(list[i])) /\ list[i] \in Wholes
  <2>1. /\ place[i - 1] \in Nat /\ place[i] = place[i - 1] + Len(PropBytes(list[i]))
        /\ HasAt(buf, 0 + place[i - 1], PropBytes(list[i]))
    BY DEF Places, Lying
  <2>2. 0 + place[i - 1] = place[i - 1] /\ list[i] \in Wholes
    BY <1>1, <2>1
  <2>3. QED
    BY <2>1, <2>2
<1> HIDE DEF R
<1>5. 0 \in Good
  <2>1. n - 0 = n /\ n - n = 0 /\ 0 \in 0..n
    BY <1>1
  <2>2. R[Len(buf)] = Reading(buf, FALSE, R, Len(buf))
    BY <1>1, <1>3, Zenon
  <2>3. R[place[n]] = [ok |-> TRUE, list |-> <<>>]
    <3>1. Len(buf) >= Len(buf)
      BY <1>1
    <3>2. QED
      BY <1>2, <2>2, <3>1 DEF Reading
  <2>4. RestOf(list, n, n) = <<>>
    BY <2>1 DEF RestOf
  <2> HIDE DEF n
  <2>5. QED
    BY <2>1, <2>3, <2>4
<1>6. ASSUME NEW m \in 1..n, m - 1 \in Good PROVE m \in Good
  <2> DEFINE i == n - m
             pos == place[i]
             next == place[i + 1]
             p == list[i + 1]
  <2>1. i + 1 \in 1..n /\ (i + 1) - 1 = i /\ n - (m - 1) = i + 1 /\ i \in 0..n /\ i < n /\ m \in 0..n
    BY <1>1
  <2>2. /\ pos \in Nat /\ next = pos + Len(PropBytes(p))
        /\ HasAt(buf, pos, PropBytes(p)) /\ p \in Wholes
    <3> HIDE DEF i, n
    <3>1. QED
      BY <1>4, <2>1
  <2>3. R[next] = Read(i + 1)
    BY <1>6, <2>1
  <2> HIDE DEF i, pos, next, p, n
  <2>4. /\ pos < Len(buf) /\ ~Refused(buf, FALSE, pos)
        /\ Behind(buf, FALSE, pos) = next /\ PropAt(buf, FALSE, pos + 8) = p
    BY <2>2, OneRead
  <2>5. R[pos] = Reading(buf, FALSE, R, pos) /\ ~(pos >= Len(buf))
    <3>1. R[pos] = Reading(buf, FALSE, R, pos)
      BY <1>3, <2>2, Zenon
    <3>2. ~(pos >= Len(buf))
      BY <1>1, <2>2, <2>4
    <3>3. QED
      BY <3>1, <3>2
  <2>6. R[next].ok = TRUE /\ R[next].list = RestOf(list, n, i + 1)
    BY <2>3
  <2>7. Header(FALSE) = 8
    BY DEF Header, HEADER1, HEADER2
  <2>8. R[pos] = [ok |-> TRUE, list |-> <<p>> \o RestOf(list, n, i + 1)]
    BY <2>4, <2>5, <2>6, <2>7, Zenon DEF Reading
  <2>9. <<p>> \o RestOf(list, n, i + 1) = RestOf(list, n, i)
    BY <1>1, <2>1, ConsRest DEF p
  <2>10. R[pos] = Read(i)
    BY <2>8, <2>9
  <2>11. QED
    BY <2>1, <2>10 DEF i, pos
<1>7. n \in Good
  <2> HIDE DEF Good, n
  <2>1. 0 \in Nat /\ 0 + 1 = 1
    OBVIOUS
  <2>2. \A m \in 0..n : m \in Good
    BY <1>1, <1>5, <1>6, <2>1, Along
  <2>3. QED
    BY <1>1, <2>2
<1>8. R[0] = Read(0)
  <2>1. R[place[n - n]] = Read(n - n)
    BY <1>7
  <2> HIDE DEF n, Read
  <2>2. n - n = 0
    BY <1>1
  <2>3. QED
    BY <1>2, <2>1, <2>2
<1>9. RestOf(list, n, 0) = list
  <2>1. n - 0 = n /\ \A k \in 1..n : 0 + k = k
    BY <1>1
  <2> HIDE DEF n
  <2>2. RestOf(list, n, 0) = [k \in 1..n |-> list[k]]
    BY <2>1 DEF RestOf
  <2>3. list = [k \in 1..n |-> list[k]]
    BY <1>1
  <2>4. QED
    BY <2>2, <2>3
<1>10. QED
  BY <1>8, <1>9, ParseIs DEF R

-----------------------------------------------------------------------------
PlaceOf(list) ==
    CHOOSE f : f = [i \in 0..Len(list) |->
                       IF i = 0 THEN 0 ELSE f[i - 1] + Len(PropBytes(list[i]))]

LEMMA FullLengthIs ==
  ASSUME NEW list
  PROVE  FullLength(list) = PlaceOf(list)[Len(list)]
BY DEF FullLength, PlaceOf

LEMMA PlacesAre ==
  ASSUME NEW list \in Seq(Wholes)
  PROVE  /\ Places(list, PlaceOf(list)) /\ FullLength(list) = PlaceOf(list)[Len(list)]
         /\ FullLength(list) \in Nat
<1> DEFINE n == Len(list)
           F == PlaceOf(list)
           step == [kv \in (1..n) \X Nat |-> kv[2] + Len(PropBytes(list[kv[1]]))]
<1>1. n \in Nat /\ 0 <= n /\ 0 \in Nat /\ 0 + 1 = 1
  OBVIOUS
<1>2. \A i \in 1..n : Len(PropBytes(list[i])) \in Nat
  <2>1. ASSUME NEW i \in 1..n PROVE Len(PropBytes(list[i])) \in Nat
    <3>1. list[i] \in Wholes
      OBVIOUS
    <3>2. PropBytes(list[i]) \in Seq(Nat)
      BY <3>1, BytesAre
    <3>3. QED
      BY <3>2
  <2>2. QED
    BY <2>1
<1>3. step \in [(1..n) \X Nat -> Nat]
  BY <1>2
<1>4. PICK f \in [0..n -> Nat] : Course(0, n, 0, step, f)
  <2> HIDE DEF n, step
  <2>1. QED
    BY <1>1, <1>3, LoopRuns
<1>5. ASSUME NEW i \in 0..n
      PROVE  f[i] = IF i = 0 THEN 0 ELSE f[i - 1] + Len(PropBytes(list[i]))
  <2>1. f[i] = IF i = 0 THEN 0 ELSE step[<<i, f[i - 1]>>]
    BY <1>4 DEF Course
  <2>2. CASE i = 0
    BY <2>1, <2>2
  <2>3. CASE i # 0
    <3>1. i \in 1..n /\ i - 1 \in 0..n
      BY <1>1, <2>3
    <3>2. f[i - 1] \in Nat
      BY <1>4, <3>1
    <3> HIDE DEF n
    <3>3. QED
      BY <2>1, <2>3, <3>1, <3>2
  <2>4. QED
    BY <2>2, <2>3
<1>6. f = [i \in 0..n |-> IF i = 0 THEN 0 ELSE f[i - 1] + Len(PropBytes(list[i]))]
  BY <1>4, <1>5
<1>7. F = [i \in 0..n |-> IF i = 0 THEN 0 ELSE F[i - 1] + Len(PropBytes(list[i]))]
  BY <1>6 DEF PlaceOf
<1> HIDE DEF F
<1>8. \A i \in 0..n : F[i] = IF i = 0 THEN 0 ELSE F[i - 1] + Len(PropBytes(list[i]))
  BY <1>7
<1> DEFINE Good == {i \in 0..n : F[i] \in Nat}
<1>9. \A i \in 0..n : i \in Good
  <2>1. 0 \in Good
    BY <1>1, <1>8
  <2>2. ASSUME NEW i \in 1..n, i - 1 \in Good PROVE i \in Good
    <3>1. i \in 0..n /\ i # 0 /\ F[i - 1] \in Nat /\ Len(PropBytes(list[i])) \in Nat
      BY <1>2, <2>2
    <3>2. F[i] = F[i - 1] + Len(PropBytes(list[i]))
      BY <1>8, <3>1
    <3>3. QED
      BY <3>1, <3>2
  <2> HIDE DEF Good, n
  <2>3. QED
    BY <1>1, <2>1, <2>2, Along
<1>10. Places(list, F)
  <2>1. F[0] = 0
    BY <1>1, <1>8
  <2>2. ASSUME NEW i \in 1..n
        PROVE  F[i - 1] \in Nat /\ F[i] \in Nat /\ F[i] = F[i - 1] + Len(PropBytes(list[i]))
    <3>1. i \in 0..n /\ i - 1 \in 0..n /\ i # 0
      OBVIOUS
    <3>2. F[i] = F[i - 1] + Len(PropBytes(list[i]))
      BY <1>8, <3>1
    <3>3. QED
      BY <1>9, <3>1, <3>2
  <2>3. QED
    BY <2>1, <2>2 DEF Places
<1>11. F[n] \in Nat
  BY <1>1, <1>9
<1>12. QED
  BY <1>10, <1>11, FullLengthIs DEF F

(* The places grow, up to the length of all. *)
LEMMA PlacesGrow ==
  ASSUME NEW list, NEW n \in Nat, n = Len(list), NEW place, Places(list, place),
         \A i \in 1..n : Len(PropBytes(list[i])) \in Nat, NEW i \in 0..n
  PROVE  \A j \in i..n : place[i] \in Nat /\ place[j] \in Nat /\ place[i] <= place[j]
<1> DEFINE Good == {j \in i..n : place[j] \in Nat /\ place[i] <= place[j]}
<1>1. \A j \in 1..n : /\ place[j - 1] \in Nat /\ place[j] \in Nat
                      /\ place[j] = place[j - 1] + Len(PropBytes(list[j]))
  BY DEF Places
<1>2. \A j \in 0..n : place[j] \in Nat
  <2>1. place[0] \in Nat
    BY DEF Places
  <2>2. QED
    BY <1>1, <2>1
<1>3. i \in Nat /\ i \in Good
  BY <1>2
<1>4. ASSUME NEW j \in (i + 1)..n, j - 1 \in Good PROVE j \in Good
  <2>1. j \in 1..n /\ j \in i..n
    OBVIOUS
  <2>2. /\ place[j - 1] \in Nat /\ place[j] \in Nat /\ place[i] \in Nat
        /\ place[j] = place[j - 1] + Len(PropBytes(list[j])) /\ place[i] <= place[j - 1]
        /\ Len(PropBytes(list[j])) \in Nat
    BY <1>1, <1>2, <1>4, <2>1
  <2>3. QED
    BY <2>1, <2>2
<1>5. \A j \in i..n : j \in Good
  <2> HIDE DEF Good
  <2>1. QED
    BY <1>3, <1>4, Along
<1>6. QED
  BY <1>2, <1>5

-----------------------------------------------------------------------------
LEMMA ZeroBytesAre ==
  ASSUME NEW n \in Nat
  PROVE  ZeroBytes(n) \in Seq(Nat) /\ Len(ZeroBytes(n)) = n
BY DEF ZeroBytes

LEMMA WriteTyped ==
  ASSUME NEW buf \in Seq(Nat), NEW bytes \in Seq(Nat), NEW at \in Int
  PROVE  Write(buf, at, bytes) \in Seq(Nat)
<1> DEFINE more == at + Len(bytes) - Len(buf)
           wide == IF Len(buf) < at + Len(bytes) THEN buf \o ZeroBytes(more) ELSE buf
           n == Len(wide)
<1>1. Len(buf) \in Nat /\ Len(bytes) \in Nat
  OBVIOUS
<1>2. wide \in Seq(Nat)
  <2>1. CASE Len(buf) < at + Len(bytes)
    <3>1. more \in Nat
      BY <1>1, <2>1
    <3> HIDE DEF more
    <3>2. ZeroBytes(more) \in Seq(Nat)
      BY <3>1, ZeroBytesAre
    <3>3. buf \o ZeroBytes(more) \in Seq(Nat)
      BY <3>2
    <3>4. QED
      BY <2>1, <3>3
  <2>2. QED
    BY <2>1
<1>3. Write(buf, at, bytes) =
        [i \in 1..n |-> IF at < i /\ i <= at + Len(bytes) THEN bytes[i - at] ELSE wide[i]]
  BY DEF Write
<1> HIDE DEF wide
<1>4. n \in Nat /\ \A i \in 1..n : wide[i] \in Nat
  BY <1>2
<1>5. ASSUME NEW i \in 1..n, at < i, i <= at + Len(bytes) PROVE bytes[i - at] \in Nat
  <2>1. i - at \in 1..Len(bytes)
    BY <1>1, <1>4, <1>5
  <2>2. QED
    BY <2>1
<1> HIDE DEF n
<1>6. Write(buf, at, bytes) \in [1..n -> Nat]
  BY <1>3, <1>4, <1>5
<1>7. QED
  BY <1>4, <1>6

(* What is written behind the end makes the buffer longer by it. *)
LEMMA WriteEnd ==
  ASSUME NEW buf \in Seq(Nat), NEW bytes \in Seq(Nat)
  PROVE  Write(buf, Len(buf), bytes) = buf \o bytes
<1> DEFINE a == Len(buf)
           b == Len(bytes)
           zeros == ZeroBytes(a + b - a)
           wide == IF a < a + b THEN buf \o zeros ELSE buf
           new == Write(buf, a, bytes)
           both == buf \o bytes
<1>1. a \in Nat /\ b \in Nat /\ a + b - a = b
  OBVIOUS
<1>2. Len(wide) = a + b /\ \A i \in 1..a : wide[i] = buf[i]
  <2>1. CASE a < a + b
    <3>1. zeros \in Seq(Nat) /\ Len(zeros) = b
      BY <1>1, ZeroBytesAre
    <3> HIDE DEF zeros
    <3>2. Len(buf \o zeros) = a + b /\ \A i \in 1..a : (buf \o zeros)[i] = buf[i]
      BY <3>1, Concat, ZenonT(30)
    <3>3. QED
      BY <2>1, <3>2
  <2>2. CASE ~(a < a + b)
    <3>1. b = 0
      BY <1>1, <2>2
    <3>2. QED
      BY <1>1, <2>2, <3>1
  <2>3. QED
    BY <2>1, <2>2
<1>3. new = [i \in 1..Len(wide) |-> IF a < i /\ i <= a + b THEN bytes[i - a] ELSE wide[i]]
  BY DEF Write
<1>4. /\ both \in Seq(Nat) /\ Len(both) = a + b
      /\ \A i \in 1..a : both[i] = buf[i]
      /\ \A i \in 1..b : both[a + i] = bytes[i]
  BY Concat
<1> HIDE DEF a, b, wide, new, both
<1>5. ASSUME NEW i \in 1..(a + b)
      PROVE  (IF a < i /\ i <= a + b THEN bytes[i - a] ELSE wide[i]) = both[i]
  <2>1. CASE a < i
    <3>1. i - a \in 1..b /\ a + (i - a) = i /\ i <= a + b
      BY <1>1, <2>1
    <3>2. both[a + (i - a)] = bytes[i - a]
      BY <1>4, <3>1
    <3>3. QED
      BY <2>1, <3>1, <3>2
  <2>2. CASE ~(a < i)
    <3>1. i \in 1..a
      BY <1>1, <2>2
    <3>2. QED
      BY <1>2, <1>4, <2>2, <3>1
  <2>3. QED
    BY <2>1, <2>2
<1>6. new = [i \in 1..(a + b) |-> both[i]]
  BY <1>2, <1>3, <1>5
<1>7. both = [i \in 1..(a + b) |-> both[i]]
  BY <1>4
<1>8. QED
  BY <1>6, <1>7 DEF new, both, a

LEMMA HasStays ==
  ASSUME NEW s \in Seq(Nat), NEW t \in Seq(Nat), NEW at \in Nat, NEW bytes \in Seq(Nat),
         HasAt(s, at, bytes)
  PROVE  HasAt(s \o t, at, bytes)
<1> DEFINE all == s \o t
           b == Len(bytes)
<1>1. b \in Nat /\ Len(s) \in Nat /\ Len(t) \in Nat /\ Len(all) = Len(s) + Len(t)
      /\ \A i \in 1..Len(s) : all[i] = s[i]
  BY Concat
<1>2. at + b <= Len(s) /\ \A k \in 1..b : s[at + k] = bytes[k]
  BY DEF HasAt
<1> HIDE DEF all, b
<1>3. \A k \in 1..b : at + k \in 1..Len(s)
  BY <1>1, <1>2
<1>4. at + b <= Len(all)
  BY <1>1, <1>2
<1>5. QED
  BY <1>1, <1>2, <1>3, <1>4 DEF HasAt, all, b

LEMMA HasEnd ==
  ASSUME NEW s \in Seq(Nat), NEW bytes \in Seq(Nat)
  PROVE  HasAt(s \o bytes, Len(s), bytes)
<1>1. Len(s \o bytes) = Len(s) + Len(bytes) /\ Len(s) \in Nat /\ Len(bytes) \in Nat
      /\ \A i \in 1..Len(bytes) : (s \o bytes)[Len(s) + i] = bytes[i]
  BY Concat
<1>2. Len(s) + Len(bytes) <= Len(s \o bytes)
  BY <1>1
<1>3. QED
  BY <1>1, <1>2 DEF HasAt

(* One turn of append_rjv3_prop_list_to_buffer. *)
Appended(list, i, before, at, buflen) ==
    IF buflen - before.len < Len(PropBytes(list[i])) THEN [before EXCEPT !.len = @ - 1]
    ELSE [buf |-> Write(before.buf, at + before.len, PropBytes(list[i])),
          len |-> before.len + Len(PropBytes(list[i]))]
Appending(list, buf, at, buflen, f) ==
    f = [i \in 0..Len(list) |->
            IF i = 0 THEN [buf |-> buf, len |-> 0] ELSE Appended(list, i, f[i - 1], at, buflen)]

LEMMA AppendIs ==
  ASSUME NEW list, NEW buf, NEW at, NEW buflen
  PROVE  append_rjv3_prop_list_to_buffer(list, buf, at, buflen) =
           (CHOOSE f : Appending(list, buf, at, buflen, f))[Len(list)]
BY DEF append_rjv3_prop_list_to_buffer, Appending, Appended

Buffers == [buf : Seq(Nat), len : Int]

LEMMA AppendRuns ==
  ASSUME NEW list \in Seq(Wholes), NEW buf \in Seq(Nat), NEW at \in Nat, NEW buflen \in Int
  PROVE  \E f : Appending(list, buf, at, buflen, f)
<1> DEFINE n == Len(list)
           first == [buf |-> buf, len |-> 0]
           step == [kv \in (1..n) \X Buffers |-> Appended(list, kv[1], kv[2], at, buflen)]
<1>1. n \in Nat /\ 0 <= n /\ 0 \in Nat /\ 0 + 1 = 1
  OBVIOUS
<1>2. first \in Buffers
  BY DEF Buffers
<1>3. ASSUME NEW i \in 1..n, NEW v \in Buffers
      PROVE  Appended(list, i, v, at, buflen) \in Buffers
  <2> DEFINE bytes == PropBytes(list[i])
  <2>1. list[i] \in Wholes
    OBVIOUS
  <2>2. bytes \in Seq(Nat) /\ Len(bytes) \in Nat
    BY <2>1, BytesAre
  <2> HIDE DEF bytes
  <2>3. v.buf \in Seq(Nat) /\ v.len \in Int /\ v = [buf |-> v.buf, len |-> v.len]
    BY DEF Buffers
  <2>4. at + v.len \in Int /\ v.len + Len(bytes) \in Int /\ v.len - 1 \in Int
    BY <2>2, <2>3
  <2>5. Write(v.buf, at + v.len, bytes) \in Seq(Nat)
    BY <2>2, <2>3, <2>4, WriteTyped
  <2>6. [buf |-> Write(v.buf, at + v.len, bytes), len |-> v.len + Len(bytes)] \in Buffers
    BY <2>4, <2>5 DEF Buffers
  <2>7. [v EXCEPT !.len = @ - 1] \in Buffers
    BY <2>3, <2>4 DEF Buffers
  <2>8. QED
    BY <2>6, <2>7, Zenon DEF Appended, bytes
<1>4. step \in [(1..n) \X Buffers -> Buffers]
  <2> HIDE DEF n
  <2>1. \A kv \in (1..n) \X Buffers : kv[1] \in 1..n /\ kv[2] \in Buffers
    OBVIOUS
  <2>2. QED
    BY <1>3, <2>1
<1>5. PICK f \in [0..n -> Buffers] : Course(0, n, first, step, f)
  <2> HIDE DEF n, first, step
  <2>1. QED
    BY <1>1, <1>2, <1>4, LoopRuns
<1>6. ASSUME NEW i \in 0..n
      PROVE  f[i] = IF i = 0 THEN first ELSE Appended(list, i, f[i - 1], at, buflen)
  <2>1. f[i] = IF i = 0 THEN first ELSE step[<<i, f[i - 1]>>]
    BY <1>5 DEF Course
  <2>2. CASE i = 0
    BY <2>1, <2>2
  <2>3. CASE i # 0
    <3>1. i \in 1..n /\ i - 1 \in 0..n
      BY <1>1, <2>3
    <3>2. f[i - 1] \in Buffers
      BY <1>5, <3>1
    <3> HIDE DEF n
    <3>3. QED
      BY <2>1, <2>3, <3>1, <3>2
  <2>4. QED
    BY <2>2, <2>3
<1>7. f = [i \in 0..n |-> f[i]]
  BY <1>5
<1> HIDE DEF first
<1>8. f = [i \in 0..n |-> IF i = 0 THEN first ELSE Appended(list, i, f[i - 1], at, buflen)]
  BY <1>6, <1>7
<1>9. QED
  BY <1>8 DEF Appending, first

(* What append_rjv3_prop_list_to_buffer returns when there is room for all. *)
Written(list, place, k, buf, at, r) ==
    /\ r.buf \in Seq(Nat) /\ r.len = place[k] /\ Len(r.buf) = at + place[k]
    /\ \A i \in 1..k : HasAt(r.buf, at + place[i - 1], PropBytes(list[i]))
    /\ \A i \in 1..at : r.buf[i] = buf[i]

LEMMA ListWritten ==
  ASSUME NEW list \in Seq(Wholes), NEW buf \in Seq(Nat), NEW at, at = Len(buf),
         NEW buflen \in Int, FullLength(list) <= buflen
  PROVE  Written(list, PlaceOf(list), Len(list), buf, at,
                 append_rjv3_prop_list_to_buffer(list, buf, at, buflen))
<1> DEFINE n == Len(list)
           place == PlaceOf(list)
           f == CHOOSE g : Appending(list, buf, at, buflen, g)
           Good == {k \in 0..n : Written(list, place, k, buf, at, f[k])}
<1>1. n \in Nat /\ at \in Nat
  OBVIOUS
<1>2. Appending(list, buf, at, buflen, f)
  BY <1>1, AppendRuns
<1>3. append_rjv3_prop_list_to_buffer(list, buf, at, buflen) = f[n]
  BY AppendIs
<1> HIDE DEF f
<1>4. \A i \in 0..n : f[i] = IF i = 0 THEN [buf |-> buf, len |-> 0]
                             ELSE Appended(list, i, f[i - 1], at, buflen)
  BY <1>2 DEF Appending
<1>5. Places(list, place) /\ place[n] <= buflen /\ place[n] \in Nat
  BY PlacesAre
<1>6. \A i \in 1..n : /\ list[i] \in Wholes /\ PropBytes(list[i]) \in Seq(Nat)
                      /\ Len(PropBytes(list[i])) \in Nat
  <2>1. ASSUME NEW i \in 1..n
        PROVE  /\ list[i] \in Wholes /\ PropBytes(list[i]) \in Seq(Nat)
               /\ Len(PropBytes(list[i])) \in Nat
    <3>1. list[i] \in Wholes
      OBVIOUS
    <3>2. PropBytes(list[i]) \in Seq(Nat)
      BY <3>1, BytesAre
    <3>3. QED
      BY <3>1, <3>2
  <2>2. QED
    BY <2>1
<1> HIDE DEF place
<1>7. 0 \in Good
  <2>1. f[0] = [buf |-> buf, len |-> 0] /\ 0 \in 0..n
    BY <1>1, <1>4
  <2>2. f[0].buf = buf /\ f[0].len = 0 /\ place[0] = 0
    BY <1>5, <2>1 DEF Places
  <2>3. at = at + 0
    BY <1>1
  <2>4. Written(list, place, 0, buf, at, f[0])
    BY <2>2, <2>3 DEF Written
  <2>5. QED
    BY <2>1, <2>4
<1>8. ASSUME NEW k \in 1..n, k - 1 \in Good PROVE k \in Good
  <2> DEFINE before == f[k - 1]
             s == before.buf
             bytes == PropBytes(list[k])
             start == at + place[k - 1]
  <2>1. k \in 0..n /\ k - 1 \in 0..n /\ k # 0 /\ k - 1 \in Nat /\ k \in Nat
    OBVIOUS
  <2>2. Written(list, place, k - 1, buf, at, before)
    BY <1>8
  <2>3. s \in Seq(Nat) /\ before.len = place[k - 1] /\ Len(s) = start
    BY <2>2 DEF Written
  <2>4. place[k - 1] \in Nat /\ place[k] \in Nat /\ place[k] = place[k - 1] + Len(bytes)
    BY <1>5 DEF Places
  <2>5. bytes \in Seq(Nat) /\ Len(bytes) \in Nat
    BY <1>6
  <2>6. place[k] <= place[n]
    <3> HIDE DEF n
    <3>1. \A j \in k..n : place[k] <= place[j]
      BY <1>1, <1>5, <1>6, <2>1, PlacesGrow DEF n
    <3>2. n \in k..n
      BY <1>1
    <3>3. QED
      BY <3>1, <3>2
  <2>7. f[k] = Appended(list, k, before, at, buflen)
    BY <1>4, <2>1
  <2> HIDE DEF before, s, bytes, start, n, Good
  <2>8. ~(buflen - before.len < Len(bytes))
    BY <1>5, <2>3, <2>4, <2>5, <2>6
  <2>9. f[k] = [buf |-> Write(s, start, bytes), len |-> place[k]]
    BY <2>3, <2>4, <2>7, <2>8, Zenon DEF Appended, bytes, s, start
  <2>10. Write(s, start, bytes) = s \o bytes
    BY <2>3, <2>5, WriteEnd
  <2>11. f[k].buf = s \o bytes /\ f[k].len = place[k]
    BY <2>9, <2>10
  <2>12. /\ s \o bytes \in Seq(Nat) /\ Len(s \o bytes) = Len(s) + Len(bytes)
         /\ \A i \in 1..Len(s) : (s \o bytes)[i] = s[i]
    BY <2>3, <2>5, Concat
  <2>13. Len(s \o bytes) = at + place[k]
    <3>1. start = at + place[k - 1]
      BY DEF start
    <3>2. QED
      BY <1>1, <2>3, <2>4, <2>5, <2>12, <3>1
  <2>14. ASSUME NEW i \in 1..k PROVE HasAt(s \o bytes, at + place[i - 1], PropBytes(list[i]))
    <3>1. CASE i = k
      <4>1. HasAt(s \o bytes, start, bytes)
        BY <2>3, <2>5, HasEnd
      <4>2. QED
        BY <3>1, <4>1 DEF start, bytes
    <3>2. CASE i # k
      <4>1. i \in 1..(k - 1) /\ i \in 1..n
        BY <1>1, <2>1, <3>2
      <4>2. HasAt(s, at + place[i - 1], PropBytes(list[i]))
        BY <2>2, <4>1 DEF Written, s
      <4>3. PropBytes(list[i]) \in Seq(Nat) /\ at + place[i - 1] \in Nat
        BY <1>1, <1>5, <1>6, <4>1 DEF Places, n
      <4>4. QED
        BY <2>3, <2>5, <4>2, <4>3, HasStays
    <3>3. QED
      BY <3>1, <3>2
  <2>15. ASSUME NEW i \in 1..at PROVE (s \o bytes)[i] = buf[i]
    <3>1. i \in 1..Len(s)
      <4>1. start = at + place[k - 1]
        BY DEF start
      <4>2. QED
        BY <1>1, <2>3, <2>4, <4>1
    <3>2. s[i] = buf[i]
      BY <2>2 DEF Written, s
    <3>3. QED
      BY <2>12, <3>1, <3>2
  <2>16. Written(list, place, k, buf, at, f[k])
    BY <2>11, <2>12, <2>13, <2>14, <2>15 DEF Written
  <2>17. QED
    BY <2>1, <2>16 DEF Good
<1>9. n \in Good
  <2> HIDE DEF Good, n
  <2>1. 0 \in Nat /\ 0 + 1 = 1
    OBVIOUS
  <2>2. \A k \in 0..n : k \in Good
    BY <1>1, <1>7, <1>8, <2>1, Along
  <2>3. QED
    BY <1>1, <2>2
<1>10. QED
  BY <1>3, <1>9 DEF place

(* Of two lists one behind the other. *)
LEMMA PlacesOfBoth ==
  ASSUME NEW a \in Seq(Wholes), NEW b \in Seq(Wholes)
  PROVE  /\ \A i \in 0..Len(a) : PlaceOf(a \o b)[i] = PlaceOf(a)[i]
         /\ \A i \in 0..Len(b) : PlaceOf(a \o b)[Len(a) + i] = FullLength(a) + PlaceOf(b)[i]
<1> DEFINE m == Len(a)
           n == Len(b)
           c == a \o b
           A == PlaceOf(a)
           B == PlaceOf(b)
           C == PlaceOf(c)
           Same == {i \in 0..m : C[i] = A[i]}
           Moved == {i \in 0..n : C[m + i] = A[m] + B[i]}
<1>1. m \in Nat /\ n \in Nat /\ 0 \in Nat /\ 0 + 1 = 1
  OBVIOUS
<1>2. /\ c \in Seq(Wholes) /\ Len(c) = m + n
      /\ (\A i \in 1..m : c[i] = a[i]) /\ \A i \in 1..n : c[m + i] = b[i]
  OBVIOUS
<1> HIDE DEF c
<1>3. Places(a, A) /\ Places(b, B) /\ Places(c, C) /\ FullLength(a) = A[m]
  BY <1>2, PlacesAre
<1> HIDE DEF A, B, C
<1>4. 0 \in Same
  BY <1>1, <1>3 DEF Places
<1>5. ASSUME NEW i \in 1..m, i - 1 \in Same PROVE i \in Same
  <2>1. A[i] = A[i - 1] + Len(PropBytes(a[i]))
    BY <1>3 DEF Places
  <2>2. i \in 1..Len(c) /\ c[i] = a[i] /\ i \in 0..m
    BY <1>1, <1>2
  <2>3. C[i] = C[i - 1] + Len(PropBytes(c[i]))
    BY <1>3, <2>2 DEF Places
  <2>4. C[i - 1] = A[i - 1]
    BY <1>5
  <2>5. QED
    BY <2>1, <2>2, <2>3, <2>4
<1>6. \A i \in 0..m : i \in Same
  <2> HIDE DEF Same, m
  <2>1. QED
    BY <1>1, <1>4, <1>5, Along
<1>7. C[m] = A[m] /\ A[m] \in Nat
  <2>1. m \in Same
    BY <1>1, <1>6
  <2>2. A[m] \in Nat
    BY <1>3, PlacesAre
  <2>3. QED
    BY <2>1, <2>2
<1>8. 0 \in Moved
  <2>1. B[0] = 0
    BY <1>3 DEF Places
  <2>2. m + 0 = m /\ A[m] + 0 = A[m] /\ 0 \in 0..n
    BY <1>1, <1>7
  <2>3. QED
    BY <1>7, <2>1, <2>2
<1>9. ASSUME NEW i \in 1..n, i - 1 \in Moved PROVE i \in Moved
  <2> DEFINE l == Len(PropBytes(b[i]))
  <2>1. B[i - 1] \in Nat /\ B[i] \in Nat /\ B[i] = B[i - 1] + l
    BY <1>3 DEF Places
  <2>2. m + i \in 1..Len(c) /\ c[m + i] = b[i] /\ i \in 0..n /\ (m + i) - 1 = m + (i - 1)
    BY <1>1, <1>2
  <2>3. C[m + i] = C[(m + i) - 1] + l
    BY <1>3, <2>2 DEF Places
  <2>4. C[m + (i - 1)] = A[m] + B[i - 1]
    BY <1>9
  <2>5. l \in Nat
    <3>1. b[i] \in Wholes
      OBVIOUS
    <3>2. PropBytes(b[i]) \in Seq(Nat)
      BY <3>1, BytesAre
    <3>3. QED
      BY <3>2
  <2> HIDE DEF l, m, n
  <2>6. C[m + i] = A[m] + B[i]
    BY <1>7, <2>1, <2>2, <2>3, <2>4, <2>5
  <2>7. QED
    BY <2>2, <2>6
<1>10. \A i \in 0..n : i \in Moved
  <2> HIDE DEF Moved, n, m
  <2>1. QED
    BY <1>1, <1>8, <1>9, Along
<1>11. QED
  BY <1>3, <1>6, <1>10 DEF A, B, C, c

-----------------------------------------------------------------------------
(* The built-in properties, as many as there are, before and after the
   replacements.                                                            *)
BuiltIn(n) == {l \in Seq(Wholes) : Len(l) = n}
Changes(n) == [list : BuiltIn(n), delta : Int]
Modifying(org, mods, f) ==
    f = [i \in 0..Len(mods) |->
            IF i = 0 THEN [list |-> org, delta |-> 0]
            ELSE [list |-> modify_rjv3_prop(f[i - 1].list, mods[i]).list,
                  delta |-> f[i - 1].delta + modify_rjv3_prop(f[i - 1].list, mods[i]).delta]]

LEMMA ModifyIs ==
  ASSUME NEW org, NEW mods
  PROVE  modify_rjv3_prop_list(org, mods) =
           (CHOOSE f : Modifying(org, mods, f))[Len(mods)]
BY DEF modify_rjv3_prop_list, Modifying

LEMMA FindsOne ==
  ASSUME NEW list \in Seq(Wholes), NEW type
  PROVE  find_rjv3_prop(list, type) \in 0..Len(list)
<1> DEFINE Test(p) == p.type = type
           hits == {i \in 1..Len(list) : Test(list[i])}
<1>1. Len(list) \in Nat
  OBVIOUS
<1>2. find_rjv3_prop(list, type) =
        IF hits # {} THEN CHOOSE i \in hits : \A j \in hits : i <= j ELSE 0
  BY DEF find_rjv3_prop, SelectInSeq, Min
<1>3. hits # {} => (CHOOSE i \in hits : \A j \in hits : i <= j) \in hits
  <2>1. hits \subseteq Nat /\ hits \subseteq 0..Len(list)
    BY <1>1
  <2> HIDE DEF hits
  <2>2. hits # {} => \E i \in hits : \A j \in hits : i <= j
    BY <2>1, Least
  <2>3. QED
    BY <2>2
<1>4. hits \subseteq 0..Len(list) /\ 0 \in 0..Len(list)
  BY <1>1
<1> HIDE DEF hits
<1>5. QED
  BY <1>2, <1>3, <1>4

LEMMA OneModified ==
  ASSUME NEW n \in Nat, NEW list \in BuiltIn(n), NEW mod \in Wholes
  PROVE  /\ modify_rjv3_prop(list, mod).list \in BuiltIn(n)
         /\ modify_rjv3_prop(list, mod).delta \in Int
<1> DEFINE i == find_rjv3_prop(list, mod.type)
           new == NewProp(mod.type, SubSeq(mod.content, 1, PROP_TO_CONTENT_SIZE(mod)))
           changed == [k \in DOMAIN list |-> IF k = i THEN new ELSE list[k]]
<1>1. list \in Seq(Wholes) /\ Len(list) = n /\ DOMAIN list = 1..n
  BY DEF BuiltIn
<1>2. i \in 0..n
  BY <1>1, FindsOne
<1>3. new = mod
  <2>1. /\ mod = NewProp(mod.type, mod.content) /\ mod.content \in Seq(Nat)
        /\ mod.len - 2 = Len(mod.content)
    BY WholeHas
  <2>2. SubSeq(mod.content, 1, mod.len - 2) = mod.content
    BY <2>1
  <2>3. QED
    BY <2>1, <2>2, Zenon DEF PROP_TO_CONTENT_SIZE
<1>4. modify_rjv3_prop(list, mod) =
        IF i = 0 THEN [list |-> list, delta |-> 0]
        ELSE [list |-> changed, delta |-> new.len - list[i].len]
  BY DEF modify_rjv3_prop
<1> HIDE DEF i, new
<1>5. changed \in BuiltIn(n)
  <2>1. \A k \in 1..n : list[k] \in Wholes
    BY <1>1
  <2>2. changed \in [1..n -> Wholes]
    BY <1>1, <1>3, <2>1
  <2> HIDE DEF changed
  <2>3. changed \in Seq(Wholes) /\ Len(changed) = n
    BY <2>2
  <2>4. QED
    BY <2>3 DEF BuiltIn
<1> HIDE DEF changed
<1>6. i # 0 => new.len - list[i].len \in Int
  <2>1. ASSUME i # 0 PROVE new.len - list[i].len \in Int
    <3>1. list[i] \in Wholes
      BY <1>1, <1>2, <2>1
    <3>2. list[i].len \in Int /\ new.len \in Int
      BY <1>3, <3>1, WholeHas
    <3>3. QED
      BY <3>2
  <2>2. QED
    BY <2>1
<1>7. QED
  BY <1>4, <1>5, <1>6

LEMMA AllModified ==
  ASSUME NEW n \in Nat, NEW org \in BuiltIn(n), NEW mods \in Seq(Wholes)
  PROVE  modify_rjv3_prop_list(org, mods).list \in BuiltIn(n)
<1> DEFINE m == Len(mods)
           first == [list |-> org, delta |-> 0]
           Next(i, v) == [list |-> modify_rjv3_prop(v.list, mods[i]).list,
                          delta |-> v.delta + modify_rjv3_prop(v.list, mods[i]).delta]
           step == [kv \in (1..m) \X Changes(n) |-> Next(kv[1], kv[2])]
<1>1. m \in Nat /\ 0 <= m /\ 0 \in Nat /\ 0 + 1 = 1
  OBVIOUS
<1>2. first \in Changes(n)
  BY DEF Changes
<1>3. ASSUME NEW i \in 1..m, NEW v \in Changes(n) PROVE Next(i, v) \in Changes(n)
  <2>1. mods[i] \in Wholes /\ v.list \in BuiltIn(n) /\ v.delta \in Int
    BY DEF Changes
  <2>2. /\ modify_rjv3_prop(v.list, mods[i]).list \in BuiltIn(n)
        /\ modify_rjv3_prop(v.list, mods[i]).delta \in Int
    BY <2>1, OneModified
  <2>3. v.delta + modify_rjv3_prop(v.list, mods[i]).delta \in Int
    BY <2>1, <2>2
  <2>4. QED
    BY <2>2, <2>3 DEF Changes
<1> HIDE DEF Next
<1>4. step \in [(1..m) \X Changes(n) -> Changes(n)]
  <2> HIDE DEF m
  <2>1. \A kv \in (1..m) \X Changes(n) : kv[1] \in 1..m /\ kv[2] \in Changes(n)
    OBVIOUS
  <2>2. QED
    BY <1>3, <2>1
<1>5. PICK f \in [0..m -> Changes(n)] : Course(0, m, first, step, f)
  <2> HIDE DEF m, first, step
  <2>1. QED
    BY <1>1, <1>2, <1>4, LoopRuns
<1>6. ASSUME NEW i \in 0..m
      PROVE  f[i] = IF i = 0 THEN first ELSE Next(i, f[i - 1])
  <2>1. f[i] = IF i = 0 THEN first ELSE step[<<i, f[i - 1]>>]
    BY <1>5 DEF Course
  <2>2. CASE i = 0
    BY <2>1, <2>2
  <2>3. CASE i # 0
    <3>1. i \in 1..m /\ i - 1 \in 0..m
      BY <1>1, <2>3
    <3>2. f[i - 1] \in Changes(n)
      BY <1>5, <3>1
    <3> HIDE DEF m
    <3>3. QED
      BY <2>1, <2>3, <3>1, <3>2
  <2>4. QED
    BY <2>2, <2>3
<1>7. \E g : Modifying(org, mods, g)
  <2>1. f = [i \in 0..m |-> f[i]]
    BY <1>5
  <2> HIDE DEF first
  <2>2. f = [i \in 0..m |-> IF i = 0 THEN first ELSE Next(i, f[i - 1])]
    BY <1>6, <2>1
  <2>3. Modifying(org, mods, f)
    BY <2>2 DEF Modifying, first, Next
  <2>4. QED
    BY <2>3
<1> DEFINE F == CHOOSE g : Modifying(org, mods, g)
<1>8. Modifying(org, mods, F)
  BY <1>7
<1>9. modify_rjv3_prop_list(org, mods) = F[m]
  BY ModifyIs
<1> HIDE DEF F
<1>10. \A i \in 0..m : F[i] = IF i = 0 THEN first ELSE Next(i, F[i - 1])
  BY <1>8 DEF Modifying, Next
<1> DEFINE Good == {i \in 0..m : F[i] \in Changes(n)}
<1>11. 0 \in Good
  BY <1>1, <1>2, <1>10
<1>12. ASSUME NEW i \in 1..m, i - 1 \in Good PROVE i \in Good
  <2>1. i \in 0..m /\ i # 0 /\ F[i - 1] \in Changes(n)
    BY <1>12
  <2>2. F[i] = Next(i, F[i - 1])
    BY <1>10, <2>1
  <2>3. F[i] \in Changes(n)
    BY <1>3, <2>1, <2>2
  <2>4. QED
    BY <2>1, <2>3
<1>13. m \in Good
  <2> HIDE DEF Good, m
  <2>1. \A i \in 0..m : i \in Good
    BY <1>1, <1>11, <1>12, Along
  <2>2. QED
    BY <1>1, <2>1
<1>14. QED
  BY <1>9, <1>13 DEF Changes

LEMMA FieldsAreWhole ==
  ASSUME NEW md5 \in BOOLEAN
  PROVE  rjv3_append_common_fields(md5) \in BuiltIn(15)
<1> DEFINE fields == CommonFields(md5, 9, 20)
           list == rjv3_append_common_fields(md5)
<1>1. DOMAIN fields = 1..15
  BY DEF CommonFields
<1>2. ASSUME NEW i \in 1..15 PROVE fields[i][1] \in Nat /\ fields[i][2] \in 0..245
  <2>1. /\ fields[1] = <<24, 4>> /\ fields[2] = <<45, 6>> /\ fields[4] = <<118, 9>>
        /\ fields[5] = <<53, 1>> /\ fields[6] = <<54, 16>> /\ fields[7] = <<56, 16>>
        /\ fields[8] = <<78, 16>> /\ fields[9] = <<77, 128>> /\ fields[10] = <<57, 32>>
        /\ fields[11] = <<84, 64>> /\ fields[12] = <<85, 0>> /\ fields[13] = <<98, 1>>
        /\ fields[14] = <<112, 1>> /\ fields[15] = <<111, 20 + 1>>
        /\ fields[3] = <<47, IF md5 THEN 16 ELSE 0>>
    BY DEF CommonFields
  <2>2. \/ i = 1 \/ i = 2 \/ i = 3 \/ i = 4 \/ i = 5 \/ i = 6 \/ i = 7 \/ i = 8
        \/ i = 9 \/ i = 10 \/ i = 11 \/ i = 12 \/ i = 13 \/ i = 14 \/ i = 15
    OBVIOUS
  <2> HIDE DEF fields
  <2>3. QED
    BY <2>1, <2>2
<1>3. list = [i \in 1..15 |-> NewProp(fields[i][1], FieldContent(fields[i][1], fields[i][2]))]
  BY <1>1 DEF rjv3_append_common_fields
<1> HIDE DEF fields, list
<1>4. ASSUME NEW type \in Nat, NEW size \in 0..245
      PROVE  NewProp(type, FieldContent(type, size)) \in Wholes
  <2> DEFINE c == FieldContent(type, size)
  <2>1. \A k \in 1..size : 1000 * type + k \in Nat
    OBVIOUS
  <2>2. c \in [1..size -> Nat]
    BY <2>1 DEF FieldContent
  <2> HIDE DEF c
  <2>3. c \in Seq(Nat) /\ Len(c) = size
    BY <2>2
  <2>4. c \in Contents
    BY <2>3 DEF Contents
  <2>5. QED
    BY <2>4 DEF Wholes, c
<1>5. list \in [1..15 -> Wholes]
  BY <1>2, <1>3, <1>4
<1>6. list \in Seq(Wholes) /\ Len(list) = 15
  <2>1. PICK n \in Nat : n = 15
    OBVIOUS
  <2>2. list \in [1..n -> Wholes]
    BY <1>5, <2>1
  <2>3. list \in Seq(Wholes) /\ Len(list) = n
    BY <2>2
  <2>4. QED
    BY <2>1, <2>3
<1>7. QED
  BY <1>6 DEF BuiltIn, list

LEMMA SeqWider ==
  ASSUME NEW S, NEW T, S \subseteq T, NEW s \in Seq(S)
  PROVE  s \in Seq(T)
OBVIOUS

LEMMA OptionsAreWhole ==
  ASSUME PropsInv
  PROVE  cmd_prop_list \in Seq(Wholes) /\ cmd_prop_mod_list \in Seq(Wholes)
<1>1. OptionProps \subseteq Wholes
  <2>1. ASSUME NEW p \in OptionProps PROVE p \in Wholes
    <3>1. PICK type \in Byte, c \in OptionBytes : p = NewProp(type, c)
      BY DEF OptionProps
    <3>2. type \in Nat
      BY DEF Byte
    <3>3. c \in Seq(Byte) /\ Len(c) \in 1..100
      BY DEF OptionBytes
    <3>4. c \in Seq(Nat) /\ Len(c) <= 245
      <4>1. Byte \subseteq Nat
        BY DEF Byte
      <4>2. c \in Seq(Nat)
        BY <3>3, <4>1, SeqWider, Zenon
      <4>3. \A k \in 1..100 : k <= 245
        OBVIOUS
      <4>4. QED
        BY <3>3, <4>2, <4>3
    <3>5. c \in Contents
      BY <3>4 DEF Contents
    <3>6. QED
      BY <3>1, <3>2, <3>5 DEF Wholes
  <2>2. QED
    BY <2>1
<1>2. cmd_prop_list \in Seq(OptionProps) /\ cmd_prop_mod_list \in Seq(OptionProps)
  BY DEF PropsInv
<1> HIDE DEF OptionProps, Wholes
<1>3. QED
  BY <1>1, <1>2

(* A buffer that begins with s has what s has. *)
LEMMA HasPrefix ==
  ASSUME NEW s, NEW t, NEW at \in Nat, NEW bytes \in Seq(Nat), HasAt(s, at, bytes),
         Len(s) \in Nat, Len(t) \in Nat, Len(s) <= Len(t),
         \A i \in 1..Len(s) : t[i] = s[i]
  PROVE  HasAt(t, at, bytes)
<1> DEFINE b == Len(bytes)
<1>1. b \in Nat /\ at + b <= Len(s) /\ \A k \in 1..b : s[at + k] = bytes[k]
  BY DEF HasAt
<1> HIDE DEF b
<1>2. at + b <= Len(t) /\ \A k \in 1..b : at + k \in 1..Len(s)
  BY <1>1
<1>3. QED
  BY <1>1, <1>2 DEF HasAt, b

LEMMA FullLengthOfSome ==
  ASSUME NEW list \in Seq(Wholes), Len(list) # 0
  PROVE  FullLength(list) > 0
<1> DEFINE n == Len(list)
           P == PlaceOf(list)
<1>1. n \in Nat /\ 1 \in 1..n /\ 1 \in 0..n /\ n \in 1..n
  OBVIOUS
<1>2. Places(list, P) /\ FullLength(list) = P[n]
  BY PlacesAre
<1>3. \A i \in 1..n : Len(PropBytes(list[i])) \in Nat
  <2>1. ASSUME NEW i \in 1..n PROVE Len(PropBytes(list[i])) \in Nat
    <3>1. list[i] \in Wholes
      OBVIOUS
    <3>2. PropBytes(list[i]) \in Seq(Nat)
      BY <3>1, BytesAre
    <3>3. QED
      BY <3>2
  <2>2. QED
    BY <2>1
<1> HIDE DEF P
<1>4. P[1] <= P[n] /\ P[1] \in Nat /\ P[n] \in Nat
  <2> DEFINE m == n
  <2>1. m = Len(list) /\ m \in Nat /\ 1 \in 0..m
    BY <1>1
  <2> HIDE DEF m
  <2>2. PICK one : one = 1
    OBVIOUS
  <2>3. \A j \in one..m : P[one] \in Nat /\ P[j] \in Nat /\ P[one] <= P[j]
    <3>1. one \in 0..m
      BY <2>1, <2>2
    <3>2. QED
      BY <1>2, <1>3, <2>1, <3>1, PlacesGrow
  <2>4. m \in one..m
    BY <1>1, <2>1, <2>2
  <2>5. QED
    BY <2>2, <2>3, <2>4 DEF m
<1>5. P[1] = P[0] + Len(PropBytes(list[1])) /\ P[0] = 0
  <2>1. 1 - 1 = 0
    OBVIOUS
  <2>2. QED
    BY <1>1, <1>2, <2>1 DEF Places
<1>6. Len(PropBytes(list[1])) > 0
  <2>1. list[1] \in Wholes
    BY <1>1
  <2>2. Len(PropBytes(list[1])) = 8 + Len(list[1].content) /\ Len(list[1].content) \in Nat
    BY <2>1, BytesAre, WholeHas
  <2>3. QED
    BY <2>2
<1>7. QED
  BY <1>2, <1>4, <1>5, <1>6

LEMMA TrailerIs ==
  ASSUME PropsAssumption, PropsInv, NEW md5 \in BOOLEAN,
         Modified(md5).delta = 0,
         FullLength(Modified(md5).list \o cmd_prop_list) <= FRAME_BUF_SIZE
  PROVE  LET want == Modified(md5).list \o cmd_prop_list
             got == rjv3_append_priv(md5)
         IN  /\ got.size = FullLength(want)
             /\ parse_rjv3_buf_to_prop_list(got.trailer, FALSE) = [ok |-> TRUE, list |-> want]
<1> DEFINE mods == Modified(md5)
           list == mods.list
           cmds == cmd_prop_list
           want == list \o cmds
           A == PlaceOf(list)
           B == PlaceOf(cmds)
           C == PlaceOf(want)
           m == Len(list)
           n == Len(cmds)
           none == <<>>
           std == append_rjv3_prop_list_to_buffer(list, none, 0, FRAME_BUF_SIZE)
           at == mods.delta + std.len
           cmd == append_rjv3_prop_list_to_buffer(cmds, std.buf, at, FRAME_BUF_SIZE - at)
           size == at + cmd.len
           got == rjv3_append_priv(md5)
           buf == cmd.buf
           trailer == Slice(buf \o ZeroBytes(FRAME_BUF_SIZE), 0, size)
<1>1. list \in Seq(Wholes) /\ m = 15 /\ cmds \in Seq(Wholes) /\ n \in Nat
  <2>1. cmds \in Seq(Wholes) /\ cmd_prop_mod_list \in Seq(Wholes)
    BY OptionsAreWhole
  <2>2. PICK k : k = 15
    OBVIOUS
  <2>3. rjv3_append_common_fields(md5) \in BuiltIn(k) /\ k \in Nat
    BY <2>2, FieldsAreWhole
  <2>4. modify_rjv3_prop_list(rjv3_append_common_fields(md5), cmd_prop_mod_list).list \in BuiltIn(k)
    BY <2>1, <2>3, AllModified
  <2>5. list \in BuiltIn(k)
    BY <2>4 DEF Modified
  <2> HIDE DEF list
  <2>6. list \in Seq(Wholes) /\ m = k
    BY <2>5 DEF BuiltIn
  <2>7. QED
    BY <2>1, <2>2, <2>6
<1>2. mods.delta = 0 /\ FullLength(want) <= FRAME_BUF_SIZE /\ FRAME_BUF_SIZE \in Nat
  BY DEF PropsAssumption
<1>3. got = IF std.len <= 0 \/ cmd.len < 0 THEN [ok |-> FALSE, size |-> 0, trailer |-> none]
            ELSE [ok |-> TRUE, size |-> size, trailer |-> trailer]
  BY DEF rjv3_append_priv, Modified
<1> HIDE DEF mods, list, cmds, std, cmd, got, trailer
<1>4. /\ want \in Seq(Wholes) /\ Len(want) = m + n
      /\ (\A i \in 1..m : want[i] = list[i]) /\ \A i \in 1..n : want[m + i] = cmds[i]
  <2>1. list \in Seq(Wholes) /\ cmds \in Seq(Wholes)
    BY <1>1
  <2> HIDE DEF Wholes
  <2>2. /\ want \in Seq(Wholes) /\ Len(want) = Len(list) + Len(cmds)
        /\ \A i \in 1..Len(list) : want[i] = list[i]
        /\ \A i \in 1..Len(cmds) : want[Len(list) + i] = cmds[i]
    BY <2>1
  <2>3. QED
    BY <2>2
<1>5. /\ \A i \in 0..m : C[i] = A[i]
      /\ \A i \in 0..n : C[m + i] = FullLength(list) + B[i]
  BY <1>1, PlacesOfBoth, ZenonT(30)
<1>6. /\ FullLength(list) = A[m] /\ FullLength(cmds) = B[n] /\ FullLength(want) = C[m + n]
      /\ A[m] \in Nat /\ B[n] \in Nat
      /\ Places(want, C) /\ Places(list, A) /\ Places(cmds, B)
  <2>1. FullLength(list) = A[m] /\ Places(list, A) /\ FullLength(list) \in Nat
    BY <1>1, PlacesAre, ZenonT(30)
  <2>2. FullLength(cmds) = B[n] /\ Places(cmds, B) /\ FullLength(cmds) \in Nat
    BY <1>1, PlacesAre
  <2> HIDE DEF want
  <2>3. FullLength(want) = C[Len(want)] /\ Places(want, C)
    BY <1>4, PlacesAre
  <2>4. QED
    BY <1>4, <2>1, <2>2, <2>3
<1> HIDE DEF want, A, B, C
<1>7. FullLength(want) = A[m] + B[n]
  <2>1. n \in 0..n
    BY <1>1
  <2>2. QED
    BY <1>5, <1>6, <2>1
<1>8. Written(list, A, m, none, 0, std)
  <2>1. none \in Seq(Nat) /\ Len(none) = 0
    OBVIOUS
  <2>2. PICK zero : zero = 0
    OBVIOUS
  <2>3. FRAME_BUF_SIZE \in Int /\ FullLength(list) <= FRAME_BUF_SIZE
    BY <1>2, <1>6, <1>7
  <2>4. zero = Len(none)
    BY <2>1, <2>2
  <2> HIDE DEF none, m
  <2>5. Written(list, PlaceOf(list), Len(list), none, zero,
                append_rjv3_prop_list_to_buffer(list, none, zero, FRAME_BUF_SIZE))
    BY <1>1, <2>1, <2>3, <2>4, ListWritten
  <2>6. QED
    BY <2>2, <2>5 DEF A, m, std
<1>9. std.buf \in Seq(Nat) /\ std.len = A[m] /\ Len(std.buf) = A[m] /\ at = A[m]
  <2>1. std.buf \in Seq(Nat) /\ std.len = A[m] /\ Len(std.buf) = 0 + A[m]
    BY <1>8 DEF Written
  <2>2. QED
    BY <1>2, <1>6, <2>1
<1>10. Written(cmds, B, n, std.buf, at, cmd)
  <2>1. at = Len(std.buf) /\ at \in Nat
    BY <1>6, <1>9
  <2> HIDE DEF at
  <2>2. FRAME_BUF_SIZE - at \in Int /\ FullLength(cmds) <= FRAME_BUF_SIZE - at
    <3>1. at = A[m]
      BY <1>9
    <3>2. QED
      BY <1>2, <1>6, <1>7, <2>1, <3>1
  <2> DEFINE room == FRAME_BUF_SIZE - at
  <2> HIDE DEF room
  <2>3. Written(cmds, PlaceOf(cmds), Len(cmds), std.buf, at,
                append_rjv3_prop_list_to_buffer(cmds, std.buf, at, room))
    BY <1>1, <1>9, <2>1, <2>2, ListWritten DEF room
  <2>4. QED
    BY <2>3 DEF B, n, cmd, room
<1>11. /\ buf \in Seq(Nat) /\ cmd.len = B[n] /\ Len(buf) = A[m] + B[n]
       /\ \A i \in 1..A[m] : buf[i] = std.buf[i]
  BY <1>9, <1>10 DEF Written
<1>12. size = A[m] + B[n] /\ ~(std.len <= 0 \/ cmd.len < 0)
  <2>1. Len(list) # 0
    BY <1>1
  <2>2. A[m] > 0
    BY <1>1, <1>6, <2>1, FullLengthOfSome
  <2>3. QED
    BY <1>6, <1>9, <1>11, <2>2
<1>13. got.size = FullLength(want) /\ got.trailer = trailer
  <2>1. got = [ok |-> TRUE, size |-> size, trailer |-> trailer]
    BY <1>3, <1>12
  <2> HIDE DEF size
  <2>2. QED
    BY <1>7, <1>12, <2>1
<1>14. trailer = buf
  <2> DEFINE zeros == ZeroBytes(FRAME_BUF_SIZE)
             wide == buf \o zeros
             l == A[m] + B[n]
  <2>1. zeros \in Seq(Nat)
    BY <1>2, ZeroBytesAre
  <2> HIDE DEF zeros
  <2>2. Len(wide) = Len(buf) + Len(zeros) /\ Len(zeros) \in Nat /\ \A i \in 1..Len(buf) : wide[i] = buf[i]
    BY <1>11, <2>1, Concat
  <2>3. l \in Nat /\ Len(buf) = l
    BY <1>6, <1>11
  <2> HIDE DEF wide, l
  <2>4. trailer = [i \in 1..l |-> IF 0 + i <= Len(wide) THEN wide[0 + i] ELSE Beyond]
    BY <1>12 DEF trailer, Slice, wide, zeros, l
  <2>5. \A i \in 1..l : 0 + i = i /\ i <= Len(wide) /\ wide[i] = buf[i]
    BY <2>2, <2>3
  <2>6. trailer = [i \in 1..l |-> buf[i]]
    BY <2>4, <2>5
  <2>7. buf = [i \in 1..l |-> buf[i]]
    BY <1>11, <2>3
  <2>8. QED
    BY <2>6, <2>7
<1>15. Lying(want, C, 0, buf)
  <2>1. ASSUME NEW i \in 1..(m + n) PROVE HasAt(buf, 0 + C[i - 1], PropBytes(want[i]))
    <3>0. want[i] \in Wholes /\ PropBytes(want[i]) \in Seq(Nat)
      <4>1. want[i] \in Wholes
        BY <1>4
      <4>2. QED
        BY <4>1, BytesAre
    <3>1. CASE i <= m
      <4>1. i \in 1..m /\ i - 1 \in 0..m
        BY <1>1, <3>1
      <4>2. HasAt(std.buf, 0 + A[i - 1], PropBytes(list[i])) /\ A[i - 1] \in Nat
        BY <1>6, <1>8, <4>1 DEF Written, Places
      <4>3. C[i - 1] = A[i - 1] /\ want[i] = list[i] /\ 0 + A[i - 1] \in Nat
        BY <1>4, <1>5, <4>1, <4>2
      <4>4. /\ Len(std.buf) \in Nat /\ Len(buf) \in Nat /\ Len(std.buf) <= Len(buf)
            /\ \A k \in 1..Len(std.buf) : buf[k] = std.buf[k]
        <5> DEFINE a == A[m]
                   b == B[n]
        <5>1. a \in Nat /\ b \in Nat /\ Len(std.buf) = a /\ Len(buf) = a + b
              /\ \A k \in 1..a : buf[k] = std.buf[k]
          BY <1>6, <1>9, <1>11
        <5> HIDE DEF a, b, buf
        <5>2. a + b \in Nat /\ a <= a + b
          BY <5>1
        <5>3. QED
          BY <5>1, <5>2
      <4>5. HasAt(buf, 0 + A[i - 1], PropBytes(want[i]))
        BY <3>0, <4>2, <4>3, <4>4, HasPrefix
      <4>6. QED
        BY <4>3, <4>5
    <3>2. CASE ~(i <= m)
      <4> DEFINE j == i - m
      <4>1. j \in 1..n /\ j - 1 \in 0..n /\ m + j = i /\ i - 1 = m + (j - 1)
        BY <1>1, <3>2
      <4> HIDE DEF j
      <4>2. HasAt(buf, at + B[j - 1], PropBytes(cmds[j])) /\ B[j - 1] \in Nat
        BY <1>6, <1>10, <4>1 DEF Written, Places
      <4>3. want[i] = cmds[j] /\ C[i - 1] = A[m] + B[j - 1]
        BY <1>4, <1>5, <1>6, <4>1
      <4>4. at + B[j - 1] = 0 + C[i - 1]
        BY <1>6, <1>9, <4>2, <4>3
      <4>5. QED
        BY <4>2, <4>3, <4>4
    <3>3. QED
      BY <3>1, <3>2
  <2>2. QED
    BY <1>4, <2>1 DEF Lying
<1>16. parse_rjv3_buf_to_prop_list(buf, FALSE) = [ok |-> TRUE, list |-> want]
  <2>1. C[Len(want)] = Len(buf)
    BY <1>4, <1>6, <1>7, <1>11
  <2> HIDE DEF buf
  <2>2. QED
    BY <1>4, <1>6, <1>11, <1>15, <2>1, TrailerRead
<1>17. QED
  BY <1>13, <1>14, <1>16 DEF got, want, list, cmds, mods

(* Whatever --rj-options there are, in whatever number and of whatever length, and
   for every size of the frame buffer they fit into: rjv3_append_priv announces
   the length of what it writes, and the parser reads back from it every built-in
   property, replaced or not, and every added one.                              *)
THEOREM TrailerHoldsEveryPropHolds == PropsSpec => []TrailerHoldsEveryProp
<1>1. PropsInv => TrailerHoldsEveryProp
  <2> SUFFICES ASSUME PropsInv PROVE TrailerHoldsEveryProp
    OBVIOUS
  <2>1. ASSUME NEW md5 \in BOOLEAN, Modified(md5).delta = 0,
               FullLength(Modified(md5).list \o cmd_prop_list) <= FRAME_BUF_SIZE
        PROVE  LET want == Modified(md5).list \o cmd_prop_list
                   got == rjv3_append_priv(md5)
               IN  /\ got.size = FullLength(want)
                   /\ parse_rjv3_buf_to_prop_list(got.trailer, FALSE) = [ok |-> TRUE, list |-> want]
    BY <2>1, PropsAssumption, TrailerIs, ZenonT(30)
  <2>2. QED
    BY <2>1, Zenon DEF TrailerHoldsEveryProp
<1>2. QED
  BY <1>1, PropsInvariant, PTL

-----------------------------------------------------------------------------
LEMMA Greatest ==
  ASSUME NEW n \in Nat, NEW T, T \subseteq 0..n, T # {}
  PROVE  \E x \in T : \A y \in T : y <= x
<1> DEFINE U == {k \in 0..n : n - k \in T}
<1>1. U \subseteq Nat /\ U # {}
  <2>1. PICK x \in T : TRUE
    OBVIOUS
  <2>2. n - x \in 0..n /\ n - (n - x) = x
    OBVIOUS
  <2>3. n - x \in U
    BY <2>1, <2>2
  <2>4. U \subseteq Nat
    OBVIOUS
  <2> HIDE DEF U
  <2>5. QED
    BY <2>3, <2>4
<1>2. PICK k \in U : \A j \in U : k <= j
  <2> HIDE DEF U
  <2>1. QED
    BY <1>1, Least
<1>3. n - k \in T /\ k \in 0..n
  OBVIOUS
<1>4. ASSUME NEW y \in T PROVE y <= n - k
  <2>1. y \in 0..n /\ n - y \in 0..n /\ n - (n - y) = y
    OBVIOUS
  <2>2. n - y \in U
    BY <2>1
  <2> HIDE DEF U
  <2>3. k <= n - y
    BY <1>2, <2>2
  <2>4. QED
    BY <1>3, <2>1, <2>3
<1>5. QED
  BY <1>3, <1>4

LEMMA FirstIs ==
  ASSUME NEW table, NEW hits, hits \subseteq Nat
  PROVE  IF hits = {} THEN FirstValue(table, hits) = None
         ELSE \E i \in hits : /\ \A j \in hits : i <= j
                              /\ FirstValue(table, hits) = table[i].value
<1>1. CASE hits = {}
  BY <1>1 DEF FirstValue
<1>2. CASE hits # {}
  <2> DEFINE i == CHOOSE i \in hits : \A j \in hits : i <= j
  <2>1. \E k \in hits : \A j \in hits : k <= j
    BY <1>2, Least
  <2>2. i \in hits /\ \A j \in hits : i <= j
    BY <2>1
  <2>3. FirstValue(table, hits) = table[i].value
    BY <1>2 DEF FirstValue
  <2> HIDE DEF i
  <2>4. QED
    BY <1>2, <2>2, <2>3
<1>3. QED
  BY <1>1, <1>2

LEMMA LastIs ==
  ASSUME NEW table, NEW n \in Nat, NEW hits, hits \subseteq 0..n
  PROVE  IF hits = {} THEN LastValue(table, hits) = None
         ELSE \E i \in hits : LastValue(table, hits) = table[i].value
<1>1. CASE hits = {}
  BY <1>1 DEF LastValue
<1>2. CASE hits # {}
  <2> DEFINE i == CHOOSE i \in hits : \A j \in hits : j <= i
  <2>1. \E k \in hits : \A j \in hits : j <= k
    BY <1>2, Greatest
  <2>2. i \in hits
    BY <2>1
  <2>3. LastValue(table, hits) = table[i].value
    BY <1>2 DEF LastValue
  <2> HIDE DEF i
  <2>4. QED
    BY <1>2, <2>2, <2>3
<1>3. QED
  BY <1>1, <1>2

-----------------------------------------------------------------------------
NetInv ==
    /\ ifaddrs \in Seq(Address) /\ resolv_conf \in Seq(DnsLine) /\ routes \in Seq(Route)
    /\ fake_dns1 \in FakeDns

LEMMA NetInvariant == NetSpec => []NetInv
<1>1. InitNet => NetInv
  BY DEF InitNet, NetInv
<1>2. NetInv /\ [NetNext]_net_vars => NetInv'
  <2>1. SUFFICES ASSUME NetInv, [NetNext]_net_vars PROVE NetInv'
    OBVIOUS
  <2>2. ASSUME NEW a \in Address, NewAddress(a) PROVE NetInv'
    BY <2>1, <2>2 DEF NetInv, NewAddress
  <2>3. ASSUME NEW l \in DnsLine, NewDns(l) PROVE NetInv'
    BY <2>1, <2>3 DEF NetInv, NewDns
  <2>4. ASSUME NEW r \in Route, NewRoute(r) PROVE NetInv'
    BY <2>1, <2>4 DEF NetInv, NewRoute
  <2>5. CASE UNCHANGED net_vars
    BY <2>1, <2>5 DEF NetInv, net_vars
  <2>6. QED
    BY <2>1, <2>2, <2>3, <2>4, <2>5 DEF NetNext
<1>3. QED
  BY <1>1, <1>2, PTL DEF NetSpec

LEMMA ValuesAreNames == \A a \in Address \cup Route : a.value # None /\ a.value # "BLOCKED"
BY NetAssumption DEF None

(* A search in the list of the interface's addresses finds something when there
   is such an address, and then one of the interface.                          *)
LEMMA AddressesAre ==
  ASSUME NetInv, WalkAddresses = "SUCCESS"
  PROVE  LET list == obtain_iface_ip_mask.list
         IN  /\ list \in Seq(Address)
             /\ \A i \in 1..Len(list) : list[i] \in Range(ifaddrs) /\ list[i].ifname = Ifname
             /\ \A a \in Range(ifaddrs) : a.ifname = Ifname => \E i \in 1..Len(list) : list[i] = a
             /\ list = <<>> <=> OfInterface = {}
<1> DEFINE list == ListOf(ifaddrs, OfInterface)
<1>1. OfInterface \subseteq 1..Len(ifaddrs) /\ ifaddrs \in Seq(Address)
  BY DEF NetInv, OfInterface
<1>2. list \in Seq(Address)
  BY <1>1, ListIsCopy
<1>3. PICK pos : CopyOf(list, ifaddrs, OfInterface, Len(ifaddrs), pos)
  BY <1>1, ListIsCopy
<1>7. obtain_iface_ip_mask.list = list
  BY DEF obtain_iface_ip_mask
<1> HIDE DEF list
<1>4. ASSUME NEW i \in 1..Len(list) PROVE list[i] \in Range(ifaddrs) /\ list[i].ifname = Ifname
  <2>1. pos[i] \in OfInterface /\ list[i] = ifaddrs[pos[i]]
    BY <1>3 DEF CopyOf
  <2>2. pos[i] \in DOMAIN ifaddrs /\ ifaddrs[pos[i]].ifname = Ifname
    BY <2>1 DEF OfInterface
  <2>3. QED
    BY <2>1, <2>2 DEF Range
<1>5. ASSUME NEW a \in Range(ifaddrs), a.ifname = Ifname PROVE \E i \in 1..Len(list) : list[i] = a
  <2>1. PICK k \in DOMAIN ifaddrs : a = ifaddrs[k]
    BY DEF Range
  <2>2. k \in OfInterface /\ k <= Len(ifaddrs)
    BY <1>1, <1>5, <2>1 DEF OfInterface
  <2>3. PICK i \in 1..Len(list) : pos[i] = k
    BY <1>3, <2>2 DEF CopyOf
  <2>4. list[i] = ifaddrs[pos[i]]
    BY <1>3 DEF CopyOf
  <2>5. QED
    BY <2>1, <2>3, <2>4
<1>6. list = <<>> <=> OfInterface = {}
  <2>1. Len(list) \in Nat /\ (list = <<>> <=> Len(list) = 0)
    BY <1>2
  <2>2. ASSUME NEW k \in OfInterface PROVE Len(list) # 0
    <3>1. k \in 1..Len(ifaddrs) /\ k <= Len(ifaddrs)
      BY <1>1
    <3>2. PICK i \in 1..Len(list) : pos[i] = k
      BY <1>3, <3>1 DEF CopyOf
    <3>3. QED
      BY <2>1, <3>2
  <2>3. ASSUME Len(list) # 0 PROVE OfInterface # {}
    <3>1. 1 \in 1..Len(list)
      BY <2>1, <2>3
    <3>2. pos[1] \in OfInterface
      BY <1>3, <3>1 DEF CopyOf
    <3>3. QED
      BY <3>2
  <2>4. QED
    BY <2>1, <2>2, <2>3
<1>8. QED
  BY <1>2, <1>4, <1>5, <1>6, <1>7

LEMMA NoAddresses ==
  ASSUME WalkAddresses # "SUCCESS"
  PROVE  obtain_iface_ip_mask.list = <<>>
BY DEF obtain_iface_ip_mask

LEMMA Ipv4Is ==
  ASSUME NetInv
  PROVE  LET ip == find_ip_with_family(obtain_iface_ip_mask.list, "AF_INET")
         IN  IF OwnIpv4 = {} \/ WalkAddresses # "SUCCESS" THEN ip = None
             ELSE ip # None /\ ip \in OwnIpv4
<1> DEFINE list == obtain_iface_ip_mask.list
           hits == {i \in DOMAIN list : list[i].family = "AF_INET"}
           ip == FirstValue(list, hits)
<1>1. CASE WalkAddresses # "SUCCESS"
  <2>1. hits = {}
    BY <1>1, NoAddresses
  <2>2. QED
    BY <1>1, <2>1, FirstIs DEF find_ip_with_family
<1>2. CASE WalkAddresses = "SUCCESS"
  <2>1. /\ list \in Seq(Address)
        /\ \A i \in 1..Len(list) : list[i] \in Range(ifaddrs) /\ list[i].ifname = Ifname
        /\ \A a \in Range(ifaddrs) : a.ifname = Ifname => \E i \in 1..Len(list) : list[i] = a
    BY <1>2, AddressesAre
  <2> HIDE DEF list
  <2>2. hits \subseteq Nat /\ \A i \in hits : i \in 1..Len(list) /\ list[i].family = "AF_INET"
    BY <2>1
  <2>3. CASE hits = {}
    <3>1. ip = None
      BY <2>3, FirstIs
    <3>2. ASSUME NEW a \in Range(ifaddrs), a.ifname = Ifname, a.family = "AF_INET" PROVE FALSE
      <4>1. PICK i \in 1..Len(list) : list[i] = a
        BY <2>1, <3>2
      <4>2. i \in hits
        BY <2>1, <3>2, <4>1
      <4>3. QED
        BY <2>3, <4>2
    <3>3. OwnIpv4 = {}
      BY <3>2 DEF OwnIpv4
    <3>4. QED
      BY <3>1, <3>3 DEF find_ip_with_family, list
  <2>4. CASE hits # {}
    <3> HIDE DEF hits
    <3>1. PICK i \in hits : ip = list[i].value
      BY <2>2, <2>4, FirstIs
    <3>2. i \in 1..Len(list) /\ list[i].family = "AF_INET"
      BY <2>2
    <3>3. list[i] \in Range(ifaddrs) /\ list[i].ifname = Ifname /\ list[i] \in Address
      BY <2>1, <3>2
    <3>4. ip \in OwnIpv4
      BY <3>1, <3>2, <3>3 DEF OwnIpv4
    <3>5. ip # None
      BY <3>1, <3>3, ValuesAreNames
    <3>6. QED
      BY <1>2, <3>4, <3>5 DEF find_ip_with_family, list, hits
  <2>5. QED
    BY <2>3, <2>4
<1>3. QED
  BY <1>1, <1>2

LEMMA ScopedIs ==
  ASSUME NetInv, NEW kind, WalkAddresses = "SUCCESS"
  PROVE  IF OwnIpv6(kind) = {} THEN Scoped(kind) = None ELSE Scoped(kind) \in OwnIpv6(kind)
<1> DEFINE list == obtain_iface_ip_mask.list
           hits == {i \in DOMAIN list : list[i].family = "AF_INET6" /\ list[i].scope = kind}
<1>1. /\ list \in Seq(Address)
      /\ \A i \in 1..Len(list) : list[i] \in Range(ifaddrs) /\ list[i].ifname = Ifname
      /\ \A a \in Range(ifaddrs) : a.ifname = Ifname => \E i \in 1..Len(list) : list[i] = a
  BY AddressesAre
<1>2. Scoped(kind) = LastValue(list, hits)
  BY DEF Scoped
<1> HIDE DEF list
<1>3. /\ Len(list) \in Nat /\ hits \subseteq 0..Len(list)
      /\ \A i \in hits : i \in 1..Len(list) /\ list[i].family = "AF_INET6" /\ list[i].scope = kind
  BY <1>1
<1>4. CASE hits = {}
  <2>1. Scoped(kind) = None
    BY <1>2, <1>3, <1>4, LastIs
  <2>2. ASSUME NEW a \in Range(ifaddrs), a.ifname = Ifname, a.family = "AF_INET6", a.scope = kind
        PROVE  FALSE
    <3>1. PICK i \in 1..Len(list) : list[i] = a
      BY <1>1, <2>2
    <3>2. i \in hits
      BY <1>1, <2>2, <3>1
    <3>3. QED
      BY <1>4, <3>2
  <2>3. OwnIpv6(kind) = {}
    BY <2>2 DEF OwnIpv6
  <2>4. QED
    BY <2>1, <2>3
<1>5. CASE hits # {}
  <2> HIDE DEF hits
  <2>1. PICK i \in hits : Scoped(kind) = list[i].value
    BY <1>2, <1>3, <1>5, LastIs
  <2>2. list[i].family = "AF_INET6" /\ list[i].scope = kind
        /\ list[i] \in Range(ifaddrs) /\ list[i].ifname = Ifname
    BY <1>1, <1>3
  <2>3. Scoped(kind) \in OwnIpv6(kind)
    BY <2>1, <2>2 DEF OwnIpv6
  <2>4. QED
    BY <2>3
<1>6. QED
  BY <1>4, <1>5

-----------------------------------------------------------------------------
(* The list of name servers is empty when the file has none, begins with the
   first of them, and holds values of the file.                              *)
LEMMA NameServersAre ==
  ASSUME NetInv, "fopen" \notin failing
  PROVE  LET list == obtain_dns_list.list
         IN  /\ list \in Seq(DnsLine)
             /\ list = <<>> <=> NameServers = {}
             /\ list # <<>> => \E i \in NameServers : /\ \A j \in NameServers : i <= j
                                                      /\ list[1] = resolv_conf[i]
             /\ \A i \in 1..Len(list) : list[i] \in Range(resolv_conf)
<1> DEFINE list == ListOf(resolv_conf, NameServers)
<1>1. NameServers \subseteq 1..Len(resolv_conf) /\ resolv_conf \in Seq(DnsLine)
  BY DEF NetInv, NameServers
<1>2. list \in Seq(DnsLine)
  BY <1>1, ListIsCopy
<1>3. PICK pos : CopyOf(list, resolv_conf, NameServers, Len(resolv_conf), pos)
  BY <1>1, ListIsCopy
<1> HIDE DEF list
<1>4. ASSUME NEW i \in 1..Len(list)
      PROVE  pos[i] \in NameServers /\ pos[i] \in Nat /\ list[i] = resolv_conf[pos[i]]
             /\ list[i] \in Range(resolv_conf)
  <2>1. pos[i] \in NameServers /\ pos[i] \in Nat /\ list[i] = resolv_conf[pos[i]]
    BY <1>3 DEF CopyOf
  <2>2. pos[i] \in DOMAIN resolv_conf
    BY <2>1 DEF NameServers
  <2>3. QED
    BY <2>1, <2>2 DEF Range
<1>5. ASSUME NEW k \in NameServers PROVE \E i \in 1..Len(list) : pos[i] = k
  <2>1. k <= Len(resolv_conf)
    BY <1>1
  <2>2. QED
    BY <1>3, <2>1 DEF CopyOf
<1>6. list = <<>> <=> Len(list) = 0
  BY <1>2
<1>7. Len(list) \in Nat
  BY <1>2
<1>8. list = <<>> <=> NameServers = {}
  <2>1. ASSUME NEW k \in NameServers PROVE Len(list) # 0
    BY <1>5, <1>7
  <2>2. Len(list) # 0 => 1 \in 1..Len(list)
    BY <1>7
  <2>3. Len(list) # 0 => pos[1] \in NameServers
    BY <1>4, <2>2
  <2>4. QED
    BY <1>6, <2>1, <2>3
<1>9. ASSUME list # <<>>
      PROVE  \E i \in NameServers : (\A j \in NameServers : i <= j) /\ list[1] = resolv_conf[i]
  <2>1. 1 \in 1..Len(list)
    BY <1>6, <1>7, <1>9
  <2>2. pos[1] \in NameServers /\ list[1] = resolv_conf[pos[1]] /\ pos[1] \in Nat
    BY <1>4, <2>1
  <2>3. ASSUME NEW j \in NameServers PROVE pos[1] <= j
    <3>1. PICK i \in 1..Len(list) : pos[i] = j
      BY <1>5
    <3>2. CASE i = 1
      BY <2>2, <3>1, <3>2
    <3>3. CASE i # 1
      <4>1. 1 < i /\ pos[i] \in Nat
        BY <1>4, <3>3
      <4>2. pos[1] < pos[i]
        BY <1>3, <2>1, <4>1 DEF CopyOf
      <4>3. QED
        BY <2>2, <3>1, <4>1, <4>2
    <3>4. QED
      BY <3>2, <3>3
  <2>4. QED
    BY <2>2, <2>3
<1>10. QED
  BY <1>2, <1>4, <1>8, <1>9 DEF obtain_dns_list, list

-----------------------------------------------------------------------------
Datagram == [kind : {"routes", "done", "error", "fails"}, routes : Seq(Route)]
Received == [buf : Seq(Route), msgLen : Int, state : {"reads", "ended"}]
ReadingNetlink(answer, past, f) ==
    f = [i \in 0..Len(answer) |-> IF i = 0 THEN Nothing ELSE recv(f[i - 1], answer[i], past)]

LEMMA NetlinkIs ==
  ASSUME NEW answer, NEW past
  PROVE  read_from_netlink_socket(answer, past) =
           (CHOOSE f : ReadingNetlink(answer, past, f))[Len(answer)]
BY DEF read_from_netlink_socket, ReadingNetlink

(* The length of a datagram, of its first message and of what recv takes of it. *)
Size(msg) == IF msg.kind = "routes" THEN 2 * Len(msg.routes) ELSE 1
FirstSize(msg) == IF msg.kind = "routes" THEN 2 ELSE 1
ReadLen(v, msg) == LET room == NL_BUFSIZE - v.msgLen
                   IN  IF Size(msg) <= room THEN Size(msg) ELSE room
Longer(v, msg, n) ==
    [v EXCEPT !.buf = v.buf \o SubSeq(msg.routes, 1, n \div 2), !.msgLen = v.msgLen + n]

LEMMA RecvIs ==
  ASSUME NEW v, NEW msg, NEW past
  PROVE  recv(v, msg, past) =
           IF v.state # "reads" THEN v
           ELSE IF msg.kind = "fails" THEN [v EXCEPT !.msgLen = -1, !.state = "ended"]
           ELSE IF ReadLen(v, msg) = 0
                THEN [v EXCEPT !.state = IF past THEN "ended" ELSE "reads"]
           ELSE IF ReadLen(v, msg) < FirstSize(msg) \/ msg.kind = "error"
                THEN [v EXCEPT !.msgLen = v.msgLen - ReadLen(v, msg), !.state = "ended"]
           ELSE IF msg.kind = "done" THEN [v EXCEPT !.state = "ended"]
           ELSE Longer(v, msg, ReadLen(v, msg))
BY DEF recv, ReadLen, Size, FirstSize, Longer

LEMMA RecvTyped ==
  ASSUME NEW v \in Received, NEW msg \in Datagram, NEW past
  PROVE  recv(v, msg, past) \in Received
<1> DEFINE n == ReadLen(v, msg)
<1>1. /\ v.buf \in Seq(Route) /\ v.msgLen \in Int /\ msg.routes \in Seq(Route)
      /\ Len(msg.routes) \in Nat /\ NL_BUFSIZE \in Nat
  BY NetAssumption DEF Received, Datagram
<1>2. n \in Int
  BY <1>1 DEF ReadLen, Size
<1>3. CASE msg.kind = "routes"
  <2>1. n <= 2 * Len(msg.routes)
    BY <1>1, <1>3 DEF ReadLen, Size
  <2> HIDE DEF n
  <2>2. n \div 2 \in Int /\ n \div 2 <= Len(msg.routes)
    BY <1>1, <1>2, <2>1
  <2>3. SubSeq(msg.routes, 1, n \div 2) \in Seq(Route)
    BY <1>1, <2>2
  <2>4. v.buf \o SubSeq(msg.routes, 1, n \div 2) \in Seq(Route)
    BY <1>1, <2>3
  <2>5. /\ \A b \in Seq(Route), m \in Int : [v EXCEPT !.buf = b, !.msgLen = m] \in Received
        /\ \A m \in Int : [v EXCEPT !.msgLen = m, !.state = "ended"] \in Received
        /\ \A s \in {"reads", "ended"} : [v EXCEPT !.state = s] \in Received
    BY DEF Received
  <2>6. v.msgLen + n \in Int /\ v.msgLen - n \in Int
    BY <1>1, <1>2
  <2>7. Longer(v, msg, n) \in Received
    BY <2>4, <2>5, <2>6 DEF Longer
  <2>8. msg.kind # "fails" /\ msg.kind # "done" /\ msg.kind # "error"
    BY <1>3
  <2>9. [v EXCEPT !.state = IF past THEN "ended" ELSE "reads"] \in Received
    <3>1. (IF past THEN "ended" ELSE "reads") \in {"reads", "ended"}
      OBVIOUS
    <3>2. QED
      BY <2>5, <3>1
  <2>10. [v EXCEPT !.msgLen = v.msgLen - n, !.state = "ended"] \in Received
    BY <2>5, <2>6
  <2>11. QED
    BY <2>7, <2>8, <2>9, <2>10, RecvIs, Zenon DEF n
<1>4. CASE msg.kind # "routes"
  <2>1. msg.kind \in {"done", "error", "fails"}
    BY <1>4 DEF Datagram
  <2> HIDE DEF n
  <2>2. \A m \in Int, s \in {"reads", "ended"} :
           /\ [v EXCEPT !.msgLen = m, !.state = s] \in Received
           /\ [v EXCEPT !.state = s] \in Received
    BY DEF Received
  <2>3. -1 \in Int /\ v.msgLen - n \in Int
    BY <1>1, <1>2
  <2>4. QED
    BY <2>1, <2>2, <2>3, RecvIs DEF n, FirstSize, Received
<1>5. QED
  BY <1>3, <1>4

LEMMA NetlinkRuns ==
  ASSUME NEW answer \in Seq(Datagram), NEW past
  PROVE  \E f : ReadingNetlink(answer, past, f)
<1> DEFINE n == Len(answer)
           step == [kv \in (1..n) \X Received |-> recv(kv[2], answer[kv[1]], past)]
<1>1. n \in Nat /\ 0 <= n
  OBVIOUS
<1>2. Nothing \in Received
  BY DEF Nothing, Received
<1>3. step \in [((0 + 1)..n) \X Received -> Received]
  <2>1. ASSUME NEW k \in 1..n, NEW v \in Received PROVE recv(v, answer[k], past) \in Received
    <3>1. answer[k] \in Datagram
      OBVIOUS
    <3>2. QED
      BY <3>1, RecvTyped
  <2>2. QED
    BY <2>1
<1>4. PICK f \in [0..n -> Received] : Course(0, n, Nothing, step, f)
  <2> HIDE DEF n, step
  <2>1. QED
    BY <1>1, <1>2, <1>3, LoopRuns
<1>5. ASSUME NEW k \in 0..n
      PROVE  f[k] = IF k = 0 THEN Nothing ELSE recv(f[k - 1], answer[k], past)
  <2>1. f[k] = IF k = 0 THEN Nothing ELSE step[<<k, f[k - 1]>>]
    BY <1>4 DEF Course
  <2>2. CASE k = 0
    BY <2>1, <2>2
  <2>3. CASE k # 0
    <3>1. k \in 1..n /\ f[k - 1] \in Received
      BY <1>4, <2>3
    <3>2. QED
      BY <2>1, <2>3, <3>1
  <2>4. QED
    BY <2>2, <2>3
<1>6. f = [k \in 0..n |-> f[k]]
  BY <1>4
<1>7. QED
  BY <1>5, <1>6 DEF ReadingNetlink

(* The loop's value at each place. *)
LEMMA NetlinkSteps ==
  ASSUME NEW answer \in Seq(Datagram), NEW past
  PROVE  \E f : /\ read_from_netlink_socket(answer, past) = f[Len(answer)]
                /\ f[0] = Nothing
                /\ \A i \in 1..Len(answer) : f[i] = recv(f[i - 1], answer[i], past)
<1> DEFINE f == CHOOSE g : ReadingNetlink(answer, past, g)
<1>1. ReadingNetlink(answer, past, f)
  BY NetlinkRuns
<1>2. read_from_netlink_socket(answer, past) = f[Len(answer)]
  BY NetlinkIs
<1> HIDE DEF f
<1>3. \A i \in 0..Len(answer) :
         f[i] = IF i = 0 THEN Nothing ELSE recv(f[i - 1], answer[i], past)
  BY <1>1 DEF ReadingNetlink
<1>4. f[0] = Nothing /\ \A i \in 1..Len(answer) : f[i] = recv(f[i - 1], answer[i], past)
  BY <1>3
<1>5. QED
  BY <1>2, <1>4

(* What the loop has after the datagrams of the first e routes: all of them while
   they fit, and then a beginning of them, in a buffer that is full or given up. *)
Has(v, e, m) ==
    /\ m \in 0..e /\ v.buf = SubSeq(routes, 1, m)
    /\ v.msgLen \in Int /\ v.msgLen <= NL_BUFSIZE /\ v.msgLen <= 2 * m + 1
    /\ v.state \in {"reads", "ended"}
    /\ 2 * e <= NL_BUFSIZE => v.state = "reads" /\ v.msgLen = 2 * e /\ m = e
    /\ v.state = "reads" /\ 2 * e > NL_BUFSIZE => v.msgLen = NL_BUFSIZE
Holds(v, e) == v \in Received /\ \E m : Has(v, e, m)

LEMMA Pieces ==
  ASSUME NEW S, NEW s \in Seq(S), NEW e \in Nat, NEW g \in Nat, NEW h \in Nat,
         e + h <= g, g <= Len(s)
  PROVE  SubSeq(s, 1, e) \o SubSeq(SubSeq(s, e + 1, g), 1, h) = SubSeq(s, 1, e + h)
OBVIOUS

LEMMA HoldsMore ==
  ASSUME NetInv, NEW e \in Nat, NEW g \in Nat, e < g, g <= Len(routes), NEW v, NEW past,
         Holds(v, e), NEW msg, msg = [kind |-> "routes", routes |-> SubSeq(routes, e + 1, g)]
  PROVE  Holds(recv(v, msg, past), g)
<1> DEFINE w == recv(v, msg, past)
           n == ReadLen(v, msg)
<1>1. routes \in Seq(Route) /\ Len(routes) \in Nat /\ NL_BUFSIZE \in Nat
  BY NetAssumption DEF NetInv
<1>2. /\ msg.kind = "routes" /\ msg.routes = SubSeq(routes, e + 1, g)
      /\ msg.routes \in Seq(Route) /\ Len(msg.routes) = g - e
  BY <1>1
<1>3. v \in Received /\ msg \in Datagram
  BY <1>1, <1>2 DEF Holds, Datagram
<1>4. w \in Received
  BY <1>3, RecvTyped
<1>5. PICK m : Has(v, e, m)
  BY DEF Holds
<1>6. /\ Size(msg) = 2 * (g - e) /\ FirstSize(msg) = 2
      /\ n = IF 2 * (g - e) <= NL_BUFSIZE - v.msgLen THEN 2 * (g - e)
             ELSE NL_BUFSIZE - v.msgLen
  BY <1>2 DEF Size, FirstSize, ReadLen
<1>7. w = IF v.state # "reads" THEN v
          ELSE IF n = 0 THEN [v EXCEPT !.state = IF past THEN "ended" ELSE "reads"]
          ELSE IF n < 2 THEN [v EXCEPT !.msgLen = v.msgLen - n, !.state = "ended"]
          ELSE Longer(v, msg, n)
  BY <1>2, <1>6, RecvIs
<1> HIDE DEF w, n
<1>8. /\ m \in Nat /\ m <= e /\ v.msgLen \in Int /\ v.msgLen <= NL_BUFSIZE
      /\ v.msgLen <= 2 * m + 1 /\ v.buf = SubSeq(routes, 1, m)
      /\ v.state \in {"reads", "ended"}
      /\ 2 * e <= NL_BUFSIZE => v.state = "reads" /\ v.msgLen = 2 * e /\ m = e
      /\ v.state = "reads" /\ 2 * e > NL_BUFSIZE => v.msgLen = NL_BUFSIZE
  BY <1>5 DEF Has
<1>9. CASE v.state # "reads"
  <2>1. w = v /\ 2 * e > NL_BUFSIZE /\ 2 * g > NL_BUFSIZE
    BY <1>1, <1>7, <1>8, <1>9
  <2>2. Has(w, g, m)
    BY <1>1, <1>8, <1>9, <2>1 DEF Has
  <2>3. QED
    BY <1>4, <2>2 DEF Holds, w
<1>10. CASE v.state = "reads" /\ n = 0
  <2>1. v.msgLen = NL_BUFSIZE /\ 2 * g > NL_BUFSIZE
    BY <1>1, <1>6, <1>8, <1>10
  <2>2. w.buf = v.buf /\ w.msgLen = v.msgLen /\ w.state \in {"reads", "ended"}
    BY <1>3, <1>7, <1>10 DEF Received
  <2>3. Has(w, g, m)
    BY <1>1, <1>8, <2>1, <2>2 DEF Has
  <2>4. QED
    BY <1>4, <2>3 DEF Holds, w
<1>11. CASE v.state = "reads" /\ n # 0
  <2>1. v.msgLen = 2 * e /\ m = e /\ n \in Int /\ n > 0 /\ 2 * e + n <= NL_BUFSIZE
    BY <1>1, <1>6, <1>8, <1>11
  <2>2. CASE n < 2
    <3>1. 2 * g > NL_BUFSIZE
      BY <1>1, <1>6, <2>1, <2>2
    <3>2. w.buf = v.buf /\ w.msgLen = v.msgLen - n /\ w.state = "ended"
      BY <1>3, <1>7, <1>11, <2>2 DEF Received
    <3>3. Has(w, g, m)
      BY <1>1, <1>8, <2>1, <3>1, <3>2 DEF Has
    <3>4. QED
      BY <1>4, <3>3 DEF Holds, w
  <2>3. CASE ~(n < 2)
    <3> DEFINE h == n \div 2
    <3>1. w = Longer(v, msg, n)
      BY <1>7, <1>11, <2>3
    <3>2. /\ w.buf = v.buf \o SubSeq(msg.routes, 1, h) /\ w.msgLen = v.msgLen + n
          /\ w.state = "reads"
      BY <1>3, <1>11, <3>1 DEF Longer, Received
    <3>3. n <= 2 * (g - e)
      BY <1>1, <1>6, <1>8
    <3>4. h \in Nat /\ h <= g - e /\ n <= 2 * h + 1 /\ (n = 2 * (g - e) => h = g - e)
      BY <2>1, <2>3, <3>3
    <3> HIDE DEF h
    <3>5. w.buf = SubSeq(routes, 1, e + h)
      BY <1>1, <1>2, <1>8, <2>1, <3>2, <3>4, Pieces
    <3>6. n = 2 * (g - e) \/ (2 * g > NL_BUFSIZE /\ 2 * e + n = NL_BUFSIZE)
      BY <1>1, <1>6, <2>1
    <3>7. Has(w, g, e + h)
      BY <1>1, <1>8, <2>1, <3>2, <3>4, <3>5, <3>6 DEF Has
    <3>8. QED
      BY <1>4, <3>7 DEF Holds, w
  <2>4. QED
    BY <2>2, <2>3
<1>12. QED
  BY <1>8, <1>9, <1>10, <1>11

(* What the loop has at its end, of which the length says how much counts. *)
LEMMA HoldsLast ==
  ASSUME NetInv, NEW v, NEW past, Holds(v, Len(routes)), NEW msg \in Datagram,
         msg.kind \in {"done", "error", "fails"}
  PROVE  LET w == recv(v, msg, past)
         IN  /\ w.msgLen >= 0 =>
                   \E h \in 0..Len(routes) : Messages(w) = SubSeq(routes, 1, h)
             /\ RoutesFit => w.state = "ended"
             /\ RoutesFit /\ msg.kind = "done" => w.msgLen >= 0 /\ Messages(w) = routes
<1> DEFINE w == recv(v, msg, past)
           n == ReadLen(v, msg)
           e == Len(routes)
<1>1. routes \in Seq(Route) /\ e \in Nat /\ NL_BUFSIZE \in Nat
  BY NetAssumption DEF NetInv
<1>2. PICK m : Has(v, e, m)
  BY DEF Holds
<1>3. v \in Received
  BY DEF Holds
<1>4. /\ FirstSize(msg) = 1
      /\ n = IF 1 <= NL_BUFSIZE - v.msgLen THEN 1 ELSE NL_BUFSIZE - v.msgLen
  BY DEF Size, FirstSize, ReadLen
<1>5. w = IF v.state # "reads" THEN v
          ELSE IF msg.kind = "fails" THEN [v EXCEPT !.msgLen = -1, !.state = "ended"]
          ELSE IF n = 0 THEN [v EXCEPT !.state = IF past THEN "ended" ELSE "reads"]
          ELSE IF n < 1 \/ msg.kind = "error"
               THEN [v EXCEPT !.msgLen = v.msgLen - n, !.state = "ended"]
          ELSE [v EXCEPT !.state = "ended"]
  BY <1>4, RecvIs
<1> HIDE DEF w, n, e
<1>6. /\ m \in Nat /\ m <= e /\ v.msgLen \in Int /\ v.msgLen <= NL_BUFSIZE
      /\ v.msgLen <= 2 * m + 1 /\ v.buf = SubSeq(routes, 1, m)
      /\ v.state \in {"reads", "ended"}
      /\ 2 * e <= NL_BUFSIZE => v.state = "reads" /\ v.msgLen = 2 * e /\ m = e
      /\ v.state = "reads" /\ 2 * e > NL_BUFSIZE => v.msgLen = NL_BUFSIZE
  BY <1>1, <1>2 DEF Has
<1>7. n \in Int /\ 0 <= n /\ n <= 1
  BY <1>1, <1>4, <1>6
<1>8. /\ w.buf = v.buf /\ w.msgLen \in Int
      /\ w.msgLen <= v.msgLen \/ w.msgLen = -1
  BY <1>3, <1>5, <1>6, <1>7 DEF Received
<1>9. ASSUME w.msgLen >= 0
      PROVE  /\ w.msgLen \div 2 \in 0..e
             /\ Messages(w) = SubSeq(routes, 1, w.msgLen \div 2)
  <2> DEFINE h == w.msgLen \div 2
  <2>1. w.buf = v.buf /\ w.msgLen \in Nat /\ w.msgLen <= 2 * m + 1
    BY <1>6, <1>8, <1>9
  <2>2. h \in Nat /\ h <= m
    BY <1>6, <2>1
  <2>3. Messages(w) = SubSeq(SubSeq(routes, 1, m), 1, h)
    BY <1>6, <2>1 DEF Messages
  <2> HIDE DEF h
  <2>4. Messages(w) = SubSeq(routes, 1, h)
    BY <1>1, <1>6, <2>2, <2>3 DEF e
  <2>5. QED
    BY <1>1, <1>6, <2>2, <2>4 DEF h
<1>10. ASSUME RoutesFit
       PROVE  /\ w.state = "ended"
              /\ msg.kind = "done" => w.msgLen = 2 * e
  <2>1. 2 * e + 1 <= NL_BUFSIZE
    BY <1>10 DEF RoutesFit, e
  <2>2. v.state = "reads" /\ v.msgLen = 2 * e /\ n = 1
    BY <1>1, <1>4, <1>6, <2>1
  <2>3. QED
    BY <1>1, <1>3, <1>5, <2>2 DEF Received
<1>11. ASSUME RoutesFit, msg.kind = "done" PROVE w.msgLen >= 0 /\ Messages(w) = routes
  <2>1. w.msgLen = 2 * e /\ w.msgLen >= 0 /\ w.msgLen \div 2 = e
    BY <1>1, <1>10, <1>11
  <2>2. Messages(w) = SubSeq(routes, 1, e)
    BY <1>9, <2>1
  <2>3. SubSeq(routes, 1, e) = routes
    BY <1>1 DEF e
  <2>4. QED
    BY <2>1, <2>2, <2>3
<1>12. QED
  BY <1>9, <1>10, <1>11 DEF w, e

(* However the kernel cuts its routes into datagrams, what is read is a beginning
   of them, and all of them if they fit and no error comes.                    *)
LEMMA RoutesAreRead ==
  ASSUME NetInv, NEW k \in Kernel
  PROVE  LET v == read_from_netlink_socket(netlink_answer(k), k.past)
         IN  /\ v.msgLen >= 0 =>
                   \E h \in 0..Len(routes) : Messages(v) = SubSeq(routes, 1, h)
             /\ RoutesFit => v.state = "ended"
             /\ RoutesFit /\ k.last = "done" => v.msgLen >= 0 /\ Messages(v) = routes
             /\ v \in Received
<1> DEFINE ends == k.ends
           past == k.past
           answer == netlink_answer(k)
           n == Len(ends)
           Before(i) == IF i = 0 THEN 0 ELSE ends[i]
<1>1. routes \in Seq(Route) /\ Len(routes) \in Nat
  BY DEF NetInv
<1>2. ends \in DatagramEnds /\ k.last \in {"done", "error", "fails"}
  BY DEF Kernel
<1>3. PICK m \in 0..Len(routes) : ends \in [1..m -> 1..Len(routes)]
  BY <1>2 DEF DatagramEnds
<1>4. n = m /\ n \in Nat /\ \A i \in 1..n : ends[i] \in 1..Len(routes)
  BY <1>1, <1>3
<1>5. /\ \A i \in 2..n : ends[i - 1] < ends[i]
      /\ routes # <<>> => ends # <<>> /\ ends[n] = Len(routes)
  BY <1>2 DEF DatagramEnds
<1>6. answer = [i \in 1..(n + 1) |->
                  IF i > n THEN [kind |-> k.last, routes |-> <<>>]
                  ELSE [kind |-> "routes",
                        routes |-> SubSeq(routes, IF i = 1 THEN 1 ELSE ends[i - 1] + 1, ends[i])]]
  BY DEF netlink_answer
<1> HIDE DEF ends, past, answer, n
<1>7. \A i \in 0..n : Before(i) \in Nat /\ Before(i) <= Len(routes)
  BY <1>1, <1>4
<1>8. ASSUME NEW i \in 1..n PROVE Before(i - 1) < Before(i)
  <2>1. CASE i = 1
    BY <1>4, <2>1
  <2>2. CASE i # 1
    <3>1. i \in 2..n /\ i - 1 # 0 /\ i # 0
      BY <1>4, <2>2
    <3>2. QED
      BY <1>5, <3>1
  <2>3. QED
    BY <2>1, <2>2
<1>9. Before(n) = Len(routes)
  <2>1. CASE routes = <<>>
    BY <1>1, <1>4, <1>7, <2>1
  <2>2. CASE routes # <<>>
    <3>1. n # 0
      BY <1>3, <1>4, <1>5, <2>2
    <3>2. QED
      BY <1>5, <2>2, <3>1
  <2>3. QED
    BY <2>1, <2>2
<1>10. ASSUME NEW i \in 1..n
       PROVE  answer[i] = [kind |-> "routes", routes |-> SubSeq(routes, Before(i - 1) + 1, Before(i))]
  <2>1. i \in 1..(n + 1) /\ ~(i > n) /\ i # 0
    BY <1>4
  <2>2. answer[i] = [kind |-> "routes",
                     routes |-> SubSeq(routes, IF i = 1 THEN 1 ELSE ends[i - 1] + 1, ends[i])]
    BY <1>6, <2>1
  <2>3. (IF i = 1 THEN 1 ELSE ends[i - 1] + 1) = Before(i - 1) + 1 /\ ends[i] = Before(i)
    BY <1>4, <2>1
  <2> HIDE DEF Before
  <2>4. QED
    BY <2>2, <2>3, Zenon
<1>11. answer[n + 1] = [kind |-> k.last, routes |-> <<>>]
  BY <1>4, <1>6
<1> HIDE DEF Before
<1>12. answer \in Seq(Datagram) /\ Len(answer) = n + 1
  <2>1. \A i \in 1..n : answer[i] \in Datagram
    <3>1. ASSUME NEW i \in 1..n PROVE SubSeq(routes, Before(i - 1) + 1, Before(i)) \in Seq(Route)
      <4>1. i - 1 \in 0..n /\ i \in 0..n
        BY <1>4
      <4>2. QED
        BY <1>1, <1>7, <4>1
    <3>2. \A r \in Seq(Route) : [kind |-> "routes", routes |-> r] \in Datagram
      BY DEF Datagram
    <3>3. QED
      BY <1>10, <3>1, <3>2
  <2>2. answer[n + 1] \in Datagram
    BY <1>2, <1>11 DEF Datagram
  <2>3. \A i \in 1..(n + 1) : answer[i] \in Datagram
    BY <1>4, <2>1, <2>2
  <2>4. answer = [i \in 1..(n + 1) |-> answer[i]]
    BY <1>6
  <2>5. QED
    BY <1>4, <2>3, <2>4
<1>13. PICK f : /\ read_from_netlink_socket(answer, past) = f[Len(answer)]
                /\ f[0] = Nothing
                /\ \A i \in 1..Len(answer) : f[i] = recv(f[i - 1], answer[i], past)
  BY <1>12, NetlinkSteps
<1> DEFINE T == {i \in 0..n : Holds(f[i], Before(i))}
<1>14. 0 \in T
  <2>1. SubSeq(routes, 1, 0) = <<>> /\ NL_BUFSIZE \in Nat
    BY <1>1, NetAssumption
  <2>2. Has(Nothing, 0, 0)
    BY <2>1 DEF Has, Nothing
  <2>3. Nothing \in Received
    BY DEF Nothing, Received
  <2>4. Before(0) = 0 /\ 0 \in 0..n
    BY <1>4 DEF Before
  <2>5. QED
    BY <1>13, <2>2, <2>3, <2>4 DEF Holds
<1>15. ASSUME NEW i \in 1..n, i - 1 \in T PROVE i \in T
  <2>1. Holds(f[i - 1], Before(i - 1)) /\ i - 1 \in 0..n /\ i \in 0..n
    BY <1>4, <1>15
  <2>2. f[i] = recv(f[i - 1], answer[i], past)
    BY <1>4, <1>12, <1>13
  <2>3. /\ Before(i - 1) \in Nat /\ Before(i) \in Nat /\ Before(i - 1) < Before(i)
        /\ Before(i) <= Len(routes)
    BY <1>7, <1>8, <2>1
  <2>4. Holds(recv(f[i - 1], answer[i], past), Before(i))
    BY <1>10, <2>1, <2>3, HoldsMore
  <2>5. QED
    BY <2>1, <2>2, <2>4
<1>16. n \in T
  <2> HIDE DEF T
  <2>1. \A i \in (0 + 1)..n : i - 1 \in T => i \in T
    BY <1>15
  <2>2. \A i \in 0..n : i \in T
    BY <1>4, <1>14, <2>1, Along
  <2>3. QED
    BY <1>4, <2>2
<1>17. Holds(f[n], Len(routes))
  BY <1>9, <1>16
<1>18. f[n + 1] = recv(f[n], answer[n + 1], past)
  <2>1. n + 1 \in 1..Len(answer) /\ (n + 1) - 1 = n
    BY <1>4, <1>12
  <2>2. QED
    BY <1>13, <2>1
<1>19. /\ answer[n + 1] \in Datagram /\ answer[n + 1].kind = k.last
       /\ read_from_netlink_socket(answer, past) = f[n + 1]
  BY <1>2, <1>4, <1>11, <1>12, <1>13 DEF Datagram
<1>20. f[n + 1] \in Received
  BY <1>17, <1>18, <1>19, RecvTyped DEF Holds
<1>21. QED
  BY <1>2, <1>17, <1>18, <1>19, <1>20, HoldsLast DEF answer, past

LEMMA GatewayIs ==
  ASSUME NetInv, NEW k \in Kernel
  PROVE  LET gw == obtain_iface_ipv4_gateway(k)
         IN  /\ gw \in OwnGateways \cup {None, "BLOCKED"}
             /\ None \notin OwnGateways /\ "BLOCKED" \notin OwnGateways
             /\ RoutesFit => gw # "BLOCKED"
             /\ RoutesFit /\ k.last = "done" =>
                   /\ gw = None => OwnGateways = {}
                   /\ gw = FirstValue(routes, {i \in DOMAIN routes : retrive_if_gateway(routes[i])})
<1> DEFINE gw == obtain_iface_ipv4_gateway(k)
           v == read_from_netlink_socket(netlink_answer(k), k.past)
           got == Messages(v)
           hits == {i \in DOMAIN got : retrive_if_gateway(got[i])}
<1>1. routes \in Seq(Route) /\ DOMAIN routes = 1..Len(routes) /\ Len(routes) \in Nat
  BY DEF NetInv
<1>2. ASSUME NEW r \in OwnGateways PROVE r # None /\ r # "BLOCKED"
  <2>1. PICK t \in Range(routes) : r = t.value
    BY DEF OwnGateways
  <2>2. t \in Route
    BY <1>1, <2>1 DEF Range
  <2>3. QED
    BY <2>1, <2>2, ValuesAreNames
<1>3. /\ v.msgLen >= 0 => \E h \in 0..Len(routes) : got = SubSeq(routes, 1, h)
      /\ RoutesFit => v.state = "ended"
      /\ RoutesFit /\ k.last = "done" => v.msgLen >= 0 /\ got = routes
  BY RoutesAreRead
<1>4. gw = IF v.state = "reads" THEN "BLOCKED"
           ELSE IF v.msgLen < 0 THEN None ELSE FirstValue(got, hits)
  BY DEF obtain_iface_ipv4_gateway
<1>5. v.msgLen \in Int
  BY RoutesAreRead DEF Received
<1> HIDE DEF gw, v, got
<1>6. None # "BLOCKED"
  BY DEF None
<1>7. ASSUME v.msgLen >= 0
      PROVE  /\ FirstValue(got, hits) \in OwnGateways \cup {None}
             /\ FirstValue(got, hits) = None => hits = {}
  <2>1. PICK h \in 0..Len(routes) : got = SubSeq(routes, 1, h)
    BY <1>3, <1>7
  <2>2. DOMAIN got = 1..h /\ \A i \in 1..h : got[i] = routes[i] /\ i \in DOMAIN routes
    BY <1>1, <2>1
  <2>3. hits \subseteq Nat
    BY <2>2
  <2>4. ASSUME hits # {}, NEW i \in hits, FirstValue(got, hits) = got[i].value
        PROVE  FirstValue(got, hits) \in OwnGateways
    <3>1. i \in 1..h /\ retrive_if_gateway(got[i])
      BY <2>2
    <3>2. got[i] \in Range(routes)
      BY <2>2, <3>1 DEF Range
    <3>3. QED
      BY <2>4, <3>1, <3>2 DEF OwnGateways, retrive_if_gateway
  <2> HIDE DEF hits
  <2>5. QED
    BY <1>2, <2>3, <2>4, FirstIs
<1>8. ASSUME RoutesFit, k.last = "done"
      PROVE  /\ gw = FirstValue(got, hits) /\ got = routes
             /\ hits = {} => OwnGateways = {}
  <2>1. v.state = "ended" /\ v.msgLen >= 0 /\ got = routes
    BY <1>3, <1>8
  <2>2. gw = FirstValue(got, hits)
    BY <1>4, <1>5, <2>1
  <2>3. hits = {} => OwnGateways = {}
    BY <2>1 DEF OwnGateways, retrive_if_gateway, Range
  <2>4. QED
    BY <2>1, <2>2, <2>3
<1>9. gw \in OwnGateways \cup {None, "BLOCKED"}
  BY <1>4, <1>5, <1>7
<1>10. RoutesFit => gw # "BLOCKED"
  BY <1>2, <1>3, <1>4, <1>5, <1>6, <1>7
<1>11. ASSUME RoutesFit, k.last = "done", gw = None PROVE OwnGateways = {}
  BY <1>3, <1>7, <1>8, <1>11
<1>12. ASSUME RoutesFit, k.last = "done"
       PROVE  gw = FirstValue(routes, {i \in DOMAIN routes : retrive_if_gateway(routes[i])})
  BY <1>8, <1>12
<1>13. QED
  BY <1>2, <1>9, <1>10, <1>11, <1>12 DEF gw

LEMMA SysctlAgrees ==
  ASSUME NetInv, NEW k \in Kernel, RoutesFit, k.last = "done",
         \A r \in Range(routes) : r.table = "main"
  PROVE  obtain_iface_ipv4_gateway_sysctl = obtain_iface_ipv4_gateway(k)
<1> DEFINE hits == {i \in DOMAIN routes : retrive_if_gateway(routes[i])}
           dumped == {i \in DOMAIN routes : routes[i].family = "AF_INET"
                                            /\ routes[i].dst = "any" /\ routes[i].oif = Ifname}
<1>1. \A i \in DOMAIN routes : routes[i].table = "main"
  BY DEF Range
<1>2. hits = dumped
  BY <1>1 DEF retrive_if_gateway
<1>3. obtain_iface_ipv4_gateway(k) = FirstValue(routes, hits)
  BY GatewayIs
<1>4. obtain_iface_ipv4_gateway_sysctl = FirstValue(routes, dumped)
  BY DEF obtain_iface_ipv4_gateway_sysctl
<1>5. QED
  BY <1>2, <1>3, <1>4

(* The first name server, where the lease is told one. *)
LEMMA FirstDnsIs ==
  ASSUME NetInv
  PROVE  LET list == obtain_dns_list.list
         IN  IF ToldDns
             THEN /\ FirstDns = IF fake_dns1 # None THEN fake_dns1 ELSE list[1].value
                  /\ fake_dns1 = None => obtain_dns_list.result = "SUCCESS" /\ list # <<>>
             ELSE /\ fake_dns1 = None /\ list = <<>>
                  /\ obtain_dns_list.result = "SUCCESS" => "fopen" \notin failing
<1> DEFINE list == obtain_dns_list.list
<1>1. CASE fake_dns1 # None
  BY <1>1 DEF FirstDns, ToldDns
<1>2. CASE fake_dns1 = None /\ "fopen" \in failing
  BY <1>2 DEF ToldDns, obtain_dns_list
<1>3. CASE fake_dns1 = None /\ "fopen" \notin failing
  <2>1. /\ list \in Seq(DnsLine)
        /\ list = <<>> <=> NameServers = {}
        /\ list # <<>> => \E i \in NameServers : /\ \A j \in NameServers : i <= j
                                                 /\ list[1] = resolv_conf[i]
    BY <1>3, NameServersAre
  <2>2. NameServers \subseteq 1..Len(resolv_conf) /\ obtain_dns_list.result = "SUCCESS"
    BY <1>3 DEF NameServers, NetInv, obtain_dns_list
  <2> HIDE DEF list
  <2>3. CASE NameServers = {}
    BY <1>3, <2>1, <2>3 DEF list, ToldDns
  <2>4. CASE NameServers # {}
    <3>1. list # <<>>
      BY <2>1, <2>4
    <3>2. PICK i \in NameServers : (\A j \in NameServers : i <= j) /\ list[1] = resolv_conf[i]
      BY <2>1, <3>1
    <3> DEFINE c == CHOOSE k \in NameServers : \A j \in NameServers : k <= j
    <3>3. c \in NameServers /\ \A j \in NameServers : c <= j
      BY <3>2
    <3>4. FirstDns = resolv_conf[c].value
      BY <1>3 DEF FirstDns
    <3> HIDE DEF c
    <3>5. c = i
      <4>1. c <= i /\ i <= c /\ c \in Nat /\ i \in Nat
        BY <2>2, <3>2, <3>3
      <4>2. QED
        BY <4>1
    <3>6. FirstDns = list[1].value
      BY <3>2, <3>4, <3>5
    <3>7. QED
      BY <1>3, <2>2, <2>4, <3>1, <3>6 DEF list, ToldDns
  <2>5. QED
    BY <2>3, <2>4
<1>4. QED
  BY <1>1, <1>2, <1>3

LEMMA LeaseIs ==
  ASSUME NetInv, NEW k \in Kernel
  PROVE  LET lease == rjv3_get_dhcp_lease(k)
         IN  /\ lease.result = "SUCCESS" =>
                   /\ HostHasLease
                   /\ lease.ip \in OwnIpv4 /\ lease.gateway \in OwnGateways
                   /\ lease.dns = FirstDns
             /\ k.last = "done" /\ RoutesFit /\ HostHasLease => lease.result = "SUCCESS"
             /\ lease.result = "BLOCKED" => ~RoutesFit
             /\ lease.result = "CRASH" =>
                   WalkAddresses = "CRASH" \/ (~ToldDns /\ "fopen" \notin failing)
<1> DEFINE ip == find_ip_with_family(obtain_iface_ip_mask.list, "AF_INET")
           gw == obtain_iface_ipv4_gateway(k)
           list == obtain_dns_list.list
           read == obtain_dns_list.result
           dns1 == IF fake_dns1 # None THEN fake_dns1 ELSE list[1].value
           lease == rjv3_get_dhcp_lease(k)
           told == k.last = "done" /\ RoutesFit
<1>1. IF OwnIpv4 = {} \/ WalkAddresses # "SUCCESS" THEN ip = None ELSE ip # None /\ ip \in OwnIpv4
  BY Ipv4Is
<1>2. /\ gw \in OwnGateways \cup {None, "BLOCKED"}
      /\ None \notin OwnGateways /\ "BLOCKED" \notin OwnGateways
      /\ RoutesFit => gw # "BLOCKED"
      /\ told /\ gw = None => OwnGateways = {}
  BY GatewayIs
<1>3. IF ToldDns
      THEN FirstDns = dns1 /\ (fake_dns1 = None => read = "SUCCESS" /\ list # <<>>)
      ELSE fake_dns1 = None /\ list = <<>> /\ (read = "SUCCESS" => "fopen" \notin failing)
  BY FirstDnsIs
<1>4. read \in {"SUCCESS", "FAILURE"} /\ obtain_iface_ip_mask.result = WalkAddresses
  BY DEF obtain_dns_list, obtain_iface_ip_mask
<1>5. lease = IF WalkAddresses = "CRASH" THEN NoLease("CRASH")
              ELSE IF ip = None THEN NoLease("FAILURE")
              ELSE IF gw = "BLOCKED" THEN NoLease("BLOCKED")
              ELSE IF gw = None \/ (fake_dns1 = None /\ read = "FAILURE") THEN NoLease("FAILURE")
              ELSE IF fake_dns1 = None /\ list = <<>> THEN NoLease("CRASH")
              ELSE IF ~IsIpv4(dns1) THEN NoLease("FAILURE")
              ELSE [result |-> "SUCCESS", ip |-> ip, gateway |-> gw, dns |-> dns1]
  BY <1>4 DEF rjv3_get_dhcp_lease
<1>6. \A r : NoLease(r).result = r
  BY DEF NoLease
<1>7. lease.result \in {"SUCCESS", "FAILURE", "CRASH", "BLOCKED"}
  BY <1>5, <1>6
<1> HIDE DEF ip, gw, dns1, list, read, told, lease
<1>8. ASSUME lease.result = "SUCCESS"
      PROVE  /\ HostHasLease /\ lease.ip \in OwnIpv4 /\ lease.gateway \in OwnGateways
             /\ lease.dns = FirstDns
  <2>1. /\ WalkAddresses # "CRASH" /\ ip # None /\ gw # "BLOCKED" /\ gw # None
        /\ ~(fake_dns1 = None /\ read = "FAILURE") /\ ~(fake_dns1 = None /\ list = <<>>)
        /\ IsIpv4(dns1)
    BY <1>5, <1>6, <1>8
  <2>2. lease = [result |-> "SUCCESS", ip |-> ip, gateway |-> gw, dns |-> dns1]
    BY <1>5, <2>1
  <2>3. ToldDns /\ FirstDns = dns1
    BY <1>3, <2>1
  <2>4. ip \in OwnIpv4 /\ WalkAddresses = "SUCCESS" /\ gw \in OwnGateways
    BY <1>1, <1>2, <2>1
  <2>5. lease.ip = ip /\ lease.gateway = gw /\ lease.dns = dns1
    BY <2>2
  <2>6. HostHasLease
    BY <2>1, <2>3, <2>4 DEF HostHasLease
  <2>7. QED
    BY <2>3, <2>4, <2>5, <2>6
<1>9. ASSUME told, HostHasLease PROVE lease.result = "SUCCESS"
  <2>1. WalkAddresses = "SUCCESS" /\ OwnIpv4 # {} /\ OwnGateways # {} /\ ToldDns /\ IsIpv4(FirstDns)
    BY <1>9 DEF HostHasLease
  <2>2. ip # None /\ gw # None /\ gw # "BLOCKED" /\ dns1 = FirstDns
    BY <1>1, <1>2, <1>3, <1>9, <2>1 DEF told
  <2>3. lease = [result |-> "SUCCESS", ip |-> ip, gateway |-> gw, dns |-> dns1]
    BY <1>3, <1>5, <2>1, <2>2
  <2>4. QED
    BY <2>3
<1>10. lease.result = "BLOCKED" => gw = "BLOCKED"
  BY <1>5, <1>6
<1>11. lease.result = "CRASH" =>
          \/ WalkAddresses = "CRASH"
          \/ fake_dns1 = None /\ list = <<>> /\ read # "FAILURE"
  BY <1>5, <1>6
<1>12. lease.result = "CRASH" => WalkAddresses = "CRASH" \/ (~ToldDns /\ "fopen" \notin failing)
  BY <1>3, <1>4, <1>11
<1>13. QED
  BY <1>2, <1>8, <1>9, <1>10, <1>12 DEF told, lease

LEMMA SecondDnsIsOwn ==
  ASSUME NetInv, rjv3_set_secondary_dns # None
  PROVE  rjv3_set_secondary_dns \in {l.value : l \in Range(resolv_conf)}
<1> DEFINE list == obtain_dns_list.list
<1>1. ~(Len(list) < 2) /\ rjv3_set_secondary_dns = list[2].value
  BY DEF rjv3_set_secondary_dns
<1>2. "fopen" \notin failing
  BY <1>1 DEF obtain_dns_list
<1>3. list \in Seq(DnsLine) /\ \A i \in 1..Len(list) : list[i] \in Range(resolv_conf)
  BY <1>2, NameServersAre
<1> HIDE DEF list
<1>4. 2 \in 1..Len(list)
  BY <1>1, <1>3
<1>5. QED
  BY <1>1, <1>3, <1>4

(* What the Ruijie fields say about the host is the host's own, for tables of any
   length, a buffer of any size and routes that come in any datagrams.          *)
THEOREM HostFieldsAreOwnHolds == NetSpec => []HostFieldsAreOwn
<1>1. ASSUME NetInv PROVE HostFieldsAreOwn
  <2> DEFINE LeaseIsOwn(k) ==
                LET lease == rjv3_get_dhcp_lease(k)
                    told == k.last = "done" /\ RoutesFit
                IN  /\ lease.result = "SUCCESS" =>
                          /\ HostHasLease
                          /\ lease.ip \in OwnIpv4 /\ lease.gateway \in OwnGateways
                          /\ lease.dns = FirstDns
                    /\ told /\ HostHasLease => lease.result = "SUCCESS"
                    /\ told /\ (\A r \in Range(routes) : r.table = "main") =>
                          obtain_iface_ipv4_gateway_sysctl = obtain_iface_ipv4_gateway(k)
                    /\ lease.result = "BLOCKED" => ~RoutesFit
                    /\ lease.result = "CRASH" =>
                          WalkAddresses = "CRASH" \/ (~ToldDns /\ "fopen" \notin failing)
             FieldIsOwn(kind) ==
                ~rjv3_set_ipv6_addr.crash =>
                    IF OwnIpv6(kind) = {} THEN rjv3_set_ipv6_addr[kind] = None
                    ELSE rjv3_set_ipv6_addr[kind] \in OwnIpv6(kind)
  <2>1. ASSUME NEW k \in Kernel PROVE LeaseIsOwn(k)
    BY <1>1, LeaseIs, SysctlAgrees
  <2>2. rjv3_set_ipv6_addr.crash <=> WalkAddresses # "SUCCESS" \/ OfInterface = {}
    <3>1. rjv3_set_ipv6_addr.crash <=> obtain_iface_ip_mask.list = <<>>
      BY DEF rjv3_set_ipv6_addr
    <3>2. QED
      BY <1>1, <3>1, AddressesAre, NoAddresses
  <2>3. ASSUME NEW kind \in {"global", "ll_slaac", "ll_temp"} PROVE FieldIsOwn(kind)
    <3>1. rjv3_set_ipv6_addr[kind] = Scoped(kind)
      BY DEF rjv3_set_ipv6_addr
    <3>2. QED
      BY <1>1, <2>2, <3>1, ScopedIs
  <2>4. QED
    BY <1>1, <2>1, <2>2, <2>3, SecondDnsIsOwn DEF HostFieldsAreOwn
<1>2. QED
  BY <1>1, NetInvariant, PTL

-----------------------------------------------------------------------------
(* A sequence, whatever its elements are. *)
IsSeq(s) == s \in Seq(Range(s))

LEMMA AnySeq ==
  ASSUME NEW S, NEW s \in Seq(S)
  PROVE  IsSeq(s)
<1>1. Len(s) \in Nat /\ s = [i \in 1..Len(s) |-> s[i]] /\ DOMAIN s = 1..Len(s)
  OBVIOUS
<1>2. \A i \in 1..Len(s) : s[i] \in Range(s)
  BY <1>1 DEF Range
<1>3. s \in [1..Len(s) -> Range(s)]
  BY <1>1, <1>2, Zenon
<1>4. QED
  BY <1>1, <1>3 DEF IsSeq

LEMMA SeqLen ==
  ASSUME NEW s, IsSeq(s)
  PROVE  Len(s) \in Nat /\ DOMAIN s = 1..Len(s)
BY DEF IsSeq

LEMMA SeqAppend ==
  ASSUME NEW s, IsSeq(s), NEW x
  PROVE  IsSeq(Append(s, x))
<1>1. s \in Seq(Range(s) \cup {x}) /\ x \in Range(s) \cup {x}
  <2>1. Range(s) \subseteq Range(s) \cup {x}
    OBVIOUS
  <2>2. s \in Seq(Range(s))
    BY DEF IsSeq
  <2> DEFINE R == Range(s)
             S == R \cup {x}
  <2> HIDE DEF R
  <2>3. s \in Seq(S)
    BY <2>2 DEF R
  <2>4. QED
    BY <2>3 DEF R
<1>2. Append(s, x) \in Seq(Range(s) \cup {x})
  BY <1>1
<1>3. QED
  BY <1>2, AnySeq, Zenon

LEMMA SeqConcat ==
  ASSUME NEW s, NEW t, IsSeq(s), IsSeq(t)
  PROVE  IsSeq(s \o t)
<1> DEFINE R == Range(s)
           T == Range(t)
           S == R \cup T
<1>1. s \in Seq(R) /\ t \in Seq(T)
  BY DEF IsSeq
<1> HIDE DEF R, T
<1>2. s \in Seq(S) /\ t \in Seq(S)
  BY <1>1
<1>3. s \o t \in Seq(S)
  BY <1>2
<1>4. QED
  BY <1>3, AnySeq, Zenon

LEMMA SeqList ==
  ASSUME NEW s, IsSeq(s), NEW hits, hits \subseteq 1..Len(s)
  PROVE  IsSeq(ListOf(s, hits))
<1>1. s \in Seq(Range(s))
  BY DEF IsSeq
<1>2. ListOf(s, hits) \in Seq(Range(s))
  BY <1>1, ListIsCopy
<1>3. QED
  BY <1>2, AnySeq, Zenon

LEMMA SeqByPlace ==
  ASSUME NEW n \in Nat, NEW f, f = [i \in 1..n |-> f[i]]
  PROVE  IsSeq(f)
<1>1. DOMAIN f = 1..n
  OBVIOUS
<1>2. \A i \in 1..n : f[i] \in Range(f)
  BY <1>1 DEF Range
<1> DEFINE R == Range(f)
<1> HIDE DEF R
<1>3. f \in [1..n -> R]
  BY <1>1, <1>2 DEF R
<1>4. f \in Seq(R)
  BY <1>3
<1>5. QED
  BY <1>4 DEF R, IsSeq

-----------------------------------------------------------------------------
(* The shape of the settings. *)
IsFunction(f) == f = [x \in DOMAIN f |-> f[x]]
Fields(text, number, restart, save, kill, proxy, list, opts, ok) ==
    [text |-> text, number |-> number, restart_on_logoff |-> restart, save_now |-> save,
     kill_type |-> kill, proxy_on |-> proxy, packet_plugin_list |-> list,
     rj_options |-> opts, ok |-> ok]
Itself(c) ==
    Fields(c.text, c.number, c.restart_on_logoff, c.save_now, c.kill_type, c.proxy_on,
           c.packet_plugin_list, c.rj_options, c.ok)
Setting(c) ==
    /\ c = Itself(c)
    /\ IsFunction(c.text) /\ DOMAIN ProgText \subseteq DOMAIN c.text
    /\ IsFunction(c.number) /\ DOMAIN ProgNumber \subseteq DOMAIN c.number
    /\ IsSeq(c.packet_plugin_list) /\ IsSeq(c.rj_options)

Overriding == DOMAIN ProgNumber \ DOMAIN Modulus

(* new is c with option o set to the argument a. *)
OptionSet(c, new, o, a) ==
    /\ Setting(new)
    /\ \A k \in DOMAIN ProgText : new.text[k] = IF o = k THEN strndup(a, ProgText[k]) ELSE c.text[k]
    /\ \A k \in Overriding : new.number[k] = IF o = k THEN atoi(a) ELSE c.number[k]
    /\ new.packet_plugin_list = IF o = "module" THEN Append(c.packet_plugin_list, a)
                                ELSE c.packet_plugin_list

(* The fields of the settings; ok and the fields of one start are of no concern. *)
SameButText(c, new) ==
    new.number = c.number /\ new.packet_plugin_list = c.packet_plugin_list
SameButNumber(c, new) ==
    new.text = c.text /\ new.packet_plugin_list = c.packet_plugin_list

LEMMA SetText ==
  ASSUME NEW c, Setting(c), NEW o, NEW v
  PROVE  LET new == [c EXCEPT !.text[o] = v]
         IN  /\ Setting(new) /\ SameButText(c, new)
             /\ \A k \in DOMAIN c.text : new.text[k] = IF o = k THEN v ELSE c.text[k]
<1> DEFINE new == [c EXCEPT !.text[o] = v]
           text == [c.text EXCEPT ![o] = v]
<1>1. new = Fields(text, c.number, c.restart_on_logoff, c.save_now, c.kill_type, c.proxy_on,
                   c.packet_plugin_list, c.rj_options, c.ok)
  BY DEF Setting, Itself, Fields
<1>2. IsFunction(text) /\ DOMAIN text = DOMAIN c.text
      /\ \A k \in DOMAIN c.text : text[k] = IF o = k THEN v ELSE c.text[k]
  BY DEF IsFunction
<1> HIDE DEF new, text
<1>3. /\ new.text = text /\ new.number = c.number /\ new.restart_on_logoff = c.restart_on_logoff
      /\ new.save_now = c.save_now /\ new.kill_type = c.kill_type /\ new.proxy_on = c.proxy_on
      /\ new.packet_plugin_list = c.packet_plugin_list /\ new.rj_options = c.rj_options
      /\ new.ok = c.ok
  BY <1>1 DEF Fields
<1>4. new = Itself(new)
  BY <1>1, <1>3 DEF Itself
<1>5. Setting(new)
  BY <1>2, <1>3, <1>4 DEF Setting
<1>6. QED
  BY <1>2, <1>3, <1>5 DEF SameButText, new

LEMMA SetNumber ==
  ASSUME NEW c, Setting(c), NEW o, NEW v
  PROVE  LET new == [c EXCEPT !.number[o] = v]
         IN  /\ Setting(new) /\ SameButNumber(c, new)
             /\ \A k \in DOMAIN c.number : new.number[k] = IF o = k THEN v ELSE c.number[k]
<1> DEFINE new == [c EXCEPT !.number[o] = v]
           number == [c.number EXCEPT ![o] = v]
<1>1. new = Fields(c.text, number, c.restart_on_logoff, c.save_now, c.kill_type, c.proxy_on,
                   c.packet_plugin_list, c.rj_options, c.ok)
  BY DEF Setting, Itself, Fields
<1>2. IsFunction(number) /\ DOMAIN number = DOMAIN c.number
      /\ \A k \in DOMAIN c.number : number[k] = IF o = k THEN v ELSE c.number[k]
  BY DEF IsFunction
<1> HIDE DEF new, number
<1>3. /\ new.text = c.text /\ new.number = number /\ new.restart_on_logoff = c.restart_on_logoff
      /\ new.save_now = c.save_now /\ new.kill_type = c.kill_type /\ new.proxy_on = c.proxy_on
      /\ new.packet_plugin_list = c.packet_plugin_list /\ new.rj_options = c.rj_options
      /\ new.ok = c.ok
  BY <1>1 DEF Fields
<1>4. new = Itself(new)
  BY <1>1, <1>3 DEF Itself
<1>5. Setting(new)
  BY <1>2, <1>3, <1>4 DEF Setting
<1>6. QED
  BY <1>2, <1>3, <1>5 DEF SameButNumber, new

(* The fields that are neither texts nor numbers. *)
SameOptions(c, new) ==
    new.text = c.text /\ new.number = c.number

LEMMA SetField ==
  ASSUME NEW c, Setting(c), NEW restart, NEW save, NEW kill, NEW proxy, NEW list, NEW opts, NEW ok,
         IsSeq(list), IsSeq(opts)
  PROVE  LET new == Fields(c.text, c.number, restart, save, kill, proxy, list, opts, ok)
         IN  Setting(new) /\ SameOptions(c, new) /\ new.packet_plugin_list = list
<1> DEFINE new == Fields(c.text, c.number, restart, save, kill, proxy, list, opts, ok)
<1>1. /\ new.text = c.text /\ new.number = c.number /\ new.restart_on_logoff = restart
      /\ new.save_now = save /\ new.kill_type = kill /\ new.proxy_on = proxy
      /\ new.packet_plugin_list = list /\ new.rj_options = opts /\ new.ok = ok
  BY DEF Fields
<1>2. new = Itself(new)
  BY <1>1 DEF Itself
<1> HIDE DEF new
<1>3. Setting(new) /\ SameOptions(c, new)
  BY <1>1, <1>2 DEF Setting, SameOptions
<1>4. QED
  BY <1>1, <1>3 DEF new

LEMMA SetFlags ==
  ASSUME NEW c, Setting(c), NEW v
  PROVE  /\ LET new == [c EXCEPT !.proxy_on = v]
            IN  Setting(new) /\ SameOptions(c, new) /\ new.packet_plugin_list = c.packet_plugin_list
         /\ LET new == [c EXCEPT !.save_now = v]
            IN  Setting(new) /\ SameOptions(c, new) /\ new.packet_plugin_list = c.packet_plugin_list
         /\ LET new == [c EXCEPT !.restart_on_logoff = v]
            IN  Setting(new) /\ SameOptions(c, new) /\ new.packet_plugin_list = c.packet_plugin_list
         /\ LET new == [c EXCEPT !.kill_type = v]
            IN  Setting(new) /\ SameOptions(c, new) /\ new.packet_plugin_list = c.packet_plugin_list
         /\ LET new == [c EXCEPT !.ok = v]
            IN  Setting(new) /\ SameOptions(c, new) /\ new.packet_plugin_list = c.packet_plugin_list
<1>0. IsSeq(c.packet_plugin_list) /\ IsSeq(c.rj_options) /\ c = Itself(c)
  BY DEF Setting
<1>1. [c EXCEPT !.proxy_on = v] =
        Fields(c.text, c.number, c.restart_on_logoff, c.save_now, c.kill_type, v,
               c.packet_plugin_list, c.rj_options, c.ok)
  BY <1>0 DEF Itself, Fields
<1>2. [c EXCEPT !.save_now = v] =
        Fields(c.text, c.number, c.restart_on_logoff, v, c.kill_type, c.proxy_on,
               c.packet_plugin_list, c.rj_options, c.ok)
  BY <1>0 DEF Itself, Fields
<1>3. [c EXCEPT !.restart_on_logoff = v] =
        Fields(c.text, c.number, v, c.save_now, c.kill_type, c.proxy_on,
               c.packet_plugin_list, c.rj_options, c.ok)
  BY <1>0 DEF Itself, Fields
<1>4. [c EXCEPT !.kill_type = v] =
        Fields(c.text, c.number, c.restart_on_logoff, c.save_now, v, c.proxy_on,
               c.packet_plugin_list, c.rj_options, c.ok)
  BY <1>0 DEF Itself, Fields
<1>5. [c EXCEPT !.ok = v] =
        Fields(c.text, c.number, c.restart_on_logoff, c.save_now, c.kill_type, c.proxy_on,
               c.packet_plugin_list, c.rj_options, v)
  BY <1>0 DEF Itself, Fields
<1>6. LET new == [c EXCEPT !.proxy_on = v]
      IN  Setting(new) /\ SameOptions(c, new) /\ new.packet_plugin_list = c.packet_plugin_list
  BY <1>0, <1>1, SetField
<1>7. LET new == [c EXCEPT !.save_now = v]
      IN  Setting(new) /\ SameOptions(c, new) /\ new.packet_plugin_list = c.packet_plugin_list
  BY <1>0, <1>2, SetField
<1>8. LET new == [c EXCEPT !.restart_on_logoff = v]
      IN  Setting(new) /\ SameOptions(c, new) /\ new.packet_plugin_list = c.packet_plugin_list
  BY <1>0, <1>3, SetField
<1>9. LET new == [c EXCEPT !.kill_type = v]
      IN  Setting(new) /\ SameOptions(c, new) /\ new.packet_plugin_list = c.packet_plugin_list
  BY <1>0, <1>4, SetField
<1>10. LET new == [c EXCEPT !.ok = v]
      IN  Setting(new) /\ SameOptions(c, new) /\ new.packet_plugin_list = c.packet_plugin_list
  BY <1>0, <1>5, SetField
<1>11. QED
  BY <1>6, <1>7, <1>8, <1>9, <1>10

LEMMA SetLists ==
  ASSUME NEW c, Setting(c), NEW v
  PROVE  /\ LET new == [c EXCEPT !.packet_plugin_list = Append(@, v)]
            IN  /\ Setting(new) /\ SameOptions(c, new)
                /\ new.packet_plugin_list = Append(c.packet_plugin_list, v)
         /\ LET new == [c EXCEPT !.packet_plugin_list = <<>>]
            IN  Setting(new) /\ SameOptions(c, new) /\ new.packet_plugin_list = <<>>
         /\ LET new == [c EXCEPT !.rj_options = Append(@, v)]
            IN  Setting(new) /\ SameOptions(c, new) /\ new.packet_plugin_list = c.packet_plugin_list
<1> DEFINE list == Append(c.packet_plugin_list, v)
           opts == Append(c.rj_options, v)
           none == <<>>
<1>0. IsSeq(c.packet_plugin_list) /\ IsSeq(c.rj_options) /\ c = Itself(c)
  BY DEF Setting
<1>1. IsSeq(list) /\ IsSeq(opts) /\ IsSeq(none)
  BY <1>0, SeqAppend DEF IsSeq
<1>2. [c EXCEPT !.packet_plugin_list = Append(@, v)] =
        Fields(c.text, c.number, c.restart_on_logoff, c.save_now, c.kill_type, c.proxy_on,
               list, c.rj_options, c.ok)
  BY <1>0 DEF Itself, Fields
<1>3. [c EXCEPT !.packet_plugin_list = <<>>] =
        Fields(c.text, c.number, c.restart_on_logoff, c.save_now, c.kill_type, c.proxy_on,
               none, c.rj_options, c.ok)
  BY <1>0 DEF Itself, Fields
<1>4. [c EXCEPT !.rj_options = Append(@, v)] =
        Fields(c.text, c.number, c.restart_on_logoff, c.save_now, c.kill_type, c.proxy_on,
               c.packet_plugin_list, opts, c.ok)
  BY <1>0 DEF Itself, Fields
<1> HIDE DEF list, opts, none
<1>5. LET new == Fields(c.text, c.number, c.restart_on_logoff, c.save_now, c.kill_type, c.proxy_on,
                           list, c.rj_options, c.ok)
      IN  Setting(new) /\ SameOptions(c, new) /\ new.packet_plugin_list = list
  BY <1>0, <1>1, SetField
<1>6. LET new == Fields(c.text, c.number, c.restart_on_logoff, c.save_now, c.kill_type, c.proxy_on,
                           none, c.rj_options, c.ok)
      IN  Setting(new) /\ SameOptions(c, new) /\ new.packet_plugin_list = none
  BY <1>0, <1>1, SetField
<1>7. LET new == Fields(c.text, c.number, c.restart_on_logoff, c.save_now, c.kill_type, c.proxy_on,
                           c.packet_plugin_list, opts, c.ok)
      IN  Setting(new) /\ SameOptions(c, new) /\ new.packet_plugin_list = c.packet_plugin_list
  <2>1. IsSeq(c.packet_plugin_list) /\ IsSeq(opts)
    BY <1>0, <1>1
  <2>2. QED
    BY <2>1, SetField, SMTT(30)
<1>8. LET new == [c EXCEPT !.packet_plugin_list = Append(@, v)]
      IN  Setting(new) /\ SameOptions(c, new) /\ new.packet_plugin_list = list
  BY <1>2, <1>5, Zenon
<1>9. LET new == [c EXCEPT !.packet_plugin_list = <<>>]
      IN  Setting(new) /\ SameOptions(c, new) /\ new.packet_plugin_list = none
  BY <1>3, <1>6, Zenon
<1>10. LET new == [c EXCEPT !.rj_options = Append(@, v)]
      IN  Setting(new) /\ SameOptions(c, new) /\ new.packet_plugin_list = c.packet_plugin_list
  BY <1>4, <1>7, Zenon
<1>11. QED
  BY <1>8, <1>9, <1>10 DEF list, opts, none

LEMMA Keys ==
  /\ DOMAIN ProgText = {"username", "password", "nic", "ifimpl", "proxylaniface", "pidfile", "logfile"}
  /\ DOMAIN ProgNumber = {"maxfail", "maxretries", "waitafterfail", "stagetimeout", "authround",
                          "daemonize"}
  /\ Overriding = {"maxfail", "maxretries", "waitafterfail", "stagetimeout", "authround"}
  /\ DOMAIN Rjv3Text = {"service", "versionstr", "dhcpscript", "fakedns1", "fakedns2", "fakeserial"}
  /\ DOMAIN Rjv3Number = {"heartbeat", "maxdhcpcount", "eapbcastaddr", "dhcptype"}
BY DEF ProgText, ProgNumber, Rjv3Text, Rjv3Number, Modulus, Overriding

LEMMA SettingHas ==
  ASSUME NEW c, Setting(c)
  PROVE  DOMAIN ProgText \subseteq DOMAIN c.text /\ DOMAIN ProgNumber \subseteq DOMAIN c.number
BY DEF Setting

LEMMA OneOption ==
  ASSUME NEW c, Setting(c), NEW o, NEW a
  PROVE  OptionSet(c, parse_one_opt(c, o, a), o, a)
<1> DEFINE new == parse_one_opt(c, o, a)
           cut == strndup(a, ProgText[o])
           TK == DOMAIN ProgText
           NK == DOMAIN ProgNumber
<1>1. TK \subseteq DOMAIN c.text /\ Overriding \subseteq DOMAIN c.number
  BY SettingHas DEF Overriding
<1>2. /\ \A k \in TK : k \notin NK /\ k # "module"
      /\ \A k \in NK : k # "module"
      /\ "daemonize" \notin Overriding /\ "proxylaniface" \in TK
      /\ "daemonize" \in NK
      /\ \A k \in Overriding : k \in NK
      /\ \A k \in {"module", "save", "noautoreauth", "kill"} : k \notin TK /\ k \notin NK
  BY Keys
<1>3. CASE o = "proxylaniface"
  <2> DEFINE first == [c EXCEPT !.proxy_on = TRUE]
  <2>0. new = [c EXCEPT !.proxy_on = TRUE, !.text[o] = cut]
    BY <1>2, <1>3 DEF parse_one_opt
  <2>1. new = [first EXCEPT !.text[o] = cut]
    BY <2>0
  <2>2. Setting(first) /\ SameOptions(c, first) /\ first.packet_plugin_list = c.packet_plugin_list
    BY SetFlags
  <2> HIDE DEF new, first, cut
  <2>3. /\ Setting(new) /\ SameButText(first, new)
        /\ \A k \in DOMAIN first.text : new.text[k] = IF o = k THEN cut ELSE first.text[k]
    BY <2>1, <2>2, SetText
  <2>4. QED
    BY <1>1, <1>2, <1>3, <2>2, <2>3 DEF OptionSet, SameOptions, SameButText, new, cut
<1>4. CASE o \in TK \ {"proxylaniface"}
  <2>1. new = [c EXCEPT !.text[o] = cut]
    <3>1. o # "proxylaniface" /\ o \in DOMAIN ProgText \ {"proxylaniface"}
      BY <1>4
    <3>2. QED
      BY <1>2, <3>1 DEF parse_one_opt
  <2> HIDE DEF new, cut
  <2>3. /\ Setting(new) /\ SameButText(c, new)
        /\ \A k \in DOMAIN c.text : new.text[k] = IF o = k THEN cut ELSE c.text[k]
    BY <2>1, SetText
  <2>4. QED
    BY <1>1, <1>2, <1>4, <2>3 DEF OptionSet, SameButText, new, cut
<1>5. CASE o \in NK
  <2> DEFINE v == IF o = "daemonize" THEN CRem(atoi(a), 4) ELSE atoi(a)
  <2>1. new = [c EXCEPT !.number[o] = v]
    <3>1. o \notin TK
      BY <1>2, <1>5
    <3>2. CASE o = "daemonize"
      BY <1>2, <3>1, <3>2 DEF parse_one_opt
    <3>3. CASE o # "daemonize"
      BY <1>2, <1>5, <3>1, <3>3 DEF parse_one_opt
    <3>4. QED
      BY <3>2, <3>3
  <2> HIDE DEF new, v
  <2>3. /\ Setting(new) /\ SameButNumber(c, new)
        /\ \A k \in DOMAIN c.number : new.number[k] = IF o = k THEN v ELSE c.number[k]
    BY <2>1, SetNumber
  <2>4. QED
    BY <1>1, <1>2, <1>5, <2>3 DEF OptionSet, SameButNumber, new, v
<1>6. CASE o = "module"
  <2>1. new = [c EXCEPT !.packet_plugin_list = Append(@, a)]
    BY <1>2, <1>6 DEF parse_one_opt
  <2> HIDE DEF new
  <2>2. /\ Setting(new) /\ SameOptions(c, new)
        /\ new.packet_plugin_list = Append(c.packet_plugin_list, a)
    BY <2>1, SetLists
  <2>3. QED
    BY <1>2, <1>6, <2>2 DEF OptionSet, SameOptions, new
<1>7. CASE o \in {"save", "noautoreauth", "kill"}
  <2> DEFINE kind == IF a = NULL THEN "KILL_ONLY" ELSE "KILL_AND_START"
  <2>1. CASE o = "save"
    <3>1. new = [c EXCEPT !.save_now = TRUE]
      BY <1>2, <2>1 DEF parse_one_opt
    <3> HIDE DEF new, kind
    <3>2. Setting(new) /\ SameOptions(c, new) /\ new.packet_plugin_list = c.packet_plugin_list
      BY <3>1, SetFlags
    <3>3. QED
      BY <1>2, <2>1, <3>2 DEF OptionSet, SameOptions, new
  <2>2. CASE o = "noautoreauth"
    <3>1. new = [c EXCEPT !.restart_on_logoff = FALSE]
      BY <1>2, <2>2 DEF parse_one_opt
    <3> HIDE DEF new, kind
    <3>2. Setting(new) /\ SameOptions(c, new) /\ new.packet_plugin_list = c.packet_plugin_list
      BY <3>1, SetFlags
    <3>3. QED
      BY <1>2, <2>2, <3>2 DEF OptionSet, SameOptions, new
  <2>3. CASE o = "kill"
    <3>1. new = [c EXCEPT !.kill_type = kind]
      BY <1>2, <2>3 DEF parse_one_opt
    <3> HIDE DEF new, kind
    <3>2. Setting(new) /\ SameOptions(c, new) /\ new.packet_plugin_list = c.packet_plugin_list
      BY <3>1, SetFlags
    <3>3. QED
      BY <1>2, <2>3, <3>2 DEF OptionSet, SameOptions, new
  <2>4. QED
    BY <1>7, <2>1, <2>2, <2>3
<1>8. CASE o \notin TK \cup NK \cup {"module", "save", "noautoreauth", "kill"}
  <2>1. new = c
    BY <1>8, <1>2 DEF parse_one_opt
  <2> HIDE DEF new
  <2>2. QED
    BY <1>8, <1>2, <2>1 DEF OptionSet, new
<1>9. QED
  BY <1>3, <1>4, <1>5, <1>6, <1>7, <1>8

(* new has the program's options as c has them. *)
OptionsKept(c, new) ==
    /\ Setting(new)
    /\ \A k \in DOMAIN ProgText : new.text[k] = c.text[k]
    /\ \A k \in Overriding : new.number[k] = c.number[k]
    /\ new.packet_plugin_list = c.packet_plugin_list

LEMMA KeptKept ==
  ASSUME NEW a, NEW b, NEW c, OptionsKept(a, b), OptionsKept(b, c)
  PROVE  OptionsKept(a, c)
BY DEF OptionsKept

LEMMA OneRjv3Option ==
  ASSUME NEW c, Setting(c), NEW o, NEW a
  PROVE  OptionsKept(c, rjv3_parse_one_opt(c, o, a))
<1> DEFINE new == rjv3_parse_one_opt(c, o, a)
           cut == strndup(a, Rjv3Text[o])
           TK == DOMAIN Rjv3Text
           NK == DOMAIN Rjv3Number
<1>1. DOMAIN ProgText \subseteq DOMAIN c.text /\ Overriding \subseteq DOMAIN c.number
  BY SettingHas DEF Overriding
<1>2. /\ \A k \in TK : k \notin NK /\ k # "rjoption" /\ k \notin DOMAIN ProgText
      /\ \A k \in NK : k # "rjoption" /\ k \notin Overriding
  BY Keys
<1>3. CASE o \in TK
  <2>1. new = [c EXCEPT !.text[o] = cut]
    BY <1>2, <1>3 DEF rjv3_parse_one_opt
  <2> HIDE DEF new, cut
  <2>2. /\ Setting(new) /\ SameButText(c, new)
        /\ \A k \in DOMAIN c.text : new.text[k] = IF o = k THEN cut ELSE c.text[k]
    BY <2>1, SetText
  <2>3. QED
    BY <1>1, <1>2, <1>3, <2>2 DEF OptionsKept, SameButText, new
<1>4. CASE o \in NK
  <2> DEFINE v == IF o \in DOMAIN Modulus THEN CRem(atoi(a), Modulus[o]) ELSE atoi(a)
  <2>1. new = [c EXCEPT !.number[o] = v]
    BY <1>2, <1>4 DEF rjv3_parse_one_opt
  <2> HIDE DEF new, v
  <2>2. /\ Setting(new) /\ SameButNumber(c, new)
        /\ \A k \in DOMAIN c.number : new.number[k] = IF o = k THEN v ELSE c.number[k]
    BY <2>1, SetNumber
  <2>3. QED
    BY <1>1, <1>2, <1>4, <2>2 DEF OptionsKept, SameButNumber, new
<1>5. CASE o = "rjoption"
  <2>1. new = IF Malformed(a) THEN [c EXCEPT !.ok = FALSE]
              ELSE [c EXCEPT !.rj_options = Append(@, a)]
    BY <1>2, <1>5 DEF rjv3_parse_one_opt
  <2> HIDE DEF new
  <2>2. Setting(new) /\ SameOptions(c, new) /\ new.packet_plugin_list = c.packet_plugin_list
    <3>1. CASE Malformed(a)
      <4>1. new = [c EXCEPT !.ok = FALSE]
        BY <2>1, <3>1
      <4>2. QED
        BY <4>1, SetFlags
    <3>2. CASE ~Malformed(a)
      <4>1. new = [c EXCEPT !.rj_options = Append(@, a)]
        BY <2>1, <3>2
      <4>2. QED
        BY <4>1, SetLists
    <3>3. QED
      BY <3>1, <3>2
  <2>3. QED
    BY <2>2 DEF OptionsKept, SameOptions, new
<1>6. CASE o \notin TK \cup NK \cup {"rjoption"}
  <2>1. new = c
    BY <1>2, <1>6 DEF rjv3_parse_one_opt
  <2> HIDE DEF new
  <2>2. QED
    BY <2>1 DEF OptionsKept, new
<1>7. QED
  BY <1>3, <1>4, <1>5, <1>6

LEMMA Rjv3Defaults ==
  ASSUME NEW c, Setting(c)
  PROVE  OptionsKept(c, rjv3_load_default_params(c))
<1> DEFINE new == rjv3_load_default_params(c)
           text == [o \in DOMAIN Rjv3Text \cup DOMAIN c.text |->
                       CASE o = "dhcpscript" -> <<>>
                         [] o \in {"service", "versionstr"} -> <<100>>
                         [] o \in {"fakedns1", "fakedns2", "fakeserial"} -> NULL
                         [] OTHER -> c.text[o]]
           number == [o \in DOMAIN Rjv3Number \cup DOMAIN c.number |->
                         IF o \in DOMAIN Rjv3Number THEN Rjv3Number[o] ELSE c.number[o]]
<1>1. c = Itself(c) /\ IsFunction(c.text) /\ IsFunction(c.number)
      /\ DOMAIN ProgText \subseteq DOMAIN c.text /\ DOMAIN ProgNumber \subseteq DOMAIN c.number
      /\ IsSeq(c.packet_plugin_list) /\ IsSeq(c.rj_options)
  BY DEF Setting
<1>2. new = Fields(text, number, c.restart_on_logoff, c.save_now, c.kill_type, c.proxy_on,
                   c.packet_plugin_list, c.rj_options, c.ok)
  <2>1. new = [c EXCEPT !.text = text, !.number = number]
    BY DEF rjv3_load_default_params
  <2> HIDE DEF new, text, number
  <2>2. QED
    BY <1>1, <2>1 DEF Itself, Fields
<1>4. /\ IsFunction(text) /\ DOMAIN text = DOMAIN Rjv3Text \cup DOMAIN c.text
      /\ \A k \in DOMAIN c.text : k \notin DOMAIN Rjv3Text => text[k] = c.text[k]
  BY Keys DEF IsFunction
<1>5. /\ IsFunction(number) /\ DOMAIN number = DOMAIN Rjv3Number \cup DOMAIN c.number
      /\ \A k \in DOMAIN c.number : k \notin DOMAIN Rjv3Number => number[k] = c.number[k]
  BY DEF IsFunction
<1> HIDE DEF new, text, number
<1>6. /\ new.text = text /\ new.number = number /\ new.restart_on_logoff = c.restart_on_logoff
      /\ new.save_now = c.save_now /\ new.kill_type = c.kill_type /\ new.proxy_on = c.proxy_on
      /\ new.packet_plugin_list = c.packet_plugin_list /\ new.rj_options = c.rj_options
      /\ new.ok = c.ok
  BY <1>2 DEF Fields
<1>7. new = Itself(new)
  BY <1>2, <1>6 DEF Itself
<1>8. Setting(new)
  BY <1>1, <1>4, <1>5, <1>6, <1>7 DEF Setting
<1>9. (\A k \in DOMAIN ProgText : k \notin DOMAIN Rjv3Text)
      /\ (\A k \in Overriding : k \notin DOMAIN Rjv3Number /\ k \in DOMAIN ProgNumber)
  BY Keys
<1>10. OptionsKept(c, new)
  BY <1>1, <1>4, <1>5, <1>6, <1>8, <1>9 DEF OptionsKept
<1>11. QED
  BY <1>10 DEF new

-----------------------------------------------------------------------------
(* Apply takes the pairs one after the other. *)
Applying(parser, c, pairs, k, f) ==
    f = [i \in 0..k |-> IF i = 0 THEN c ELSE Parse(parser, f[i - 1], pairs[i])]

LEMMA ApplyIs ==
  ASSUME NEW parser, NEW c, NEW pairs
  PROVE  Apply(parser, c, pairs) =
            (CHOOSE f : Applying(parser, c, pairs, Len(pairs), f))[Len(pairs)]
BY DEF Apply, Applying

LEMMA ApplyRuns ==
  ASSUME NEW parser, NEW c, NEW pairs, NEW n \in Nat
  PROVE  \E f : Applying(parser, c, pairs, n, f)
<1> DEFINE Solved == {k \in 0..n : \E f : Applying(parser, c, pairs, k, f)}
<1>1. 0 \in Solved
  <2> DEFINE f == [i \in 0..0 |-> c]
  <2>1. Applying(parser, c, pairs, 0, f)
    BY DEF Applying
  <2>2. QED
    BY <2>1
<1>2. ASSUME NEW k \in 1..n, k - 1 \in Solved PROVE k \in Solved
  <2>1. PICK f : Applying(parser, c, pairs, k - 1, f)
    BY <1>2
  <2> DEFINE next == Parse(parser, f[k - 1], pairs[k])
             g == [i \in 0..k |-> IF i = k THEN next ELSE f[i]]
  <2>2. \A i \in 0..(k - 1) : f[i] = IF i = 0 THEN c ELSE Parse(parser, f[i - 1], pairs[i])
    BY <2>1 DEF Applying
  <2>3. ASSUME NEW i \in 0..k
        PROVE  g[i] = IF i = 0 THEN c ELSE Parse(parser, g[i - 1], pairs[i])
    <3> HIDE DEF next
    <3>1. CASE i = k
      <4>1. g[k - 1] = f[k - 1] /\ g[i] = next /\ i # 0
        BY <3>1
      <4> HIDE DEF g
      <4>2. QED
        BY <3>1, <4>1 DEF next
    <3>2. CASE i # k
      <4>1. i \in 0..(k - 1) /\ g[i] = f[i] /\ (i # 0 => g[i - 1] = f[i - 1])
        BY <3>2
      <4> HIDE DEF g
      <4>2. QED
        BY <2>2, <4>1
    <3>3. QED
      BY <3>1, <3>2
  <2>4. Applying(parser, c, pairs, k, g)
    <3> HIDE DEF next
    <3>1. g = [i \in 0..k |-> g[i]]
      OBVIOUS
    <3> HIDE DEF g
    <3>2. QED
      BY <2>3, <3>1 DEF Applying
  <2>5. QED
    BY <2>4
<1>3. \A k \in 0..n : k \in Solved
  <2> HIDE DEF Solved
  <2>1. 0 \in Nat /\ 0 + 1 = 1
    OBVIOUS
  <2>2. QED
    BY <1>1, <1>2, <2>1, Along
<1>4. QED
  BY <1>3

(* f has the settings after each of the pairs. *)
Steps(parser, c, pairs, f) ==
    /\ f[0] = c
    /\ \A i \in 1..Len(pairs) : f[i] = Parse(parser, f[i - 1], pairs[i])
    /\ f[Len(pairs)] = Apply(parser, c, pairs)

LEMMA ApplySteps ==
  ASSUME NEW parser, NEW c, NEW pairs, IsSeq(pairs)
  PROVE  \E f : Steps(parser, c, pairs, f)
<1> DEFINE n == Len(pairs)
           f == CHOOSE g : Applying(parser, c, pairs, n, g)
<1>1. n \in Nat
  BY SeqLen
<1>2. Applying(parser, c, pairs, n, f)
  <2> HIDE DEF n
  <2>1. QED
    BY <1>1, ApplyRuns
<1>3. Apply(parser, c, pairs) = f[n]
  BY ApplyIs
<1> HIDE DEF f, n
<1>4. \A i \in 0..n : f[i] = IF i = 0 THEN c ELSE Parse(parser, f[i - 1], pairs[i])
  BY <1>2 DEF Applying
<1>5. 0 \in 0..n /\ \A i \in 1..n : i \in 0..n /\ i # 0
  BY <1>1
<1>6. f[0] = c /\ \A i \in 1..n : f[i] = Parse(parser, f[i - 1], pairs[i])
  BY <1>4, <1>5
<1>7. QED
  BY <1>3, <1>6 DEF Steps, n

LEMMA ApplyConfig ==
  ASSUME NEW c, Setting(c), NEW pairs, IsSeq(pairs), NEW f, Steps("config", c, pairs, f)
  PROVE  /\ \A i \in 0..Len(pairs) : Setting(f[i])
         /\ \A i \in 1..Len(pairs) : OptionSet(f[i - 1], f[i], pairs[i].key, pairs[i].value)
<1> DEFINE n == Len(pairs)
           Good == {i \in 0..n : Setting(f[i])}
<1>1. n \in Nat
  BY SeqLen
<1>2. f[0] = c /\ \A i \in 1..n : f[i] = parse_one_opt(f[i - 1], pairs[i].key, pairs[i].value)
  BY DEF Steps, Parse
<1>3. ASSUME NEW i \in 1..n, i - 1 \in Good
      PROVE  OptionSet(f[i - 1], f[i], pairs[i].key, pairs[i].value)
  BY <1>2, <1>3, OneOption
<1>4. \A i \in 0..n : i \in Good
  <2>1. 0 \in Good
    BY <1>1, <1>2
  <2>2. ASSUME NEW i \in 1..n, i - 1 \in Good PROVE i \in Good
    <3>1. Setting(f[i])
      BY <1>3, <2>2 DEF OptionSet
    <3>2. QED
      BY <3>1
  <2> HIDE DEF Good, n
  <2>3. 0 \in Nat /\ 0 + 1 = 1
    OBVIOUS
  <2>4. QED
    BY <1>1, <2>1, <2>2, <2>3, Along
<1>5. \A i \in 1..n : i - 1 \in Good
  <2>1. \A i \in 1..n : i - 1 \in 0..n
    BY <1>1
  <2> HIDE DEF Good
  <2>2. QED
    BY <1>4, <2>1
<1>6. \A i \in 1..n : OptionSet(f[i - 1], f[i], pairs[i].key, pairs[i].value)
  <2> HIDE DEF Good
  <2>1. QED
    BY <1>3, <1>5
<1>7. QED
  BY <1>4, <1>6

LEMMA ApplyRjv3 ==
  ASSUME NEW c, Setting(c), NEW pairs, IsSeq(pairs)
  PROVE  OptionsKept(c, Apply("rjv3", c, pairs))
<1> DEFINE n == Len(pairs)
<1>1. n \in Nat
  BY SeqLen
<1>2. PICK f : Steps("rjv3", c, pairs, f)
  BY ApplySteps
<1> DEFINE Good == {i \in 0..n : OptionsKept(c, f[i])}
<1>3. /\ f[0] = c /\ f[n] = Apply("rjv3", c, pairs)
      /\ \A i \in 1..n : f[i] = rjv3_parse_one_opt(f[i - 1], pairs[i].key, pairs[i].value)
  BY <1>2 DEF Steps, Parse
<1>4. 0 \in Good
  BY <1>1, <1>3 DEF OptionsKept
<1>5. ASSUME NEW i \in 1..n, i - 1 \in Good PROVE i \in Good
  <2>1. OptionsKept(c, f[i - 1]) /\ Setting(f[i - 1])
    BY <1>5 DEF OptionsKept
  <2>2. OptionsKept(f[i - 1], f[i])
    BY <1>3, <2>1, OneRjv3Option
  <2>3. OptionsKept(c, f[i])
    BY <2>1, <2>2, KeptKept
  <2>4. QED
    BY <2>3
<1>6. n \in Good
  <2> HIDE DEF Good, n
  <2>1. 0 \in Nat /\ 0 + 1 = 1
    OBVIOUS
  <2>2. \A i \in 0..n : i \in Good
    BY <1>1, <1>4, <1>5, <2>1, Along
  <2>3. QED
    BY <1>1, <2>2
<1>7. QED
  BY <1>3, <1>6

-----------------------------------------------------------------------------
(* The settings are those of the last of each option among the pairs. *)
LastWins(c, pairs) ==
    \A i \in 1..Len(pairs) :
        (\A j \in 1..Len(pairs) : pairs[j].key = pairs[i].key => j <= i) =>
            /\ pairs[i].key \in DOMAIN ProgText =>
                  c.text[pairs[i].key] = strndup(pairs[i].value, ProgText[pairs[i].key])
            /\ pairs[i].key \in Overriding => c.number[pairs[i].key] = atoi(pairs[i].value)

LEMMA LastOptionWins ==
  ASSUME NEW c, Setting(c), NEW pairs, IsSeq(pairs)
  PROVE  Setting(Apply("config", c, pairs)) /\ LastWins(Apply("config", c, pairs), pairs)
<1> DEFINE n == Len(pairs)
<1>1. n \in Nat
  BY SeqLen
<1>2. PICK f : Steps("config", c, pairs, f)
  BY ApplySteps
<1>3. f[n] = Apply("config", c, pairs)
  BY <1>2 DEF Steps
<1>4. /\ \A i \in 0..n : Setting(f[i])
      /\ \A i \in 1..n : OptionSet(f[i - 1], f[i], pairs[i].key, pairs[i].value)
  BY <1>2, ApplyConfig
<1>5. Setting(f[n])
  BY <1>1, <1>4
<1>6. ASSUME NEW i \in 1..n, \A j \in 1..n : pairs[j].key = pairs[i].key => j <= i
      PROVE  /\ pairs[i].key \in DOMAIN ProgText =>
                   f[n].text[pairs[i].key] = strndup(pairs[i].value, ProgText[pairs[i].key])
             /\ pairs[i].key \in Overriding => f[n].number[pairs[i].key] = atoi(pairs[i].value)
  <2> DEFINE o == pairs[i].key
             cut == strndup(pairs[i].value, ProgText[o])
             value == atoi(pairs[i].value)
             Kept(d) == /\ o \in DOMAIN ProgText => d.text[o] = cut
                        /\ o \in Overriding => d.number[o] = value
             Good == {k \in i..n : Kept(f[k])}
  <2>1. i \in Nat /\ i \in i..n
    BY <1>1
  <2>2. Kept(f[i])
    BY <1>4 DEF OptionSet
  <2>3. ASSUME NEW k \in (i + 1)..n, k - 1 \in Good PROVE k \in Good
    <3>1. k \in 1..n /\ k \in i..n /\ ~(k <= i)
      BY <2>1
    <3>2. pairs[k].key # o
      BY <1>6, <3>1
    <3>3. OptionSet(f[k - 1], f[k], pairs[k].key, pairs[k].value)
      BY <1>4, <3>1
    <3>4. /\ o \in DOMAIN ProgText => f[k].text[o] = f[k - 1].text[o]
          /\ o \in Overriding => f[k].number[o] = f[k - 1].number[o]
      <4> HIDE DEF o, Good
      <4>1. QED
        BY <3>2, <3>3 DEF OptionSet
    <3>5. Kept(f[k - 1])
      BY <2>3
    <3> HIDE DEF o, cut, value
    <3>6. QED
      BY <3>1, <3>4, <3>5
  <2>4. i \in Good
    BY <2>1, <2>2
  <2>5. \A k \in i..n : k \in Good
    <3> HIDE DEF Good, n
    <3>1. QED
      BY <1>1, <2>1, <2>3, <2>4, Along
  <2>6. n \in Good
    BY <1>1, <2>1, <2>5
  <2>7. QED
    BY <2>6
<1>7. LastWins(f[n], pairs)
  BY <1>6 DEF LastWins
<1>8. QED
  BY <1>3, <1>5, <1>7

(* Without modules at first, every module is from one of the pairs. *)
LEMMA ModulesAreGiven ==
  ASSUME NEW c, Setting(c), NEW pairs, IsSeq(pairs), c.packet_plugin_list = <<>>
  PROVE  \A m \in Range(Apply("config", c, pairs).packet_plugin_list) :
             \E j \in 1..Len(pairs) : pairs[j].key = "module" /\ pairs[j].value = m
<1> DEFINE n == Len(pairs)
           Given == {pairs[j].value : j \in {k \in 1..n : pairs[k].key = "module"}}
<1>1. n \in Nat
  BY SeqLen
<1>2. PICK f : Steps("config", c, pairs, f)
  BY ApplySteps
<1>3. f[0] = c /\ f[n] = Apply("config", c, pairs)
  BY <1>2 DEF Steps
<1>4. \A i \in 1..n : OptionSet(f[i - 1], f[i], pairs[i].key, pairs[i].value)
  BY <1>2, ApplyConfig
<1> DEFINE Good == {k \in 0..n : f[k].packet_plugin_list \in Seq(Given)}
<1>5. 0 \in Good
  <2>1. <<>> \in Seq(Given)
    OBVIOUS
  <2>2. f[0].packet_plugin_list = <<>>
    BY <1>3
  <2>3. f[0].packet_plugin_list \in Seq(Given)
    BY <2>1, <2>2, Zenon
  <2>4. 0 \in 0..n
    BY <1>1
  <2> HIDE DEF n, Given
  <2>5. QED
    BY <2>3, <2>4
<1>6. ASSUME NEW k \in 1..n, k - 1 \in Good PROVE k \in Good
  <2> DEFINE before == f[k - 1].packet_plugin_list
             a == pairs[k].value
  <2>1. f[k].packet_plugin_list = IF pairs[k].key = "module" THEN Append(before, a) ELSE before
    BY <1>4 DEF OptionSet
  <2>2. before \in Seq(Given)
    BY <1>6
  <2>3. pairs[k].key = "module" => a \in Given
    OBVIOUS
  <2> HIDE DEF before, Given, a
  <2>4. f[k].packet_plugin_list \in Seq(Given)
    BY <2>1, <2>2, <2>3
  <2>5. QED
    BY <2>4
<1>7. n \in Good
  <2> HIDE DEF Good, n
  <2>1. 0 \in Nat /\ 0 + 1 = 1
    OBVIOUS
  <2>2. \A i \in 0..n : i \in Good
    BY <1>1, <1>5, <1>6, <2>1, Along
  <2>3. QED
    BY <1>1, <2>2
<1> DEFINE list == f[n].packet_plugin_list
<1>8. Range(list) \subseteq Given
  <2>1. list \in Seq(Given)
    BY <1>7
  <2> HIDE DEF Given, list
  <2>2. QED
    BY <2>1 DEF Range
<1>9. ASSUME NEW m \in Given
      PROVE  \E j \in 1..n : pairs[j].key = "module" /\ pairs[j].value = m
  OBVIOUS
<1> HIDE DEF Given
<1>10. QED
  BY <1>3, <1>8, <1>9

(* What CmdlineOverridesFile says, of any settings and command line. *)
Overrides(c, arguments) ==
    \A i \in DOMAIN arguments :
        LET o == arguments[i].key
            last == \A j \in DOMAIN arguments : arguments[j].key = o => j <= i
        IN  /\ last /\ o \in DOMAIN ProgText => c.text[o] = strndup(arguments[i].value, ProgText[o])
            /\ last /\ o \in Overriding => c.number[o] = atoi(arguments[i].value)
            /\ o = "module" => \A m \in Range(c.packet_plugin_list) :
                                   \E j \in DOMAIN arguments : arguments[j] = [key |-> o, value |-> m]

Pairs(arguments) ==
    /\ IsSeq(arguments)
    /\ \A i \in DOMAIN arguments : arguments[i] = [key |-> arguments[i].key, value |-> arguments[i].value]

LEMMA CmdlineOverrides ==
  ASSUME NEW c, Setting(c), NEW arguments, Pairs(arguments)
  PROVE  /\ Setting(parse_cmdline_opts(c, arguments))
         /\ Overrides(parse_cmdline_opts(c, arguments), arguments)
<1> DEFINE n == Len(arguments)
           given == \E i \in DOMAIN arguments : arguments[i].key = "module"
           first == IF given THEN [c EXCEPT !.packet_plugin_list = <<>>] ELSE c
           new == parse_cmdline_opts(c, arguments)
<1>1. DOMAIN arguments = 1..n /\ IsSeq(arguments)
  BY SeqLen DEF Pairs
<1>2. Setting(first)
  BY SetLists
<1>3. given => first.packet_plugin_list = <<>>
  BY SetLists
<1>4. new = Apply("config", first, arguments)
  BY DEF parse_cmdline_opts
<1> HIDE DEF first, new
<1>5. Setting(new) /\ LastWins(new, arguments)
  BY <1>1, <1>2, <1>4, LastOptionWins
<1>6. given => \A m \in Range(new.packet_plugin_list) :
                   \E j \in 1..n : arguments[j].key = "module" /\ arguments[j].value = m
  BY <1>1, <1>2, <1>3, <1>4, ModulesAreGiven
<1>7. ASSUME NEW i \in DOMAIN arguments, arguments[i].key = "module",
             NEW m \in Range(new.packet_plugin_list)
      PROVE  \E j \in DOMAIN arguments : arguments[j] = [key |-> arguments[i].key, value |-> m]
  <2>1. given
    BY <1>7
  <2>2. PICK j \in 1..n : arguments[j].key = "module" /\ arguments[j].value = m
    BY <1>6, <2>1
  <2>3. arguments[j] = [key |-> arguments[j].key, value |-> arguments[j].value] /\ j \in DOMAIN arguments
    BY <1>1, <2>2 DEF Pairs
  <2>4. QED
    BY <1>7, <2>2, <2>3
<1>8. ASSUME NEW i \in DOMAIN arguments,
             \A j \in DOMAIN arguments : arguments[j].key = arguments[i].key => j <= i
      PROVE  /\ arguments[i].key \in DOMAIN ProgText =>
                   new.text[arguments[i].key] = strndup(arguments[i].value, ProgText[arguments[i].key])
             /\ arguments[i].key \in Overriding =>
                   new.number[arguments[i].key] = atoi(arguments[i].value)
  BY <1>1, <1>5, <1>8 DEF LastWins
<1>9. Overrides(new, arguments)
  BY <1>7, <1>8 DEF Overrides
<1>10. QED
  BY <1>5, <1>9 DEF new

(* What the plugins do later keeps them. *)
LEMMA OverridesKept ==
  ASSUME NEW c, NEW new, NEW arguments, OptionsKept(c, new), Overrides(c, arguments)
  PROVE  Overrides(new, arguments)
BY DEF OptionsKept, Overrides
-----------------------------------------------------------------------------
LEMMA FlattenIsSeq ==
  ASSUME NEW n \in Nat, NEW pieces, pieces = [i \in 1..n |-> pieces[i]],
         \A i \in 1..n : IsSeq(pieces[i])
  PROVE  IsSeq(FlattenSeq(pieces))
<1>1. Len(pieces) = n
  BY SeqByPlace, SeqLen
<1>2. CASE n = 0
  <2>1. pieces = <<>>
    BY <1>2
  <2>2. FlattenSeq(pieces) = <<>>
    BY <2>1 DEF FlattenSeq
  <2>3. QED
    BY <2>2 DEF IsSeq
<1>3. CASE n # 0
  <2> DEFINE F == Flatten(pieces)
             Good == {i \in 1..n : IsSeq(F[i])}
  <2>1. FlattenSeq(pieces) = F[n]
    BY <1>1, <1>3, FlattenIs
  <2>2. \A i \in 1..n : F[i] = Joined(pieces, F, i)
    BY <1>1, FlattenDef
  <2> HIDE DEF F
  <2>3. 1 \in Nat /\ 1 \in 1..n /\ n \in 1..n
    BY <1>3
  <2>4. 1 \in Good
    BY <2>2, <2>3 DEF Joined
  <2>5. ASSUME NEW i \in (1 + 1)..n, i - 1 \in Good PROVE i \in Good
    <3>1. i \in 1..n /\ i # 1 /\ IsSeq(F[i - 1]) /\ IsSeq(pieces[i])
      BY <2>5
    <3>2. F[i] = F[i - 1] \o pieces[i]
      BY <2>2, <3>1 DEF Joined
    <3>3. IsSeq(F[i])
      BY <3>1, <3>2, SeqConcat
    <3>4. QED
      BY <3>1, <3>3
  <2>6. n \in Good
    <3> HIDE DEF Good
    <3>1. \A i \in 1..n : i \in Good
      BY <2>3, <2>4, <2>5, Along
    <3>2. QED
      BY <2>3, <3>1
  <2>7. QED
    BY <2>1, <2>6
<1>4. QED
  BY <1>2, <1>3

(* What is read from the file is a sequence of pairs. *)
LEMMA LinesRead ==
  ASSUME NEW f, IsSeq(f)
  PROVE  IsSeq(WithValue(conf_parser_parse_now(f)))
<1> DEFINE n == Len(f)
           lines == conf_parser_parse_now(f)
<1>1. n \in Nat /\ DOMAIN f = 1..n
  BY SeqLen
<1>2. lines = [i \in 1..n |-> lines[i]]
  BY <1>1 DEF conf_parser_parse_now
<1> HIDE DEF lines
<1>3. IsSeq(lines)
  BY <1>1, <1>2, SeqByPlace
<1>4. {i \in DOMAIN lines : lines[i].value # <<>>} \subseteq 1..Len(lines)
  BY <1>3, SeqLen
<1>5. IsSeq(WithValue(lines))
  BY <1>3, <1>4, SeqList DEF WithValue
<1>6. QED
  BY <1>5 DEF lines

LEMMA DefaultsAreSetting == Setting(load_default_params)
<1> DEFINE new == load_default_params
           text == [o \in DOMAIN ProgText |->
                       IF o \in {"nic", "pidfile", "logfile"} THEN <<100>> ELSE NULL]
           none == <<>>
<1>1. new = Fields(text, ProgNumber, TRUE, FALSE, "KILL_NONE", FALSE, none, none, TRUE)
  BY DEF load_default_params, Fields
<1>2. IsFunction(text) /\ DOMAIN text = DOMAIN ProgText
  BY DEF IsFunction
<1>3. IsFunction(ProgNumber)
  BY DEF IsFunction, ProgNumber
<1>4. IsSeq(none)
  BY DEF IsSeq
<1> HIDE DEF new, text, none
<1>5. /\ new.text = text /\ new.number = ProgNumber /\ new.restart_on_logoff = TRUE
      /\ new.save_now = FALSE /\ new.kill_type = "KILL_NONE" /\ new.proxy_on = FALSE
      /\ new.packet_plugin_list = none /\ new.rj_options = none /\ new.ok = TRUE
  BY <1>1 DEF Fields
<1>6. new = Itself(new)
  BY <1>1, <1>5 DEF Itself
<1>7. Setting(new)
  BY <1>2, <1>3, <1>4, <1>5, <1>6 DEF Setting
<1>8. QED
  BY <1>7 DEF new

(* Whatever the plugins read, the options of the program stay as they are. *)
LEMMA PluginsKeep ==
  ASSUME NEW c, Setting(c), NEW f, IsSeq(f), NEW arguments, IsSeq(arguments)
  PROVE  OptionsKept(c, init_plugin_config(c, f, arguments))
<1> DEFINE n == Rjv3Count(c)
           times(pairs) == FlattenSeq([i \in 1..n |-> pairs])
           lines == times(WithValue(conf_parser_parse_now(f)))
           default == rjv3_load_default_params(c)
           filed == Apply("rjv3", default, lines)
           again == [filed EXCEPT !.ok = TRUE]
           final == Apply("rjv3", again, times(arguments))
<1>1. n \in Nat
  <2> DEFINE list == c.packet_plugin_list
             active == active_plugins(c)
  <2>1. IsSeq(list)
    BY DEF Setting
  <2>2. active = ListOf(list, {i \in DOMAIN list : list[i] \in {RJV3, PRINTER}})
    BY DEF active_plugins
  <2> HIDE DEF list, active
  <2>3. {i \in DOMAIN list : list[i] \in {RJV3, PRINTER}} \subseteq 1..Len(list)
    BY <2>1, SeqLen
  <2>4. IsSeq(active)
    BY <2>1, <2>2, <2>3, SeqList
  <2>5. {i \in DOMAIN active : active[i] = RJV3} \subseteq 1..Len(active)
    BY <2>4, SeqLen
  <2>6. IsSeq(ListOf(active, {i \in DOMAIN active : active[i] = RJV3}))
    BY <2>4, <2>5, SeqList
  <2>7. QED
    BY <2>6, SeqLen DEF Rjv3Count, active
<1>2. ASSUME NEW pairs, IsSeq(pairs) PROVE IsSeq(times(pairs))
  <2> DEFINE pieces == [i \in 1..n |-> pairs]
  <2>1. pieces = [i \in 1..n |-> pieces[i]] /\ \A i \in 1..n : IsSeq(pieces[i])
    BY <1>2
  <2> HIDE DEF pieces, n
  <2>2. IsSeq(FlattenSeq(pieces))
    BY <1>1, <2>1, FlattenIsSeq
  <2>3. QED
    BY <2>2 DEF pieces
<1>3. init_plugin_config(c, f, arguments) = IF n = 0 THEN c ELSE final
  BY DEF init_plugin_config, rjv3_process_config_file, rjv3_process_cmdline_opts
<1>4. IsSeq(lines) /\ IsSeq(times(arguments))
  BY <1>2, LinesRead
<1> HIDE DEF n, times
<1>5. OptionsKept(c, default)
  BY Rjv3Defaults
<1>6. OptionsKept(default, filed)
  <2> HIDE DEF lines, default
  <2>1. QED
    BY <1>4, <1>5, ApplyRjv3 DEF OptionsKept
<1>7. OptionsKept(filed, again)
  <2>1. Setting(filed)
    BY <1>6 DEF OptionsKept
  <2> HIDE DEF filed
  <2>2. Setting(again) /\ SameOptions(filed, again)
        /\ again.packet_plugin_list = filed.packet_plugin_list
    BY <2>1, SetFlags
  <2>3. QED
    BY <2>2 DEF OptionsKept, SameOptions
<1>8. OptionsKept(again, final)
  <2> HIDE DEF again
  <2>1. QED
    BY <1>4, <1>7, ApplyRjv3 DEF OptionsKept
<1>9. OptionsKept(c, final)
  <2> HIDE DEF default, filed, again, final
  <2>1. QED
    BY <1>5, <1>6, <1>7, <1>8, KeptKept
<1>10. OptionsKept(c, c)
  BY DEF OptionsKept
<1>11. QED
  BY <1>3, <1>9, <1>10

LEMMA StartOverrides ==
  ASSUME NEW f, IsSeq(f), NEW arguments, Pairs(arguments)
  PROVE  Setting(init_cfg(f, arguments)) /\ Overrides(init_cfg(f, arguments), arguments)
<1> DEFINE filed == parse_config_file(load_default_params, f)
           c == parse_cmdline_opts(filed, arguments)
           stopped == ~validate_params(c) \/ select_if_impl(c) # SOCKRAW
           refused == [c EXCEPT !.ok = FALSE]
           final == init_plugin_config(c, f, arguments)
<1>1. Setting(filed)
  BY DefaultsAreSetting, LinesRead, LastOptionWins DEF parse_config_file
<1>2. Setting(c) /\ Overrides(c, arguments)
  <2> HIDE DEF filed
  <2>1. QED
    BY <1>1, CmdlineOverrides
<1>3. init_cfg(f, arguments) = IF stopped THEN refused ELSE final
  BY DEF init_cfg
<1>4. OptionsKept(c, refused)
  <2> HIDE DEF c
  <2>1. Setting(refused) /\ SameOptions(c, refused)
        /\ refused.packet_plugin_list = c.packet_plugin_list
    BY <1>2, SetFlags
  <2>2. QED
    BY <2>1 DEF OptionsKept, SameOptions
<1>5. OptionsKept(c, final)
  <2> HIDE DEF c
  <2>1. QED
    BY <1>2, PluginsKeep DEF Pairs
<1> HIDE DEF c, refused, final, stopped
<1>6. OptionsKept(c, init_cfg(f, arguments))
  BY <1>3, <1>4, <1>5
<1>7. QED
  BY <1>2, <1>6, OverridesKept DEF OptionsKept

LEMMA RefusedOverrides ==
  ASSUME NEW f, IsSeq(f), NEW arguments, Pairs(arguments)
  PROVE  Overrides(init_cfg_refused(f, arguments), arguments)
<1> DEFINE filed == parse_config_file(load_default_params, f)
           c == parse_cmdline_opts(filed, arguments)
           refused == [c EXCEPT !.ok = FALSE]
<1>1. Setting(filed)
  BY DefaultsAreSetting, LinesRead, LastOptionWins DEF parse_config_file
<1>2. Setting(c) /\ Overrides(c, arguments)
  <2> HIDE DEF filed
  <2>1. QED
    BY <1>1, CmdlineOverrides
<1>3. init_cfg_refused(f, arguments) = refused
  BY DEF init_cfg_refused
<1>4. OptionsKept(c, refused)
  <2> HIDE DEF c
  <2>1. Setting(refused) /\ SameOptions(c, refused)
        /\ refused.packet_plugin_list = c.packet_plugin_list
    BY <1>2, SetFlags
  <2>2. QED
    BY <2>1 DEF OptionsKept, SameOptions
<1> HIDE DEF c, refused
<1>5. QED
  BY <1>2, <1>3, <1>4, OverridesKept DEF OptionsKept

-----------------------------------------------------------------------------
LEMMA LineIsSeq ==
  ASSUME NEW key, NEW v
  PROVE  IsSeq(Line(key, v))
<1> DEFINE none == <<>>
<1>1. IsSeq(none)
  BY DEF IsSeq
<1>2. IsSeq(Append(none, [key |-> key, value |-> v]))
  BY <1>1, SeqAppend
<1>3. QED
  BY <1>1, <1>2 DEF Line, conf_parser_add_value

LEMMA LinesAreSeq ==
  ASSUME NEW key, NEW values, IsSeq(values)
  PROVE  IsSeq(Lines(key, values))
<1> DEFINE lines == Lines(key, values)
           n == Len(values)
<1>1. n \in Nat /\ DOMAIN values = 1..n
  BY SeqLen
<1>2. lines = [i \in 1..n |-> lines[i]]
  BY <1>1 DEF Lines
<1> HIDE DEF lines
<1>3. IsSeq(lines)
  BY <1>1, <1>2, SeqByPlace
<1>4. QED
  BY <1>3 DEF lines

LEMMA ActiveIsSeq ==
  ASSUME NEW c, Setting(c)
  PROVE  IsSeq(active_plugins(c))
<1> DEFINE list == c.packet_plugin_list
<1>1. IsSeq(list)
  BY DEF Setting
<1>2. active_plugins(c) = ListOf(list, {i \in DOMAIN list : list[i] \in {RJV3, PRINTER}})
  BY DEF active_plugins
<1> HIDE DEF list
<1>3. {i \in DOMAIN list : list[i] \in {RJV3, PRINTER}} \subseteq 1..Len(list)
  BY <1>1, SeqLen
<1>4. QED
  BY <1>1, <1>2, <1>3, SeqList

LEMMA OptionsAreSeq ==
  ASSUME NEW c, Setting(c), NEW mod
  PROVE  IsSeq(Options(c, mod))
<1> DEFINE list == c.rj_options
<1>1. IsSeq(list)
  BY DEF Setting
<1>2. Options(c, mod) = ListOf(list, {i \in DOMAIN list : IsMod(list[i]) = mod})
  BY DEF Options
<1> HIDE DEF list
<1>3. {i \in DOMAIN list : IsMod(list[i]) = mod} \subseteq 1..Len(list)
  BY <1>1, SeqLen
<1>4. QED
  BY <1>1, <1>2, <1>3, SeqList

LEMMA Rjv3Saved ==
  ASSUME NEW c, Setting(c)
  PROVE  IsSeq(rjv3_save_config(c))
<1>1. \A o : IsSeq(TextLine(c, o)) /\ IsSeq(NumberLine(c, o))
  BY LineIsSeq DEF TextLine, NumberLine
<1>2. \A mod : IsSeq(Lines("rjoption", Options(c, mod)))
  BY OptionsAreSeq, LinesAreSeq
<1>3. \A s, t : IsSeq(s) /\ IsSeq(t) => IsSeq(s \o t)
  BY SeqConcat
<1>4. QED
  BY <1>1, <1>2, <1>3, ZenonT(60) DEF rjv3_save_config

LEMMA FileSaved ==
  ASSUME NEW c, Setting(c)
  PROVE  IsSeq(save_config_file(c))
<1> DEFINE list == active_plugins(c)
           n == Len(list)
           pieces == [i \in DOMAIN list |-> IF list[i] = RJV3 THEN rjv3_save_config(c) ELSE <<>>]
           none == <<>>
<1>1. \A o : IsSeq(TextLine(c, o)) /\ IsSeq(NumberLine(c, o))
  BY LineIsSeq DEF TextLine, NumberLine
<1>2. \A key, v : IsSeq(Line(key, v))
  BY LineIsSeq
<1>3. \A s, t : IsSeq(s) /\ IsSeq(t) => IsSeq(s \o t)
  BY SeqConcat
<1>4. IsSeq(Lines("module", list))
  BY ActiveIsSeq, LinesAreSeq
<1>5. IsSeq(FlattenSeq(pieces))
  <2>1. n \in Nat /\ DOMAIN list = 1..n
    BY ActiveIsSeq, SeqLen
  <2>2. IsSeq(none) /\ IsSeq(rjv3_save_config(c))
    BY Rjv3Saved DEF IsSeq
  <2>3. pieces = [i \in 1..n |-> pieces[i]] /\ \A i \in 1..n : IsSeq(pieces[i])
    BY <2>1, <2>2
  <2> HIDE DEF pieces, n, list
  <2>4. QED
    BY <2>1, <2>3, FlattenIsSeq
<1>6. QED
  BY <1>1, <1>2, <1>3, <1>4, <1>5, ZenonT(60) DEF save_config_file

-----------------------------------------------------------------------------
(* The file is a sequence of lines, the command line one of pairs, and the
   settings are those of the command line.                                 *)
ConfigInv == IsSeq(file) /\ Pairs(args) /\ Overrides(cfg, args)

LEMMA CmdlinesArePairs ==
  ASSUME ConfigAssumption, NEW n \in Nat, NEW arguments \in [1..n -> Argument]
  PROVE  Pairs(arguments)
<1>1. arguments = [i \in 1..n |-> arguments[i]] /\ DOMAIN arguments = 1..n
  OBVIOUS
<1>2. IsSeq(arguments)
  BY <1>1, SeqByPlace
<1>3. \A i \in 1..n : arguments[i] \in Argument
  OBVIOUS
<1>4. \A i \in 1..n : arguments[i] = [key |-> arguments[i].key, value |-> arguments[i].value]
  BY <1>3 DEF ConfigAssumption
<1>5. QED
  BY <1>1, <1>2, <1>4 DEF Pairs

LEMMA ConfigInvariant == ConfigSpec => []ConfigInv
<1>1. InitConfig => ConfigInv
  <2>1. ASSUME InitConfig PROVE ConfigInv
    <3>1. IsSeq(file)
      BY <2>1, ConfigAssumption DEF InitConfig, ConfigAssumption, IsSeq
    <3>2. args = <<>>
      BY <2>1 DEF InitConfig
    <3>3. Pairs(args) /\ Overrides(cfg, args)
      BY <3>2 DEF Pairs, IsSeq, Overrides
    <3>4. QED
      BY <3>1, <3>3 DEF ConfigInv
  <2>2. QED
    BY <2>1
<1>2. ConfigInv /\ [ConfigNext]_config_vars => ConfigInv'
  <2>1. SUFFICES ASSUME ConfigInv, [ConfigNext]_config_vars PROVE ConfigInv'
    OBVIOUS
  <2>2. CASE \E n \in 0..MaxArguments :
               \E arguments \in [1..n -> Argument] : StartProgram(arguments)
    <3>1. PICK n \in 0..MaxArguments : \E arguments \in [1..n -> Argument] : StartProgram(arguments)
      BY <2>2
    <3>2. n \in Nat
      OBVIOUS
    <3> PICK arguments \in [1..n -> Argument] : StartProgram(arguments)
      BY <3>1
    <3>3. Pairs(arguments)
      BY <3>2, ConfigAssumption, CmdlinesArePairs
    <3>4. Setting(init_cfg(file, arguments)) /\ Overrides(init_cfg(file, arguments), arguments)
      BY <2>1, <3>3, StartOverrides DEF ConfigInv
    <3>5. args' = arguments /\ cfg' = init_cfg(file, arguments)
          /\ file' = IF cfg'.ok /\ cfg'.save_now THEN save_config_file(cfg') ELSE file
      BY DEF StartProgram
    <3>6. IsSeq(save_config_file(cfg'))
      BY <3>4, <3>5, FileSaved
    <3>7. IsSeq(file')
      BY <2>1, <3>5, <3>6 DEF ConfigInv
    <3>8. Pairs(args') /\ Overrides(cfg', args')
      BY <3>3, <3>4, <3>5
    <3>9. QED
      BY <3>7, <3>8 DEF ConfigInv
  <2>5. CASE \E n \in 0..(MaxArguments - 1) :
               \E arguments \in [1..n -> Argument] : StartRefused(arguments)
    <3>1. PICK n \in 0..(MaxArguments - 1) :
             \E arguments \in [1..n -> Argument] : StartRefused(arguments)
      BY <2>5
    <3>2. n \in Nat
      OBVIOUS
    <3> PICK arguments \in [1..n -> Argument] : StartRefused(arguments)
      BY <3>1
    <3>3. Pairs(arguments)
      BY <3>2, ConfigAssumption, CmdlinesArePairs
    <3>4. Overrides(init_cfg_refused(file, arguments), arguments)
      BY <2>1, <3>3, RefusedOverrides DEF ConfigInv
    <3>5. args' = arguments /\ cfg' = init_cfg_refused(file, arguments) /\ file' = file
      BY DEF StartRefused
    <3>6. QED
      BY <2>1, <3>3, <3>4, <3>5 DEF ConfigInv
  <2>3. CASE UNCHANGED config_vars
    BY <2>1, <2>3 DEF ConfigInv, config_vars
  <2>4. QED
    BY <2>1, <2>2, <2>5, <2>3 DEF ConfigNext
<1>3. QED
  BY <1>1, <1>2, PTL DEF ConfigSpec

(* For every configuration file, command line and order of its options, and after
   any number of starts that save the file again: the last value an option has on
   the command line is the setting init_cfg ends with, and a --module there drops
   the modules of the file.                                                  *)
THEOREM CmdlineOverridesFileHolds == ConfigSpec => []CmdlineOverridesFile
<1>1. ConfigInv => CmdlineOverridesFile
  BY DEF ConfigInv, Overrides, CmdlineOverridesFile, Overriding
<1>2. QED
  BY <1>1, ConfigInvariant, PTL

=============================================================================
