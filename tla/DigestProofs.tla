---------------------------- MODULE DigestProofs ----------------------------
(***************************************************************************)
(* The safety of Md5, for any block length, width of the length and cut of *)
(* the message, and of Hashkit, for keys and buckets of any number.        *)
(***************************************************************************)
EXTENDS Md5, Hashkit, SequenceTheorems, TLAPS

-----------------------------------------------------------------------------
(* Division by a positive number *)

LEMMA Division ==
  ASSUME NEW n \in Nat, NEW b \in Nat \ {0}
  PROVE  /\ n \div b \in Nat /\ n % b \in 0 .. b - 1
         /\ n = (n \div b) * b + (n % b)
<1> DEFINE q == n \div b
           r == n % b
<1>1. q \in Int /\ r \in 0 .. b - 1 /\ n = b * q + r
  OBVIOUS
<1> HIDE DEF q, r
<1>2. q < 0 => b * q <= -b
  BY <1>1
<1>3. q \in Nat
  BY <1>1, <1>2
<1> QED BY <1>1, <1>3 DEF q, r

(* Quotient and remainder are the only ones. *)
LEMMA OneQuotient ==
  ASSUME NEW b \in Nat \ {0}, NEW q \in Int, NEW r \in 0 .. b - 1,
         NEW p \in Int, NEW s \in 0 .. b - 1, q * b + r = p * b + s
  PROVE  q = p /\ r = s
<1>1. (q - p) * b = s - r
  OBVIOUS
<1>2. q - p >= 1 => (q - p) * b >= b
  OBVIOUS
<1>3. q - p <= -1 => (q - p) * b <= -b
  OBVIOUS
<1> QED BY <1>1, <1>2, <1>3

LEMMA Quotient ==
  ASSUME NEW b \in Nat \ {0}, NEW q \in Nat, NEW r \in 0 .. b - 1
  PROVE  (q * b + r) \div b = q /\ (q * b + r) % b = r
<1> DEFINE n == q * b + r
<1>1. n \in Nat
  OBVIOUS
<1>2. /\ n \div b \in Nat /\ n % b \in 0 .. b - 1
      /\ n = (n \div b) * b + (n % b)
  BY <1>1, Division
<1> DEFINE p == n \div b
           s == n % b
<1> HIDE DEF p, s
<1>3. p \in Int /\ s \in 0 .. b - 1 /\ q * b + r = p * b + s
  BY <1>2 DEF p, s
<1>4. q = p /\ r = s
  BY <1>3, OneQuotient
<1> QED BY <1>4 DEF p, s

-----------------------------------------------------------------------------
(* Md5 *)

Bytes8 == Nat \cup {Padding(k) : k \in {0, 1}} \cup {Count(h) : h \in Nat} \cup {Stale}
Blocks == [1 .. BlockSize -> Bytes8]

DigestTypes ==
  /\ stage \in {"none", "open", "final"} /\ size \in 0 .. MaxMessage
  /\ lo \in 0 .. LoSize - 1 /\ hi \in Nat
  /\ buffer \in Blocks /\ mixed \in Seq(Blocks)

DigestInv == DigestTypes /\ NothingLost /\ OneShot

LEMMA Sizes8 ==
  /\ BlockSize \in Nat \ {0} /\ BlockSize >= 3 /\ LoSize \in Nat \ {0} /\ MaxMessage \in Nat
  /\ \E c \in Nat : LoSize = c * BlockSize
<1>1. BlockSize \in Nat \ {0} /\ BlockSize >= 3 /\ LoSize \in Nat \ {0} /\ MaxMessage \in Nat
  BY Md5Assumption
<1>2. LoSize = (LoSize \div BlockSize) * BlockSize /\ LoSize \div BlockSize \in Nat
  <2> DEFINE q == LoSize \div BlockSize
             r == LoSize % BlockSize
  <2>1. q \in Nat /\ LoSize = q * BlockSize + r /\ r = 0
    BY <1>1, Division, Md5Assumption
  <2> HIDE DEF q, r
  <2>2. LoSize = q * BlockSize
    BY <1>1, <2>1
  <2> QED BY <2>1, <2>2 DEF q
<1> QED BY <1>1, <1>2

(* The low half of the length tells how far the last block is filled. *)
LEMMA UsedIs ==
  ASSUME NEW h \in Nat, NEW l \in 0 .. LoSize - 1, NEW q \in Nat, NEW r \in 0 .. BlockSize - 1,
         h * LoSize + l = q * BlockSize + r
  PROVE  l % BlockSize = r
<1>1. PICK c \in Nat : LoSize = c * BlockSize
  BY Sizes8
<1> DEFINE p == l \div BlockSize
           s == l % BlockSize
<1>2. p \in Nat /\ s \in 0 .. BlockSize - 1 /\ l = p * BlockSize + s
  <2>1. l \in Nat /\ BlockSize \in Nat \ {0}
    BY Sizes8
  <2> QED BY <2>1, Division
<1> HIDE DEF p, s
<1>3. BlockSize \in Nat \ {0} /\ h * c + p \in Nat
  BY <1>2, Sizes8
<1>4. (h * c + p) * BlockSize + s = q * BlockSize + r
  <2>1. h * LoSize = (h * c) * BlockSize
    BY <1>1, <1>3
  <2> QED BY <1>2, <1>3, <2>1
<1>5. s = r
  <2> DEFINE t == h * c + p
  <2>1. t \in Int /\ q \in Int /\ t * BlockSize + s = q * BlockSize + r
    BY <1>3, <1>4
  <2> HIDE DEF t
  <2>2. BlockSize \in Nat \ {0} /\ s \in 0 .. BlockSize - 1 /\ r \in 0 .. BlockSize - 1
    BY <1>2, <1>3
  <2>3. (t - q) * BlockSize = r - s
    BY <2>1, <2>2
  <2>4. /\ t - q >= 1 => (t - q) * BlockSize >= BlockSize
        /\ t - q <= -1 => (t - q) * BlockSize <= -BlockSize
    BY <2>1, <2>2
  <2> QED BY <2>1, <2>2, <2>3, <2>4
<1> QED BY <1>5 DEF s

LEMMA UsedNext ==
  ASSUME lo' \in 0 .. LoSize - 1, hi' \in Nat, NEW q \in Nat, NEW r \in 0 .. BlockSize - 1,
         size' = hi' * LoSize + lo', size' = q * BlockSize + r
  PROVE  Used' = r
<1> DEFINE h == hi'
           l == lo'
<1>1. h \in Nat /\ l \in 0 .. LoSize - 1 /\ h * LoSize + l = q * BlockSize + r
  OBVIOUS
<1> HIDE DEF h, l
<1>2. l % BlockSize = r
  BY <1>1, UsedIs
<1> QED BY <1>2 DEF l, Used

(* The two halves go on counting when the lower one wraps. *)
LEMMA LengthKept ==
  ASSUME NEW n \in Nat, lo \in 0 .. LoSize - 1, hi \in Nat
  PROVE  /\ NewLo(n) \in 0 .. LoSize - 1 /\ NewHi(n) \in Nat
         /\ NewHi(n) * LoSize + NewLo(n) = hi * LoSize + lo + n
<1> DEFINE q == n \div LoSize
           r == n % LoSize
<1>1. q \in Nat /\ r \in 0 .. LoSize - 1 /\ n = q * LoSize + r /\ LoSize \in Nat \ {0}
  BY Division, Sizes8
<1> HIDE DEF q, r
<1>2. CASE lo + r < LoSize
  <2>1. lo + n = q * LoSize + (lo + r) /\ lo + r \in 0 .. LoSize - 1
    BY <1>1, <1>2
  <2>2. NewLo(n) = lo + r
    BY <1>1, <2>1, Quotient DEF NewLo
  <2>3. NewHi(n) = hi + q
    BY <1>1, <2>2 DEF NewHi, q
  <2>4. (hi + q) * LoSize = hi * LoSize + q * LoSize
    BY <1>1
  <2> QED BY <1>1, <1>2, <2>2, <2>3, <2>4
<1>3. CASE lo + r >= LoSize
  <2>1. /\ lo + n = (q + 1) * LoSize + (lo + r - LoSize) /\ lo + r - LoSize \in 0 .. LoSize - 1
        /\ q + 1 \in Nat
    BY <1>1, <1>3
  <2>2. NewLo(n) = lo + r - LoSize
    <3> DEFINE p == q + 1
               s == lo + r - LoSize
    <3>1. p \in Nat /\ s \in 0 .. LoSize - 1 /\ lo + n = p * LoSize + s
      BY <2>1
    <3> HIDE DEF p, s
    <3>2. (lo + n) % LoSize = s
      BY <1>1, <3>1, Quotient
    <3> QED BY <3>2 DEF NewLo, s
  <2>3. NewHi(n) = hi + 1 + q
    BY <1>1, <2>2 DEF NewHi, q
  <2>4. (hi + 1 + q) * LoSize = hi * LoSize + LoSize + q * LoSize
    BY <1>1
  <2> QED BY <1>1, <1>3, <2>2, <2>3, <2>4
<1> QED BY <1>1, <1>2, <1>3

LEMMA Distribute ==
  ASSUME NEW a \in Int, NEW b \in Int, NEW c \in Int PROVE (a + b) * c = a * c + b * c
OBVIOUS

LEMMA DigestInitInv == DigestInit => DigestInv
<1> SUFFICES ASSUME DigestInit PROVE DigestInv
  OBVIOUS
<1>1. buffer \in Blocks
  BY DEF DigestInit, Blocks, Bytes8
<1>2. <<>> \in Seq(Blocks)
  OBVIOUS
<1> QED BY <1>1, <1>2, Sizes8 DEF DigestInit, DigestInv, DigestTypes, NothingLost, OneShot

LEMMA InitStep ==
  ASSUME DigestInv, Init PROVE DigestInv'
<1>1. <<>> \in Seq(Blocks) /\ 0 % BlockSize = 0 /\ 0 * LoSize + 0 = 0 /\ 0 * BlockSize + 0 = 0
  <2>1. 0 * BlockSize + 0 = 0 /\ 0 * LoSize + 0 = 0
    BY Sizes8
  <2>2. (0 * BlockSize + 0) % BlockSize = 0
    BY Quotient, Sizes8
  <2> QED BY <2>1, <2>2
<1>2. DigestTypes'
  BY <1>1, Sizes8 DEF Init, DigestInv, DigestTypes
<1>3. NothingLost'
  <2>1. size' = Len(mixed') * BlockSize + Used'
    BY <1>1 DEF Init, Used
  <2>2. mixed' = [k \in 1 .. Len(mixed') |-> NthBlock(k)]
    BY DEF Init
  <2>3. Used' = 0 /\ size' = hi' * LoSize + lo'
    BY <1>1 DEF Init, Used
  <2> QED BY <2>1, <2>2, <2>3 DEF NothingLost, NthBlock
<1>4. OneShot'
  BY DEF Init, OneShot
<1> QED BY <1>2, <1>3, <1>4 DEF DigestInv

-----------------------------------------------------------------------------
(* md5_update *)

LEMMA PutBytes ==
  ASSUME NEW buf \in Blocks, NEW used \in 0 .. BlockSize, NEW n \in Nat, used + n <= BlockSize,
         NEW d, Len(d) = n, \A k \in 1 .. n : d[k] \in Bytes8
  PROVE  /\ Put(buf, used, d) \in Blocks
         /\ \A k \in 1 .. BlockSize : k <= used \/ k > used + n => Put(buf, used, d)[k] = buf[k]
         /\ \A k \in 1 .. n : Put(buf, used, d)[used + k] = d[k]
<1>1. BlockSize \in Nat
  BY Sizes8
<1>2. \A k \in 1 .. BlockSize : k \in used + 1 .. used + n => d[k - used] \in Bytes8
  BY <1>1
<1>3. Put(buf, used, d) \in Blocks
  BY <1>2 DEF Put, Blocks
<1>4. ASSUME NEW k \in 1 .. BlockSize, k <= used \/ k > used + n
      PROVE  Put(buf, used, d)[k] = buf[k]
  BY <1>1, <1>4 DEF Put
<1>5. ASSUME NEW k \in 1 .. n PROVE Put(buf, used, d)[used + k] = d[k]
  <2>1. used + k \in 1 .. BlockSize /\ used + k \in used + 1 .. used + n /\ used + k - used = k
    BY <1>1
  <2> QED BY <2>1 DEF Put
<1> QED BY <1>3, <1>4, <1>5

LEMMA NthByte ==
  ASSUME NEW k \in Nat, NEW j \in 1 .. BlockSize
  PROVE  NthBlock(k + 1)[j] = k * BlockSize + j
<1>1. k + 1 - 1 = k
  OBVIOUS
<1>2. NthBlock(k + 1)[j] = (k + 1 - 1) * BlockSize + j
  BY DEF NthBlock
<1> QED BY <1>1, <1>2

(* What DigestInv says of a digest in progress. *)
LEMMA Opened8 ==
  ASSUME DigestInv, stage = "open"
  PROVE  /\ size \in Nat /\ hi \in Nat /\ lo \in 0 .. LoSize - 1 /\ buffer \in Blocks
         /\ Len(mixed) \in Nat /\ size = Len(mixed) * BlockSize + Used /\ size = hi * LoSize + lo
         /\ mixed = [k \in 1 .. Len(mixed) |-> NthBlock(k)] /\ mixed \in Seq(Blocks)
         /\ \A j \in 1 .. Used : buffer[j] = Len(mixed) * BlockSize + j
         /\ Used \in 0 .. BlockSize - 1 /\ BlockSize \in Nat \ {0}
         /\ MaxMessage \in Nat
<1>1. /\ size \in 0 .. MaxMessage /\ hi \in Nat /\ lo \in 0 .. LoSize - 1
      /\ buffer \in Blocks /\ mixed \in Seq(Blocks)
  BY DEF DigestInv, DigestTypes
<1>2. BlockSize \in Nat \ {0} /\ LoSize \in Nat \ {0} /\ MaxMessage \in Nat
  BY Sizes8
<1>3. size \in Nat /\ lo \in Nat /\ Len(mixed) \in Nat
  BY <1>1, <1>2
<1>4. Used \in 0 .. BlockSize - 1
  BY <1>2, <1>3, Division DEF Used
<1>5. /\ size = Len(mixed) * BlockSize + Used /\ size = hi * LoSize + lo
      /\ mixed = [k \in 1 .. Len(mixed) |-> NthBlock(k)]
      /\ \A j \in 1 .. Used : buffer[j] = NthBlock(Len(mixed) + 1)[j]
  BY DEF DigestInv, NothingLost
<1>6. \A j \in 1 .. Used : NthBlock(Len(mixed) + 1)[j] = Len(mixed) * BlockSize + j
  <2>1. Len(mixed) + 1 - 1 = Len(mixed) /\ \A j \in 1 .. Used : j \in 1 .. BlockSize
    BY <1>2, <1>3, <1>4
  <2> QED BY <2>1 DEF NthBlock
<1> QED BY <1>1, <1>2, <1>3, <1>4, <1>5, <1>6

LEMMA UpdateFits ==
  ASSUME DigestInv, NEW n \in 0 .. MaxMessage, Update(n), Fits(n)
  PROVE  DigestInv'
<1> DEFINE u == Used
           L == Len(mixed)
           M == L * BlockSize
           d == Chunk(n)
<1>1. /\ stage = "open" /\ stage' = "open" /\ mixed' = mixed
      /\ size' = size + n /\ lo' = NewLo(n) /\ hi' = NewHi(n) /\ size + n <= MaxMessage
      /\ buffer' = Put(buffer, u, d) /\ u # 0 /\ n < BlockSize - u
  BY DEF Update, Fits
<1>2. /\ size \in Nat /\ hi \in Nat /\ lo \in 0 .. LoSize - 1 /\ buffer \in Blocks
      /\ L \in Nat /\ size = M + u /\ size = hi * LoSize + lo /\ n \in Nat
      /\ mixed = [k \in 1 .. L |-> NthBlock(k)] /\ mixed \in Seq(Blocks)
      /\ \A j \in 1 .. u : buffer[j] = M + j
      /\ u \in 0 .. BlockSize - 1 /\ BlockSize \in Nat \ {0} /\ MaxMessage \in Nat
  BY <1>1, Opened8
<1>3. M = L * BlockSize /\ M \in Nat /\ u + n \in 0 .. BlockSize - 1
  BY <1>1, <1>2
<1>4. lo' \in 0 .. LoSize - 1 /\ hi' \in Nat /\ size' = hi' * LoSize + lo'
  BY <1>1, <1>2, LengthKept
<1>5. Len(d) = n /\ \A k \in 1 .. n : d[k] = size + k /\ d[k] \in Bytes8
  BY <1>2 DEF Chunk, Bytes8
<1> HIDE DEF u, M, d
<1>6. size' = L * BlockSize + (u + n)
  BY <1>1, <1>2, <1>3
<1> HIDE DEF L
<1>7. Used' = u + n
  BY <1>2, <1>3, <1>4, <1>6, UsedNext
<1>8. /\ buffer' \in Blocks
      /\ \A k \in 1 .. BlockSize : k <= u \/ k > u + n => buffer'[k] = buffer[k]
      /\ \A k \in 1 .. n : buffer'[u + k] = d[k]
  <2>1. u \in 0 .. BlockSize /\ u + n <= BlockSize
    BY <1>2, <1>3
  <2>2. buffer \in Blocks /\ n \in Nat /\ Len(d) = n /\ \A k \in 1 .. n : d[k] \in Bytes8
    BY <1>2, <1>5
  <2>3. /\ Put(buffer, u, d) \in Blocks
        /\ \A k \in 1 .. BlockSize : k <= u \/ k > u + n => Put(buffer, u, d)[k] = buffer[k]
        /\ \A k \in 1 .. n : Put(buffer, u, d)[u + k] = d[k]
    BY <2>1, <2>2, PutBytes
  <2>4. buffer' = Put(buffer, u, d)
    BY <1>1
  <2> QED BY <2>3, <2>4, Zenon
<1>9. ASSUME NEW j \in 1 .. u + n PROVE buffer'[j] = M + j
  <2>1. j \in Nat /\ j >= 1 /\ j <= u + n /\ j \in 1 .. BlockSize
    BY <1>2, <1>3
  <2>2. CASE j <= u
    BY <1>2, <1>8, <2>1, <2>2
  <2>3. CASE j > u
    <3>1. j - u \in 1 .. n /\ u + (j - u) = j
      BY <1>2, <2>1, <2>3
    <3>2. buffer'[j] = size + (j - u)
      BY <1>5, <1>8, <3>1
    <3>3. u \in Int /\ M \in Int /\ size = M + u
      BY <1>2, <1>3
    <3> QED BY <2>1, <3>2, <3>3
  <2> QED BY <1>2, <2>1, <2>2, <2>3
<1>10. DigestTypes'
  BY <1>1, <1>2, <1>4, <1>8 DEF DigestInv, DigestTypes
<1>11. NothingLost'
  <2>1. Len(mixed') = L /\ size' = Len(mixed') * BlockSize + Used' /\ size' = hi' * LoSize + lo'
    BY <1>1, <1>4, <1>6, <1>7 DEF L
  <2>2. mixed' = [k \in 1 .. Len(mixed') |-> NthBlock(k)]
    BY <1>1, <1>2 DEF L
  <2>3. ASSUME NEW j \in 1 .. Used' PROVE buffer'[j] = NthBlock(Len(mixed') + 1)[j]
    <3>1. j \in 1 .. BlockSize
      BY <1>2, <1>3, <1>7
    <3>2. NthBlock(L + 1)[j] = M + j
      BY <1>2, <1>3, <3>1, NthByte
    <3> QED BY <1>7, <1>9, <2>1, <3>2
  <2> QED BY <2>1, <2>2, <2>3 DEF NothingLost
<1> QED BY <1>1, <1>10, <1>11 DEF DigestInv, OneShot

LEMMA Part ==
  ASSUME NEW S, NEW s \in Seq(S), NEW a \in Nat, NEW b \in Nat, a <= b, b <= Len(s)
  PROVE  /\ SubSeq(s, a + 1, b) \in Seq(S) /\ Len(SubSeq(s, a + 1, b)) = b - a
         /\ \A k \in 1 .. b - a : SubSeq(s, a + 1, b)[k] = s[a + k]
OBVIOUS

FirstBlocks(n) == [k \in 1 .. n |-> NthBlock(k)]

LEMMA BlockType ==
  /\ \A k \in Nat \ {0} : NthBlock(k) \in Blocks
  /\ \A n \in Nat : FirstBlocks(n) \in Seq(Blocks) /\ Len(FirstBlocks(n)) = n
<1>1. ASSUME NEW k \in Nat \ {0} PROVE NthBlock(k) \in Blocks
  <2>1. ASSUME NEW j \in 1 .. BlockSize PROVE (k - 1) * BlockSize + j \in Bytes8
    BY Sizes8 DEF Bytes8
  <2> QED BY <2>1 DEF NthBlock, Blocks
<1> QED BY <1>1 DEF FirstBlocks

LEMMA SameBlock ==
  ASSUME NEW a \in Blocks, NEW b \in Blocks, \A k \in 1 .. BlockSize : a[k] = b[k]
  PROVE  a = b
<1>1. a = [k \in 1 .. BlockSize |-> a[k]] /\ b = [k \in 1 .. BlockSize |-> b[k]]
  BY DEF Blocks
<1> QED BY <1>1, Zenon

LEMMA MoreBlocks ==
  ASSUME NEW n \in Nat, NEW c \in Nat, NEW s \in Seq(Blocks), Len(s) = c,
         \A k \in 1 .. c : s[k] = NthBlock(n + k)
  PROVE  FirstBlocks(n) \o s = FirstBlocks(n + c)
<1> DEFINE t == FirstBlocks(n) \o s
           f == FirstBlocks(n)
<1>1. f \in Seq(Blocks) /\ Len(f) = n /\ \A k \in 1 .. n : f[k] = NthBlock(k)
  BY BlockType DEF FirstBlocks
<1>2. /\ FirstBlocks(n + c) \in Seq(Blocks) /\ Len(FirstBlocks(n + c)) = n + c
      /\ \A k \in 1 .. n + c : FirstBlocks(n + c)[k] = NthBlock(k)
  BY BlockType DEF FirstBlocks
<1> HIDE DEF f
<1>3. /\ f \o s \in Seq(Blocks) /\ Len(f \o s) = n + c
      /\ \A k \in 1 .. n + c : (f \o s)[k] = IF k <= n THEN f[k] ELSE s[k - n]
  BY <1>1
<1>4. \A k \in 1 .. n + c : (f \o s)[k] = NthBlock(k)
  <2>1. ASSUME NEW k \in 1 .. n + c, k > n PROVE s[k - n] = NthBlock(k)
    <3>1. k - n \in 1 .. c /\ n + (k - n) = k
      BY <2>1
    <3> QED BY <3>1
  <2> QED BY <1>1, <1>3, <2>1
<1>5. f \o s = FirstBlocks(n + c)
  BY <1>2, <1>3, <1>4, SeqEqual
<1> QED BY <1>5 DEF f

(* The whole blocks of n bytes that begin at the end of the n0-th block. *)
LEMMA WholeBlocks ==
  ASSUME NEW n0 \in Nat, NEW c \in Nat, NEW s \in Seq(Bytes8), Len(s) = c * BlockSize,
         \A k \in 1 .. c * BlockSize : s[k] = n0 * BlockSize + k
  PROVE  /\ BlocksOf(s) \in Seq(Blocks) /\ Len(BlocksOf(s)) = c
         /\ \A k \in 1 .. c : BlocksOf(s)[k] = NthBlock(n0 + k)
<1>1. BlockSize \in Nat \ {0} /\ 0 \in 0 .. BlockSize - 1
  BY Sizes8
<1>2. Len(s) \div BlockSize = c
  BY <1>1, Quotient
<1>3. ASSUME NEW k \in 1 .. c
      PROVE  SubSeq(s, (k - 1) * BlockSize + 1, k * BlockSize) = NthBlock(n0 + k)
  <2> DEFINE a == (k - 1) * BlockSize
             b == k * BlockSize
             p == SubSeq(s, a + 1, b)
             m == n0 * BlockSize
  <2>1. a \in Nat /\ b \in Nat /\ b - a = BlockSize /\ b <= Len(s) /\ m \in Nat
    <3>1. k - 1 \in Nat /\ k \in Nat /\ c - k \in Nat
      OBVIOUS
    <3>2. (k - 1) * BlockSize = k * BlockSize - BlockSize /\ (c - k) * BlockSize = c * BlockSize - k * BlockSize
      BY <1>1, <3>1
    <3>3. (k - 1) * BlockSize >= 0 /\ (c - k) * BlockSize >= 0 /\ k * BlockSize \in Int /\ m \in Nat
      BY <1>1, <3>1
    <3> QED BY <1>1, <3>2, <3>3
  <2>2. \A j \in 1 .. BlockSize : a + j \in 1 .. c * BlockSize
    BY <1>1, <2>1
  <2>3. NthBlock(n0 + k) = [j \in 1 .. BlockSize |-> m + (a + j)]
    <3>1. ASSUME NEW j \in 1 .. BlockSize PROVE (n0 + k - 1) * BlockSize + j = m + (a + j)
      <4>1. (n0 + k - 1) * BlockSize = m + a
        BY <1>1
      <4> QED BY <1>1, <2>1, <4>1
    <3> QED BY <3>1 DEF NthBlock
  <2> HIDE DEF a, b, m
  <2>4. /\ p \in Seq(Bytes8) /\ Len(p) = BlockSize
        /\ \A j \in 1 .. BlockSize : p[j] = s[a + j]
    <3>1. a <= b
      BY <1>1, <2>1
    <3> QED BY <2>1, <3>1, Part
  <2>5. \A j \in 1 .. BlockSize : s[a + j] = m + (a + j)
    BY <2>2 DEF m
  <2> HIDE DEF p
  <2>6. p = [j \in 1 .. BlockSize |-> m + (a + j)]
    BY <1>1, <2>4, <2>5
  <2>7. p = NthBlock(n0 + k)
    BY <2>3, <2>6
  <2> QED BY <2>7 DEF p, a, b
<1>4. BlocksOf(s) = [k \in 1 .. c |-> NthBlock(n0 + k)]
  BY <1>2, <1>3 DEF BlocksOf
<1>5. \A k \in 1 .. c : NthBlock(n0 + k) \in Blocks
  BY BlockType
<1> QED BY <1>4, <1>5

LEMMA UpdateLong ==
  ASSUME DigestInv, NEW n \in 0 .. MaxMessage, Update(n), ~Fits(n)
  PROVE  DigestInv'
<1> DEFINE u == Used
           L == Len(mixed)
           g == Begun
           first == SubSeq(Chunk(n), 1, g)
           filled == Put(buffer, u, first)
           data == SubSeq(Chunk(n), g + 1, n)
           w == Whole(data)
           whole == SubSeq(data, 1, w)
           rest == SubSeq(data, w + 1, Len(data))
           opened == IF g = 0 THEN <<>> ELSE <<filled>>
           e == IF u = 0 THEN 0 ELSE 1
           M == L * BlockSize
           m == n - g
           c == m \div BlockSize
           r == m % BlockSize
           C == c * BlockSize
<1>1. /\ stage = "open" /\ stage' = "open"
      /\ size' = size + n /\ lo' = NewLo(n) /\ hi' = NewHi(n) /\ size + n <= MaxMessage
      /\ mixed' = mixed \o opened \o BlocksOf(whole)
      /\ buffer' = Put(filled, 0, rest)
  BY DEF Update
<1>2. /\ size \in Nat /\ hi \in Nat /\ lo \in 0 .. LoSize - 1 /\ buffer \in Blocks
      /\ L \in Nat /\ size = M + u /\ size = hi * LoSize + lo /\ n \in Nat
      /\ mixed = FirstBlocks(L)
      /\ \A j \in 1 .. u : buffer[j] = M + j
      /\ u \in 0 .. BlockSize - 1 /\ BlockSize \in Nat \ {0} /\ MaxMessage \in Nat
  BY <1>1, Opened8 DEF FirstBlocks
<1>3. M \in Nat /\ M = L * BlockSize
  BY <1>2
<1>4. lo' \in 0 .. LoSize - 1 /\ hi' \in Nat /\ size' = hi' * LoSize + lo'
  BY <1>1, <1>2, LengthKept
<1>5. /\ g \in Nat /\ g <= n /\ u + g = e * BlockSize /\ g = (IF u = 0 THEN 0 ELSE BlockSize - u)
      /\ e \in {0, 1}
  BY <1>2 DEF Fits, Begun
<1>6. m \in Nat /\ c \in Nat /\ r \in 0 .. BlockSize - 1 /\ m = C + r /\ C \in Nat
  <2>1. m \in Nat
    BY <1>2, <1>5
  <2> HIDE DEF m
  <2>2. c \in Nat /\ r \in 0 .. BlockSize - 1 /\ m = C + r
    BY <1>2, <2>1, Division
  <2> HIDE DEF c
  <2>3. C \in Nat
    BY <1>2, <2>2
  <2> QED BY <2>1, <2>2, <2>3
<1>7. /\ Chunk(n) \in Seq(Bytes8) /\ Len(Chunk(n)) = n
      /\ \A k \in 1 .. n : Chunk(n)[k] = size + k
  BY <1>2 DEF Chunk, Bytes8
<1>8. /\ Len(first) = g /\ \A k \in 1 .. g : first[k] = size + k /\ first[k] \in Bytes8
  <2> HIDE DEF g
  <2>1. /\ Len(SubSeq(Chunk(n), 0 + 1, g)) = g - 0 /\ SubSeq(Chunk(n), 0 + 1, g) \in Seq(Bytes8)
        /\ \A k \in 1 .. g - 0 : SubSeq(Chunk(n), 0 + 1, g)[k] = Chunk(n)[0 + k]
    <3>1. 0 \in Nat /\ g \in Nat /\ 0 <= g /\ g <= Len(Chunk(n))
      BY <1>5, <1>7
    <3> QED BY <1>7, <3>1, Part
  <2>2. 0 + 1 = 1 /\ g - 0 = g /\ \A k \in 1 .. g : 0 + k = k /\ k \in 1 .. n
    BY <1>2, <1>5
  <2>3. ASSUME NEW k \in 1 .. g PROVE first[k] = size + k /\ first[k] \in Bytes8
    <3>1. first[k] = size + k
      BY <1>7, <2>1, <2>2
    <3>2. size + k \in Bytes8
      BY <1>2, <1>5 DEF Bytes8
    <3> QED BY <3>1, <3>2
  <2> QED BY <2>1, <2>2, <2>3
<1>9. /\ Len(data) = m /\ data \in Seq(Bytes8) /\ \A k \in 1 .. m : data[k] = size + (g + k)
  <2> HIDE DEF g
  <2>1. /\ data \in Seq(Bytes8) /\ Len(data) = n - g
        /\ \A k \in 1 .. n - g : data[k] = Chunk(n)[g + k]
    BY <1>2, <1>5, <1>7, Part
  <2>2. \A k \in 1 .. n - g : g + k \in 1 .. n
    BY <1>2, <1>5
  <2> QED BY <1>7, <2>1, <2>2
<1> HIDE DEF first, data, m
<1>10. w = C
  <2>1. m < BlockSize => c = 0
    <3> DEFINE s == 0 * BlockSize + m
    <3>1. ASSUME m < BlockSize PROVE c = 0
      <4>1. m \in 0 .. BlockSize - 1 /\ 0 * BlockSize + m = m
        BY <1>2, <1>6, <3>1
      <4>2. (0 * BlockSize + m) \div BlockSize = 0
        BY <1>2, <4>1, Quotient
      <4> QED BY <4>1, <4>2
    <3> QED BY <3>1
  <2> HIDE DEF c
  <2>2. w = IF m >= BlockSize THEN m - r ELSE 0
    BY <1>9 DEF Whole
  <2>3. c = 0 => C = 0
    BY <1>2
  <2> HIDE DEF w, r, C
  <2> QED BY <1>2, <1>6, <2>1, <2>2, <2>3
<1> HIDE DEF w, c, r
<1>11. /\ whole \in Seq(Bytes8) /\ Len(whole) = C /\ \A k \in 1 .. C : whole[k] = size + (g + k)
  <2> HIDE DEF C
  <2>1. /\ SubSeq(data, 0 + 1, C) \in Seq(Bytes8) /\ Len(SubSeq(data, 0 + 1, C)) = C - 0
        /\ \A k \in 1 .. C - 0 : SubSeq(data, 0 + 1, C)[k] = data[0 + k]
    <3>1. 0 \in Nat /\ C \in Nat /\ 0 <= C /\ C <= Len(data)
      BY <1>2, <1>6, <1>9
    <3> QED BY <1>9, <3>1, Part
  <2>2. 0 + 1 = 1 /\ C - 0 = C /\ \A k \in 1 .. C : 0 + k = k /\ k \in 1 .. m
    BY <1>2, <1>6
  <2> QED BY <1>9, <1>10, <2>1, <2>2
<1>12. Len(rest) = r /\ \A k \in 1 .. r : rest[k] = size + (g + (C + k)) /\ rest[k] \in Bytes8
  <2> HIDE DEF C
  <2>1. /\ SubSeq(data, C + 1, m) \in Seq(Bytes8) /\ Len(SubSeq(data, C + 1, m)) = m - C
        /\ \A k \in 1 .. m - C : SubSeq(data, C + 1, m)[k] = data[C + k]
    <3>1. C \in Nat /\ m \in Nat /\ C <= m /\ m <= Len(data)
      BY <1>2, <1>6, <1>9
    <3> QED BY <1>9, <3>1, Part
  <2>2. m - C = r /\ \A k \in 1 .. r : C + k \in 1 .. m
    BY <1>2, <1>6
  <2>3. \A k \in 1 .. r : size + (g + (C + k)) \in Bytes8
    BY <1>2, <1>5, <1>6 DEF Bytes8
  <2> QED BY <1>9, <1>10, <2>1, <2>2, <2>3
<1> DEFINE L1 == L + e
           M1 == L1 * BlockSize
<1> HIDE DEF whole, rest
<1>13. L1 \in Nat /\ M1 = M + e * BlockSize /\ size + g = M1 /\ M1 \in Nat
  <2>1. L1 \in Nat /\ M1 = M + e * BlockSize
    <3>1. L \in Int /\ e \in Int /\ BlockSize \in Int /\ L + e \in Nat
      BY <1>2
    <3>2. (L + e) * BlockSize = L * BlockSize + e * BlockSize
      <4> HIDE DEF e, L
      <4> QED BY <3>1, Distribute
    <3> QED BY <3>1, <3>2
  <2> DEFINE E == e * BlockSize
  <2>2. u + g = E /\ E \in Nat
    BY <1>2, <1>5
  <2> HIDE DEF M, M1, L1, E, u, g
  <2>3. M1 = M + E
    BY <2>1 DEF E
  <2> QED BY <1>2, <1>3, <1>5, <2>1, <2>2, <2>3
<1>14. /\ filled \in Blocks
       /\ u # 0 => filled = NthBlock(L + 1)
  <2> HIDE DEF g, u
  <2>1. /\ u \in 0 .. BlockSize /\ g \in Nat /\ u + g <= BlockSize
    BY <1>2, <1>5
  <2>2. /\ filled \in Blocks
        /\ \A k \in 1 .. BlockSize : k <= u \/ k > u + g => filled[k] = buffer[k]
        /\ \A k \in 1 .. g : filled[u + k] = first[k]
    <3>1. /\ buffer \in Blocks /\ u \in 0 .. BlockSize /\ g \in Nat /\ u + g <= BlockSize
          /\ Len(first) = g /\ \A k \in 1 .. g : first[k] \in Bytes8
      BY <1>2, <1>8, <2>1
    <3> HIDE DEF filled
    <3>2. /\ Put(buffer, u, first) \in Blocks
          /\ \A k \in 1 .. BlockSize : k <= u \/ k > u + g => Put(buffer, u, first)[k] = buffer[k]
          /\ \A k \in 1 .. g : Put(buffer, u, first)[u + k] = first[k]
      BY <3>1, PutBytes
    <3> QED BY <3>2 DEF filled
  <2> HIDE DEF filled, M
  <2>3. ASSUME u # 0, NEW k \in 1 .. BlockSize PROVE filled[k] = NthBlock(L + 1)[k]
    <3>1. NthBlock(L + 1)[k] = M + k
      BY <1>2, <1>3, NthByte
    <3>2. CASE k <= u
      <4>1. k \in 1 .. u
        BY <1>2, <3>2
      <4> QED BY <1>2, <2>2, <3>1, <3>2, <4>1
    <3>3. CASE k > u
      <4>1. k - u \in 1 .. g /\ u + (k - u) = k
        BY <1>2, <1>5, <2>3, <3>3
      <4>2. filled[k] = size + (k - u)
        BY <1>8, <2>2, <4>1
      <4>3. size + (k - u) = M + k
        BY <1>2, <1>3, <3>3
      <4> QED BY <3>1, <4>2, <4>3
    <3> QED BY <1>2, <3>2, <3>3
  <2>4. NthBlock(L + 1) \in Blocks
    BY <1>2, BlockType
  <2>5. u # 0 => filled = NthBlock(L + 1)
    <3>1. CASE u # 0
      <4>1. \A k \in 1 .. BlockSize : filled[k] = NthBlock(L + 1)[k]
        BY <2>3, <3>1
      <4>2. filled = NthBlock(L + 1)
        BY <2>2, <2>4, <4>1, SameBlock
      <4> QED BY <4>2
    <3> QED BY <3>1
  <2> QED BY <2>2, <2>5
<1> HIDE DEF filled
<1>15. mixed \o opened = FirstBlocks(L1)
  <2>1. CASE u = 0
    <3>1. L1 = L /\ opened = <<>> /\ FirstBlocks(L) \in Seq(Blocks)
      BY <1>2, <1>5, <2>1, BlockType
    <3> QED BY <1>2, <3>1
  <2>2. CASE u # 0
    <3>1. L1 = L + 1 /\ opened = <<filled>>
      BY <1>2, <1>5, <2>2
    <3>2. <<filled>> \in Seq(Blocks) /\ Len(<<filled>>) = 1 /\ \A k \in 1 .. 1 : <<filled>>[k] = NthBlock(L + k)
      <4> DEFINE x == NthBlock(L + 1)
      <4>1. filled = x /\ filled \in Blocks
        BY <1>14, <2>2
      <4>2. ASSUME NEW k \in 1 .. 1 PROVE <<filled>>[k] = NthBlock(L + k)
        <5>1. k = 1 /\ <<filled>>[1] = filled
          OBVIOUS
        <5> QED BY <4>1, <5>1
      <4> QED BY <4>1, <4>2
    <3>3. FirstBlocks(L) \o <<filled>> = FirstBlocks(L + 1)
      <4>1. 1 \in Nat
        OBVIOUS
      <4> QED BY <1>2, <3>2, <4>1, MoreBlocks
    <3> QED BY <1>2, <3>1, <3>3
  <2> QED BY <2>1, <2>2
<1> HIDE DEF opened, L1
<1>16. mixed' = FirstBlocks(L1 + c)
  <2>1. \A k \in 1 .. C : whole[k] = M1 + k
    <3>1. size \in Int /\ g \in Int /\ M1 \in Int /\ size + g = M1
      BY <1>2, <1>5, <1>13
    <3> HIDE DEF M1, C, g
    <3>2. \A k \in 1 .. C : size + (g + k) = M1 + k
      BY <3>1, <1>6
    <3> QED BY <1>11, <3>2
  <2>2. /\ BlocksOf(whole) \in Seq(Blocks) /\ Len(BlocksOf(whole)) = c
        /\ \A k \in 1 .. c : BlocksOf(whole)[k] = NthBlock(L1 + k)
    BY <1>6, <1>11, <1>13, <2>1, WholeBlocks
  <2>3. FirstBlocks(L1) \o BlocksOf(whole) = FirstBlocks(L1 + c)
    BY <1>6, <1>13, <2>2, MoreBlocks
  <2> QED BY <1>1, <1>15, <2>3
<1>17. size' = (L1 + c) * BlockSize + r
  <2>1. (L1 + c) * BlockSize = M1 + C
    BY <1>2, <1>6, <1>13
  <2>2. size' = M1 + C + r
    <3>1. /\ size \in Int /\ g \in Int /\ n \in Int /\ C \in Int /\ r \in Int /\ M1 \in Int
          /\ size + g = M1 /\ n - g = C + r /\ size' = size + n
      BY <1>1, <1>2, <1>5, <1>6, <1>13 DEF m
    <3> HIDE DEF M1, C, g
    <3> QED BY <3>1
  <2> QED BY <2>1, <2>2
<1>18. L1 + c \in Nat /\ Used' = r
  <2>1. L1 + c \in Nat
    BY <1>6, <1>13
  <2> QED BY <1>4, <1>6, <1>17, <2>1, UsedNext
<1>19. /\ buffer' \in Blocks
       /\ \A k \in 1 .. r : buffer'[k] = NthBlock(L1 + c + 1)[k]
  <2>1. 0 \in 0 .. BlockSize /\ r \in Nat /\ 0 + r <= BlockSize
    BY <1>2, <1>6
  <2>2. \A k \in 1 .. r : rest[k] \in Bytes8
    BY <1>12
  <2>3. /\ Put(filled, 0, rest) \in Blocks
        /\ \A k \in 1 .. r : Put(filled, 0, rest)[0 + k] = rest[k]
    <3>1. filled \in Blocks /\ Len(rest) = r
      BY <1>12, <1>14
    <3> HIDE DEF C, M1, g, u
    <3> QED BY <2>1, <2>2, <3>1, PutBytes
  <2>4. ASSUME NEW k \in 1 .. r PROVE buffer'[k] = NthBlock(L1 + c + 1)[k]
    <3>1. 0 + k = k /\ k \in 1 .. BlockSize
      BY <1>2, <1>6
    <3>2. buffer'[k] = rest[k]
      BY <1>1, <2>3, <3>1
    <3>3. rest[k] = M1 + C + k
      <4>1. size \in Int /\ g \in Int /\ M1 \in Int /\ size + g = M1 /\ C \in Int /\ k \in Int
        BY <1>2, <1>5, <1>6, <1>13
      <4>2. rest[k] = size + (g + (C + k))
        BY <1>12
      <4> HIDE DEF M1, C, g
      <4> QED BY <4>1, <4>2
    <3>4. NthBlock(L1 + c + 1)[k] = (L1 + c) * BlockSize + k
      BY <1>18, <3>1, NthByte
    <3>5. (L1 + c) * BlockSize = M1 + C
      BY <1>2, <1>6, <1>13
    <3> QED BY <3>2, <3>3, <3>4, <3>5
  <2> QED BY <1>1, <2>3, <2>4
<1>20. mixed' \in Seq(Blocks) /\ Len(mixed') = L1 + c
  BY <1>16, <1>18, BlockType
<1>21. DigestTypes'
  <2>1. size' \in 0 .. MaxMessage
    BY <1>1, <1>2
  <2> QED BY <1>1, <1>4, <1>19, <1>20, <2>1 DEF DigestTypes
<1>22. NothingLost'
  <2>1. size' = Len(mixed') * BlockSize + Used'
    BY <1>17, <1>18, <1>20
  <2>2. mixed' = [k \in 1 .. Len(mixed') |-> NthBlock(k)]
    BY <1>16, <1>20 DEF FirstBlocks
  <2>3. \A j \in 1 .. Used' : buffer'[j] = NthBlock(Len(mixed') + 1)[j]
    BY <1>18, <1>19, <1>20
  <2> QED BY <1>4, <2>1, <2>2, <2>3 DEF NothingLost
<1> QED BY <1>1, <1>21, <1>22 DEF DigestInv, OneShot

-----------------------------------------------------------------------------
(* md5_final *)

LEMMA Zeros8 ==
  \A n \in Nat : Len(Zeros(n)) = n /\ \A k \in 1 .. n : Zeros(n)[k] = Padding(0) /\ Zeros(n)[k] \in Bytes8
BY DEF Zeros, Bytes8

(* A block of the padded message: all of it lies before the n-th byte, behind
   the mark, or it holds one of the two or the length. *)
PaddedBlock(n, k) == [j \in 1 .. BlockSize |-> PaddedByte(n, NthBlock(k)[j])]

LEMMA WholeBlock ==
  ASSUME NEW n \in Nat, NEW L \in Nat, NEW u \in 0 .. BlockSize - 1, n = L * BlockSize + u
  PROVE  \A k \in 1 .. L : PaddedBlock(n, k) = NthBlock(k)
<1>1. BlockSize \in Nat \ {0}
  BY Sizes8
<1>2. ASSUME NEW k \in 1 .. L, NEW j \in 1 .. BlockSize
      PROVE  PaddedByte(n, NthBlock(k)[j]) = (k - 1) * BlockSize + j
  <2> DEFINE i == (k - 1) * BlockSize + j
  <2>1. NthBlock(k)[j] = i
    BY DEF NthBlock
  <2>2. i <= n
    <3>1. k - 1 \in Int /\ 1 \in Int /\ L - k \in Nat /\ k \in Int /\ BlockSize \in Int /\ (k - 1) + 1 = k /\ (L - k) + k = L
      BY <1>1
    <3>2. ((k - 1) + 1) * BlockSize = (k - 1) * BlockSize + 1 * BlockSize
      BY <3>1, Distribute
    <3>3. ((L - k) + k) * BlockSize = (L - k) * BlockSize + k * BlockSize
      BY <3>1, Distribute
    <3>4. (L - k) * BlockSize \in Nat
      BY <1>1, <3>1
    <3> DEFINE A == (k - 1) * BlockSize
               B == k * BlockSize
               D == L * BlockSize
    <3>5. B = A + BlockSize /\ D >= B /\ A \in Int /\ B \in Int /\ D \in Int
      BY <1>1, <3>1, <3>2, <3>3, <3>4
    <3> HIDE DEF A, B, D
    <3>6. A + j <= D + u
      BY <1>1, <3>5
    <3> QED BY <3>6 DEF A, D
  <2> QED BY <2>1, <2>2 DEF PaddedByte
<1> QED BY <1>2 DEF PaddedBlock, NthBlock

LEMMA OneMore ==
  ASSUME NEW s \in Seq(Blocks), NEW b \in Blocks, NEW n \in Nat, Len(s) = n
  PROVE  /\ s \o <<b>> \in Seq(Blocks) /\ Len(s \o <<b>>) = n + 1
         /\ (s \o <<b>>)[n + 1] = b /\ \A k \in 1 .. n : (s \o <<b>>)[k] = s[k]
OBVIOUS

LEMMA FinalStep ==
  ASSUME DigestInv, Final PROVE DigestInv'
<1> DEFINE u == Used
           L == Len(mixed)
           M == L * BlockSize
           free == BlockSize - (u + 1)
           marked == Put(buffer, u, <<Padding(1)>>)
           padded == Put(marked, u + 1, Zeros(free))
           last == IF NoRoom THEN Zeros(BlockSize) ELSE Put(marked, u + 1, Zeros(free - LengthSize))
           final == Put(last, BlockSize - LengthSize, Lengths)
<1>1. /\ stage = "open" /\ stage' = "final" /\ size' = size /\ lo' = 0 /\ hi' = 0
      /\ buffer' = Zeros(BlockSize)
      /\ mixed' = mixed \o (IF NoRoom THEN <<padded>> ELSE <<>>) \o <<final>>
  BY DEF Final
<1>2. /\ size \in Nat /\ hi \in Nat /\ lo \in 0 .. LoSize - 1 /\ buffer \in Blocks
      /\ L \in Nat /\ size = M + u /\ size = hi * LoSize + lo
      /\ mixed = FirstBlocks(L) /\ mixed \in Seq(Blocks)
      /\ \A j \in 1 .. u : buffer[j] = M + j
      /\ u \in 0 .. BlockSize - 1 /\ BlockSize \in Nat \ {0} /\ MaxMessage \in Nat
      /\ BlockSize >= 3
  BY <1>1, Opened8, Sizes8 DEF FirstBlocks
<1>3. M \in Nat /\ M = L * BlockSize
  BY <1>2
<1>4. free \in Nat /\ LengthSize = 2 /\ (NoRoom <=> free < 2) /\ free = BlockSize - u - 1
  BY <1>2 DEF LengthSize, NoRoom
<1>5. size \div LoSize = hi /\ size % LoSize = lo
  <2>1. (hi * LoSize + lo) \div LoSize = hi /\ (hi * LoSize + lo) % LoSize = lo
    BY <1>2, Sizes8, Quotient
  <2> QED BY <1>2, <2>1
<1> HIDE DEF u, L, M, free
<1>6. /\ marked \in Blocks
      /\ \A k \in 1 .. BlockSize : k <= u \/ k > u + 1 => marked[k] = buffer[k]
      /\ marked[u + 1] = Padding(1)
  <2>1. /\ u \in 0 .. BlockSize /\ 1 \in Nat /\ u + 1 <= BlockSize /\ Len(<<Padding(1)>>) = 1
        /\ \A k \in 1 .. 1 : <<Padding(1)>>[k] \in Bytes8
    <3>1. Padding(1) \in Bytes8
      BY DEF Bytes8
    <3> QED BY <1>2, <3>1
  <2> DEFINE d == <<Padding(1)>>
             n == 1
  <2>2. u \in 0 .. BlockSize /\ n \in Nat /\ u + n <= BlockSize /\ Len(d) = n /\ \A k \in 1 .. n : d[k] \in Bytes8
    BY <2>1
  <2>3. n = 1 /\ d[1] = Padding(1) /\ 1 \in 1 .. n /\ marked = Put(buffer, u, d)
    BY DEF marked
  <2> HIDE DEF d, n
  <2>4. /\ Put(buffer, u, d) \in Blocks
        /\ \A k \in 1 .. BlockSize : k <= u \/ k > u + n => Put(buffer, u, d)[k] = buffer[k]
        /\ \A k \in 1 .. n : Put(buffer, u, d)[u + k] = d[k]
    BY <1>2, <2>2, PutBytes
  <2> QED BY <2>3, <2>4
<1> HIDE DEF marked
(* What stands in a block after the mark and n zeros. *)
<1>7. ASSUME NEW n \in Nat, n <= free
      PROVE  /\ Put(marked, u + 1, Zeros(n)) \in Blocks
             /\ \A k \in 1 .. BlockSize : k <= u => Put(marked, u + 1, Zeros(n))[k] = M + k
             /\ \A k \in 1 .. BlockSize : k = u + 1 => Put(marked, u + 1, Zeros(n))[k] = Padding(1)
             /\ \A k \in 1 .. BlockSize : k > u + 1 /\ k <= u + 1 + n =>
                                          Put(marked, u + 1, Zeros(n))[k] = Padding(0)
  <2> DEFINE t == u + 1
             b == Put(marked, t, Zeros(n))
  <2>1. t \in 0 .. BlockSize /\ t + n <= BlockSize /\ t = u + 1
    BY <1>2, <1>4, <1>7
  <2>2. Len(Zeros(n)) = n /\ \A k \in 1 .. n : Zeros(n)[k] = Padding(0) /\ Zeros(n)[k] \in Bytes8
    BY Zeros8
  <2> HIDE DEF t
  <2>3. /\ b \in Blocks
        /\ \A k \in 1 .. BlockSize : k <= t \/ k > t + n => b[k] = marked[k]
        /\ \A k \in 1 .. n : b[t + k] = Zeros(n)[k]
    <3> HIDE DEF b
    <3>1. /\ Put(marked, t, Zeros(n)) \in Blocks
          /\ \A k \in 1 .. BlockSize : k <= t \/ k > t + n => Put(marked, t, Zeros(n))[k] = marked[k]
          /\ \A k \in 1 .. n : Put(marked, t, Zeros(n))[t + k] = Zeros(n)[k]
      BY <1>6, <2>1, <2>2, PutBytes
    <3> QED BY <3>1 DEF b
  <2> HIDE DEF b
  <2>4. ASSUME NEW k \in 1 .. BlockSize, k <= u PROVE b[k] = M + k
    <3>1. k <= t /\ k \in 1 .. u
      BY <1>2, <2>1, <2>4
    <3> QED BY <1>2, <1>6, <2>3, <2>4, <3>1
  <2>5. ASSUME NEW k \in 1 .. BlockSize, k = u + 1 PROVE b[k] = Padding(1)
    <3>1. k <= t
      BY <1>2, <2>1, <2>5
    <3> QED BY <1>6, <2>3, <2>5, <3>1
  <2>6. ASSUME NEW k \in 1 .. BlockSize, k > u + 1, k <= u + 1 + n PROVE b[k] = Padding(0)
    <3>1. k - t \in 1 .. n /\ t + (k - t) = k
      BY <1>2, <2>1, <2>6
    <3>2. b[t + (k - t)] = Zeros(n)[k - t]
      BY <2>3, <3>1
    <3> QED BY <2>2, <3>1, <3>2
  <2>7. b = Put(marked, u + 1, Zeros(n))
    BY <2>1 DEF b
  <2> QED BY <2>3, <2>4, <2>5, <2>6, <2>7
(* The length takes the end of the last block. *)
<1>8. ASSUME NEW b \in Blocks
      PROVE  /\ Put(b, BlockSize - LengthSize, Lengths) \in Blocks
             /\ \A k \in 1 .. BlockSize : k <= BlockSize - 2 =>
                                          Put(b, BlockSize - LengthSize, Lengths)[k] = b[k]
             /\ Put(b, BlockSize - LengthSize, Lengths)[BlockSize - 1] = Count(lo)
             /\ Put(b, BlockSize - LengthSize, Lengths)[BlockSize] = Count(hi)
  <2> DEFINE t == BlockSize - LengthSize
  <2>1. t \in 0 .. BlockSize /\ 2 \in Nat /\ t + 2 <= BlockSize /\ t = BlockSize - 2
    BY <1>2, <1>4
  <2>2. Len(Lengths) = 2 /\ Lengths[1] = Count(lo) /\ Lengths[2] = Count(hi)
        /\ \A k \in 1 .. 2 : Lengths[k] \in Bytes8
    <3>1. Count(lo) \in Bytes8 /\ Count(hi) \in Bytes8
      <4>1. lo \in Nat
        BY <1>2
      <4> QED BY <1>2, <4>1 DEF Bytes8
    <3> QED BY <3>1 DEF Lengths
  <2> HIDE DEF t
  <2>3. /\ Put(b, t, Lengths) \in Blocks
        /\ \A k \in 1 .. BlockSize : k <= t \/ k > t + 2 => Put(b, t, Lengths)[k] = b[k]
        /\ \A k \in 1 .. 2 : Put(b, t, Lengths)[t + k] = Lengths[k]
    <3> DEFINE d == Lengths
               n == 2
    <3>1. /\ b \in Blocks /\ t \in 0 .. BlockSize /\ n \in Nat /\ t + n <= BlockSize /\ Len(d) = n
          /\ \A k \in 1 .. n : d[k] \in Bytes8
      BY <2>1, <2>2
    <3>2. n = 2 /\ d = Lengths
      OBVIOUS
    <3> HIDE DEF d, n
    <3>3. /\ Put(b, t, d) \in Blocks
          /\ \A k \in 1 .. BlockSize : k <= t \/ k > t + n => Put(b, t, d)[k] = b[k]
          /\ \A k \in 1 .. n : Put(b, t, d)[t + k] = d[k]
      BY <3>1, PutBytes
    <3> QED BY <3>2, <3>3, Zenon
  <2>4. t + 1 = BlockSize - 1 /\ t + 2 = BlockSize
    BY <1>2, <2>1
  <2>5. 1 \in 1 .. 2 /\ 2 \in 1 .. 2
    OBVIOUS
  <2>6. Put(b, t, Lengths)[t + 1] = Count(lo) /\ Put(b, t, Lengths)[t + 2] = Count(hi)
    BY <2>2, <2>3, <2>5
  <2>7. t = BlockSize - LengthSize
    BY DEF t
  <2> QED BY <2>1, <2>3, <2>4, <2>6, <2>7
<1> DEFINE P == PaddedBlocks(size)
           N == IF NoRoom THEN L + 2 ELSE L + 1
           E == P * BlockSize
<1>9. P = N /\ N \in Nat /\ E = (IF NoRoom THEN M + BlockSize + BlockSize ELSE M + BlockSize)
  <2>1. CASE NoRoom
    <3>1. /\ L + 1 \in Nat /\ u + 2 - BlockSize \in 0 .. BlockSize - 1
          /\ size + 2 = (L + 1) * BlockSize + (u + 2 - BlockSize)
      <4>1. u + 2 - BlockSize \in 0 .. BlockSize - 1 /\ L \in Int /\ 1 \in Int /\ BlockSize \in Int /\ L + 1 \in Nat
        BY <1>2, <1>4, <2>1
      <4>2. (L + 1) * BlockSize = L * BlockSize + 1 * BlockSize
        BY <4>1, Distribute
      <4>3. (L + 1) * BlockSize = M + BlockSize
        BY <1>2, <1>3, <4>2
      <4>4. u \in Int
        BY <1>2
      <4> QED BY <1>2, <1>3, <4>1, <4>3, <4>4
    <3> DEFINE s == u + 2 - BlockSize
               q == L + 1
    <3>2. s \in 0 .. BlockSize - 1 /\ q \in Nat /\ size + 2 = q * BlockSize + s
      BY <3>1
    <3> HIDE DEF s, q
    <3>3. (size + 2) \div BlockSize = q
      BY <1>2, <3>2, Quotient
    <3>4. P = q + 1
      BY <1>4, <3>3 DEF PaddedBlocks
    <3>5. q + 1 = L + 2
      BY <1>2 DEF q
    <3>6. (L + 2) * BlockSize = L * BlockSize + 2 * BlockSize
      BY <1>2
    <3> QED BY <1>2, <1>3, <2>1, <3>4, <3>5, <3>6
  <2>2. CASE ~NoRoom
    <3>1. u + 2 \in 0 .. BlockSize - 1
      BY <1>2, <1>4, <2>2
    <3> DEFINE s == u + 2
    <3>2. s \in 0 .. BlockSize - 1 /\ size + 2 = L * BlockSize + s
      BY <1>2, <1>3, <3>1
    <3> HIDE DEF s
    <3>3. (size + 2) \div BlockSize = L
      BY <1>2, <3>2, Quotient
    <3>4. P = L + 1
      BY <1>4, <3>3 DEF PaddedBlocks
    <3>5. (L + 1) * BlockSize = L * BlockSize + 1 * BlockSize
      BY <1>2
    <3> QED BY <1>2, <1>3, <2>2, <3>4, <3>5
  <2> QED BY <2>1, <2>2
<1> HIDE DEF E
<1>10. \A i : PaddedByte(size, i) = IF i <= size THEN i
                                   ELSE IF i = size + 1 THEN Padding(1)
                                   ELSE IF i = E - 1 THEN Count(lo)
                                   ELSE IF i = E THEN Count(hi)
                                   ELSE Padding(0)
  BY <1>5 DEF PaddedByte, E
<1> HIDE DEF P
<1>11. \A k \in 1 .. L : PaddedBlock(size, k) = mixed[k]
  <2>1. \A k \in 1 .. L : PaddedBlock(size, k) = NthBlock(k)
    BY <1>2, <1>3, WholeBlock
  <2> QED BY <1>2, <2>1 DEF FirstBlocks
<1>12. \A j \in 1 .. BlockSize : PaddedBlock(size, L + 1)[j] = PaddedByte(size, M + j)
  BY <1>2, <1>3, NthByte DEF PaddedBlock
<1>13. \A j \in 1 .. BlockSize : PaddedBlock(size, L + 2)[j] = PaddedByte(size, M + BlockSize + j)
  <2>1. L + 1 \in Nat /\ L + 1 + 1 = L + 2 /\ (L + 1) * BlockSize = M + BlockSize
    <3>1. (L + 1) * BlockSize = L * BlockSize + 1 * BlockSize
      BY <1>2
    <3> QED BY <1>2, <1>3, <3>1
  <2>2. \A j \in 1 .. BlockSize : NthBlock(L + 1 + 1)[j] = (L + 1) * BlockSize + j
    BY <2>1, NthByte
  <2> QED BY <2>1, <2>2 DEF PaddedBlock
<1>14. ASSUME NoRoom
       PROVE  /\ mixed' \in Seq(Blocks) /\ Len(mixed') = N
              /\ \A k \in 1 .. N : mixed'[k] = PaddedBlock(size, k)
  <2>1. /\ padded \in Blocks
        /\ \A j \in 1 .. BlockSize : padded[j] = PaddedByte(size, M + j)
    <3>1. /\ padded \in Blocks
          /\ \A k \in 1 .. BlockSize : k <= u => padded[k] = M + k
          /\ \A k \in 1 .. BlockSize : k = u + 1 => padded[k] = Padding(1)
          /\ \A k \in 1 .. BlockSize : k > u + 1 /\ k <= u + 1 + free => padded[k] = Padding(0)
      BY <1>4, <1>7
    <3> HIDE DEF padded
    <3>2. ASSUME NEW k \in 1 .. BlockSize PROVE padded[k] = PaddedByte(size, M + k)
      <4>1. /\ k <= u => M + k <= size
            /\ k = u + 1 => M + k = size + 1
            /\ k > u + 1 => M + k > size + 1 /\ k <= u + 1 + free
            /\ M + k # E - 1 /\ M + k # E
        BY <1>2, <1>3, <1>4, <1>9, <1>14
      <4>2. k <= u \/ k = u + 1 \/ k > u + 1
        BY <1>2
      <4>3. k <= u => padded[k] = PaddedByte(size, M + k)
        BY <1>10, <3>1, <4>1
      <4>4. k = u + 1 => padded[k] = PaddedByte(size, M + k)
        <5>1. k = u + 1 => ~(M + k <= size)
          BY <1>2, <1>3, <4>1
        <5> QED BY <1>10, <3>1, <4>1, <5>1
      <4>5. k > u + 1 => padded[k] = PaddedByte(size, M + k)
        <5>1. k > u + 1 => ~(M + k <= size) /\ M + k # size + 1
          BY <1>2, <1>3, <4>1
        <5> QED BY <1>10, <3>1, <4>1, <5>1
      <4> QED BY <4>2, <4>3, <4>4, <4>5
    <3> QED BY <3>1, <3>2
  <2>2. /\ final \in Blocks
        /\ \A j \in 1 .. BlockSize : final[j] = PaddedByte(size, M + BlockSize + j)
    <3>1. last \in Blocks /\ \A k \in 1 .. BlockSize : last[k] = Padding(0)
      <4>1. last = [k \in 1 .. BlockSize |-> Padding(0)]
        BY <1>14 DEF Zeros
      <4>2. Padding(0) \in Bytes8
        BY DEF Bytes8
      <4> QED BY <4>1, <4>2 DEF Blocks
    <3> HIDE DEF last
    <3>2. /\ final \in Blocks
          /\ \A k \in 1 .. BlockSize : k <= BlockSize - 2 => final[k] = last[k]
          /\ final[BlockSize - 1] = Count(lo) /\ final[BlockSize] = Count(hi)
      BY <1>8, <3>1
    <3> HIDE DEF final
    <3>3. ASSUME NEW k \in 1 .. BlockSize PROVE final[k] = PaddedByte(size, M + BlockSize + k)
      <4>1. /\ ~(M + BlockSize + k <= size) /\ M + BlockSize + k # size + 1
            /\ (M + BlockSize + k = E - 1 <=> k = BlockSize - 1)
            /\ (M + BlockSize + k = E <=> k = BlockSize)
            /\ E - 1 # E
            /\ k <= BlockSize - 2 \/ k = BlockSize - 1 \/ k = BlockSize
        BY <1>2, <1>3, <1>4, <1>9, <1>14
      <4> QED BY <1>10, <3>1, <3>2, <4>1
    <3> QED BY <3>2, <3>3
  <2> HIDE DEF padded, final
  <2>3. mixed' = mixed \o <<padded>> \o <<final>> /\ N = L + 2
    BY <1>1, <1>14
  <2>4. padded = PaddedBlock(size, L + 1) /\ final = PaddedBlock(size, L + 2)
    <3>1. padded = [j \in 1 .. BlockSize |-> PaddedByte(size, NthBlock(L + 1)[j])]
      <4>1. padded = [j \in 1 .. BlockSize |-> padded[j]]
        BY <2>1 DEF Blocks
      <4>2. \A j \in 1 .. BlockSize : padded[j] = PaddedByte(size, NthBlock(L + 1)[j])
        BY <1>12, <2>1 DEF PaddedBlock
      <4> QED BY <4>1, <4>2, Zenon
    <3>2. final = [j \in 1 .. BlockSize |-> PaddedByte(size, NthBlock(L + 2)[j])]
      <4>1. final = [j \in 1 .. BlockSize |-> final[j]]
        BY <2>2 DEF Blocks
      <4>2. \A j \in 1 .. BlockSize : final[j] = PaddedByte(size, NthBlock(L + 2)[j])
        BY <1>13, <2>2 DEF PaddedBlock
      <4> QED BY <4>1, <4>2, Zenon
    <3> QED BY <3>1, <3>2 DEF PaddedBlock
  <2>5. /\ mixed' \in Seq(Blocks) /\ Len(mixed') = N
        /\ \A k \in 1 .. N : mixed'[k] = PaddedBlock(size, k)
    <3> HIDE DEF N
    <3>1. Len(mixed) = L
      BY DEF L
    <3> DEFINE x == mixed \o <<padded>> \o <<final>>
    <3>2. /\ x \in Seq(Blocks) /\ Len(x) = L + 2
          /\ \A k \in 1 .. L : x[k] = mixed[k]
          /\ x[L + 1] = padded /\ x[L + 2] = final
      <4> DEFINE y == mixed \o <<padded>>
      <4>1. /\ y \in Seq(Blocks) /\ Len(y) = L + 1 /\ y[L + 1] = padded
            /\ \A k \in 1 .. L : y[k] = mixed[k]
        BY <1>2, <2>1, <3>1, OneMore
      <4> HIDE DEF y
      <4>2. /\ y \o <<final>> \in Seq(Blocks) /\ Len(y \o <<final>>) = L + 1 + 1
            /\ (y \o <<final>>)[L + 1 + 1] = final
            /\ \A k \in 1 .. L + 1 : (y \o <<final>>)[k] = y[k]
        <5>1. L + 1 \in Nat
          BY <1>2
        <5> QED BY <2>2, <4>1, <5>1, OneMore
      <4>3. x = y \o <<final>> /\ L + 1 + 1 = L + 2 /\ L + 1 \in 1 .. L + 1 /\ \A k \in 1 .. L : k \in 1 .. L + 1
        BY <1>2 DEF y
      <4> HIDE DEF x
      <4> QED BY <4>1, <4>2, <4>3
    <3>3. \A k \in 1 .. L + 2 : k \in 1 .. L \/ k = L + 1 \/ k = L + 2
      BY <1>2
    <3> HIDE DEF x
    <3>4. \A k \in 1 .. L + 2 : x[k] = PaddedBlock(size, k)
      BY <1>11, <2>4, <3>2, <3>3
    <3>5. x = mixed'
      BY <2>3 DEF x
    <3> QED BY <2>3, <3>2, <3>4, <3>5
  <2> QED BY <2>5
<1>15. ASSUME ~NoRoom
       PROVE  /\ mixed' \in Seq(Blocks) /\ Len(mixed') = N
              /\ \A k \in 1 .. N : mixed'[k] = PaddedBlock(size, k)
  <2>1. /\ final \in Blocks
        /\ \A j \in 1 .. BlockSize : final[j] = PaddedByte(size, M + j)
    <3> DEFINE n == free - LengthSize
    <3>1. n \in Nat /\ n <= free /\ u + 1 + n = BlockSize - 2
      BY <1>2, <1>4, <1>15
    <3>2. last = Put(marked, u + 1, Zeros(n))
      BY <1>15
    <3> HIDE DEF last, n
    <3>3. /\ last \in Blocks
          /\ \A k \in 1 .. BlockSize : k <= u => last[k] = M + k
          /\ \A k \in 1 .. BlockSize : k = u + 1 => last[k] = Padding(1)
          /\ \A k \in 1 .. BlockSize : k > u + 1 /\ k <= u + 1 + n => last[k] = Padding(0)
      BY <1>7, <3>1, <3>2
    <3>4. /\ final \in Blocks
          /\ \A k \in 1 .. BlockSize : k <= BlockSize - 2 => final[k] = last[k]
          /\ final[BlockSize - 1] = Count(lo) /\ final[BlockSize] = Count(hi)
      BY <1>8, <3>3
    <3> HIDE DEF final
    <3>5. ASSUME NEW k \in 1 .. BlockSize PROVE final[k] = PaddedByte(size, M + k)
      <4>1. /\ M + k <= size <=> k <= u
            /\ M + k = size + 1 <=> k = u + 1
            /\ M + k = E - 1 <=> k = BlockSize - 1
            /\ M + k = E <=> k = BlockSize
        BY <1>2, <1>3, <1>9, <1>15
      <4>2. /\ u <= BlockSize - 3
            /\ k <= u \/ k = u + 1 \/ (k > u + 1 /\ k <= u + 1 + n) \/ k = BlockSize - 1 \/ k = BlockSize
        BY <1>2, <1>4, <1>15, <3>1
      <4>3. CASE k <= u
        <5>1. k <= BlockSize - 2
          BY <1>2, <4>2, <4>3
        <5> QED BY <1>10, <3>3, <3>4, <4>1, <4>3, <5>1
      <4>4. CASE k = u + 1
        <5>1. k <= BlockSize - 2 /\ ~(k <= u)
          BY <1>2, <4>2, <4>4
        <5> QED BY <1>10, <3>3, <3>4, <4>1, <4>4, <5>1
      <4>5. CASE k > u + 1 /\ k <= u + 1 + n
        <5>1. k <= BlockSize - 2 /\ ~(k <= u) /\ k # u + 1 /\ k # BlockSize - 1 /\ k # BlockSize
          BY <1>2, <3>1, <4>5
        <5> QED BY <1>10, <3>3, <3>4, <4>1, <4>5, <5>1
      <4>6. CASE k = BlockSize - 1
        <5>1. ~(k <= u) /\ k # u + 1
          BY <1>2, <4>2, <4>6
        <5> QED BY <1>10, <3>4, <4>1, <4>6, <5>1
      <4>7. CASE k = BlockSize
        <5>1. ~(k <= u) /\ k # u + 1 /\ k # BlockSize - 1
          BY <1>2, <4>2, <4>7
        <5> QED BY <1>10, <3>4, <4>1, <4>7, <5>1
      <4> QED BY <4>2, <4>3, <4>4, <4>5, <4>6, <4>7
    <3> QED BY <3>4, <3>5
  <2> HIDE DEF padded, final
  <2>2. mixed' = mixed \o <<>> \o <<final>> /\ N = L + 1
    BY <1>1, <1>15
  <2>3. final = PaddedBlock(size, L + 1)
    <3>1. final = [j \in 1 .. BlockSize |-> final[j]]
      BY <2>1 DEF Blocks
    <3>2. \A j \in 1 .. BlockSize : final[j] = PaddedByte(size, NthBlock(L + 1)[j])
      BY <1>12, <2>1 DEF PaddedBlock
    <3>3. final = [j \in 1 .. BlockSize |-> PaddedByte(size, NthBlock(L + 1)[j])]
      BY <3>1, <3>2, Zenon
    <3> QED BY <3>3 DEF PaddedBlock
  <2>4. /\ mixed' \in Seq(Blocks) /\ Len(mixed') = N
        /\ \A k \in 1 .. N : mixed'[k] = PaddedBlock(size, k)
    <3> HIDE DEF N
    <3>1. Len(mixed) = L
      BY DEF L
    <3> DEFINE x == mixed \o <<>> \o <<final>>
    <3>2. /\ x \in Seq(Blocks) /\ Len(x) = L + 1
          /\ \A k \in 1 .. L : x[k] = mixed[k]
          /\ x[L + 1] = final
      BY <1>2, <2>1, <3>1
    <3>3. \A k \in 1 .. L + 1 : k \in 1 .. L \/ k = L + 1
      BY <1>2
    <3> HIDE DEF x
    <3>4. \A k \in 1 .. L + 1 : x[k] = PaddedBlock(size, k)
      BY <1>11, <2>3, <3>2, <3>3
    <3>5. x = mixed'
      BY <2>2 DEF x
    <3> QED BY <2>2, <3>2, <3>4, <3>5
  <2> QED BY <2>4
<1>16. /\ mixed' \in Seq(Blocks) /\ Len(mixed') = N
       /\ \A k \in 1 .. N : mixed'[k] = PaddedBlock(size, k)
  BY <1>14, <1>15
<1> HIDE DEF N
<1>17. mixed' = [k \in 1 .. P |-> PaddedBlock(size', k)]
  <2>1. mixed' = [k \in 1 .. N |-> mixed'[k]]
    BY <1>16
  <2>2. [k \in 1 .. N |-> mixed'[k]] = [k \in 1 .. N |-> PaddedBlock(size, k)]
    BY <1>16, Zenon
  <2> QED BY <1>1, <1>9, <2>1, <2>2
<1>18. OneShot'
  BY <1>1, <1>17 DEF OneShot, PaddedBlock, P
<1>19. DigestTypes'
  <2>1. Zeros(BlockSize) \in Blocks
    BY DEF Zeros, Blocks, Bytes8
  <2>2. size \in 0 .. MaxMessage
    BY DEF DigestInv, DigestTypes
  <2> QED BY <1>1, <1>16, <2>1, <2>2, Sizes8 DEF DigestTypes
<1>20. NothingLost'
  BY <1>1 DEF NothingLost
<1> QED BY <1>18, <1>19, <1>20 DEF DigestInv

-----------------------------------------------------------------------------
(* What holds of every digest: the types, that the blocks mixed in and the
   buffer are the bytes given so far and lo and hi their number, and that a
   finished digest is that of the padded message. *)
THEOREM DigestInvariant == DigestSpec => []DigestInv
<1>1. ASSUME DigestInv, [DigestNext]_digestVars PROVE DigestInv'
  <2>1. CASE Init
    BY <1>1, <2>1, InitStep
  <2>2. CASE Final
    BY <1>1, <2>2, FinalStep
  <2>3. ASSUME NEW n \in 0 .. MaxMessage, Update(n) PROVE DigestInv'
    BY <1>1, <2>3, UpdateFits, UpdateLong
  <2>4. CASE UNCHANGED digestVars
    BY <1>1, <2>4 DEF digestVars, DigestInv, DigestTypes, NothingLost, OneShot, Used, NthBlock,
                      PaddedByte, PaddedBlocks
  <2> QED BY <1>1, <2>1, <2>2, <2>3, <2>4 DEF DigestNext
<1> QED BY <1>1, DigestInitInv, PTL DEF DigestSpec

(* The state keeps its types, the part of the runs' type invariant that is
   md5.c's: no block mixed in is longer or shorter than the buffer. *)
THEOREM DigestTypesOK == DigestSpec => []DigestTypeOK
<1>1. DigestInv => DigestTypeOK
  <2> SUFFICES ASSUME DigestInv PROVE DigestTypeOK
    OBVIOUS
  <2>1. \A b \in Blocks : Len(b) = BlockSize
    BY Sizes8 DEF Blocks
  <2>2. \A k \in DOMAIN mixed : mixed[k] \in Blocks
    BY DEF DigestInv, DigestTypes
  <2> QED BY <2>1, <2>2 DEF DigestInv, DigestTypes, DigestTypeOK
<1> QED BY <1>1, DigestInvariant, PTL

(* Whatever the updates, their sizes and their number, every byte is mixed in
   or buffered, once and in order, and lo and hi count them (md5.c:171-205),
   for any block length and any width of lo. *)
THEOREM NothingLostAlways == DigestSpec => []NothingLost
BY DigestInvariant, PTL DEF DigestInv

(* The digest is a function of the message: the blocks body is given are those
   of the padded message, however it was cut into updates and whatever an
   earlier message left behind (md5.c:159-257). *)
THEOREM OneShotAlways == DigestSpec => []OneShot
BY DigestInvariant, PTL DEF DigestInv

-----------------------------------------------------------------------------
(* hash_jump_consistent *)

(* n buckets and m = n - 1 draw the same numbers: they jump together until m
   has landed, and then n has one jump left at most, into the new bucket. *)
Together(m, n) ==
  \/ next[m] < m /\ next[n] = next[m] /\ bucket[n] = bucket[m]
  \/ next[m] >= m /\ next[n] = m /\ bucket[n] = bucket[m]
  \/ next[m] >= m /\ next[n] >= n /\ bucket[n] \in {bucket[m], m}

JumpTypes ==
  /\ bucket \in [Buckets -> Int] /\ next \in [Buckets -> Nat]
  /\ \A n \in Buckets : /\ bucket[n] >= -1 /\ (bucket[n] < n \/ bucket[n] = -1)
                        /\ bucket[n] = -1 => next[n] = 0

JumpInv == JumpTypes /\ \A n \in 1 .. MaxBuckets : Together(n - 1, n)

LEMMA JumpInitInv == HashInit => JumpInv
<1>1. MaxBuckets \in Nat
  BY HashkitAssumption
<1>2. \A n \in 1 .. MaxBuckets : n - 1 \in Buckets /\ n \in Buckets /\ n - 1 >= 0
  BY <1>1 DEF Buckets
<1>3. \A n \in Buckets : n \in Nat
  BY <1>1 DEF Buckets
<1>4. ASSUME HashInit, NEW n \in 1 .. MaxBuckets PROVE Together(n - 1, n)
  <2> DEFINE m == n - 1
  <2>1. m \in Buckets /\ n \in Buckets /\ m >= 0 /\ m \in Int
    BY <1>2
  <2> HIDE DEF m
  <2>2. next[m] = 0 /\ next[n] = 0 /\ bucket[m] = -1 /\ bucket[n] = -1
    BY <1>4, <2>1 DEF HashInit
  <2>3. Together(m, n)
    BY <2>1, <2>2 DEF Together
  <2> QED BY <2>3 DEF m
<1>5. HashInit => JumpTypes
  BY <1>3 DEF JumpTypes, HashInit
<1> QED BY <1>4, <1>5 DEF JumpInv

(* A jump goes forward: the number drawn is below 2^31. *)
LEMMA Forward ==
  ASSUME NEW j \in Nat, NEW x \in 0 .. Range31 - 1
  PROVE  ((j + 1) * Range31) \div (x + 1) \in Nat /\ ((j + 1) * Range31) \div (x + 1) >= j + 1
<1> DEFINE b == x + 1
           p == j + 1
           n == p * Range31
           q == n \div b
           r == n % b
<1>1. b \in Nat \ {0} /\ b <= Range31 /\ p \in Nat /\ Range31 \in Nat
  BY HashkitAssumption
<1> HIDE DEF b, p
<1>2. n \in Nat
  BY <1>1
<1> HIDE DEF n
<1>3. q \in Nat /\ r \in 0 .. b - 1 /\ n = q * b + r
  BY <1>1, <1>2, Division
<1> HIDE DEF q, r
<1>4. q >= p
  <2>1. SUFFICES ASSUME q <= p - 1 PROVE FALSE
    BY <1>1, <1>3
  <2>2. (p - 1 - q) * b >= 0 /\ (p - 1 - q) * b = p * b - b - q * b
    BY <1>1, <1>3, <2>1
  <2>3. p * Range31 >= p * b
    <3>1. p * (Range31 - b) >= 0 /\ p * (Range31 - b) = p * Range31 - p * b
      BY <1>1
    <3> QED BY <1>1, <3>1
  <2>4. n = p * Range31
    BY DEF n
  <2> DEFINE P == p * b
             Q == q * b
             R == p * Range31
  <2>5. P \in Int /\ Q \in Int /\ R \in Int /\ P - b - Q >= 0 /\ R >= P /\ R = Q + r
    BY <1>1, <1>3, <2>2, <2>3, <2>4
  <2> HIDE DEF P, Q, R
  <2> QED BY <1>1, <1>3, <2>5
<1> QED BY <1>3, <1>4 DEF p, b, n, q

LEMMA JumpStep ==
  ASSUME JumpInv, Jump PROVE JumpInv'
<1>1. PICK x \in 0 .. Range31 - 1 :
        next' = [n \in Buckets |-> IF Jumping(n) THEN Next31(x, n) ELSE next[n]]
  BY DEF Jump
<1>2. bucket' = [n \in Buckets |-> IF Jumping(n) THEN next[n] ELSE bucket[n]]
  BY DEF Jump
<1>3. /\ bucket \in [Buckets -> Int] /\ next \in [Buckets -> Nat]
      /\ \A n \in Buckets : bucket[n] < n \/ bucket[n] = -1
      /\ \A n \in Buckets : bucket[n] >= -1 
      /\ \A n \in Buckets : bucket[n] = -1 => next[n] = 0
      /\ \A n \in Buckets : n \in Nat
  BY HashkitAssumption DEF JumpInv, JumpTypes, Buckets
(* One bucket number of its own. *)
<1>4. ASSUME NEW n \in Buckets
      PROVE  /\ next[n] >= n => next'[n] = next[n] /\ bucket'[n] = bucket[n]
             /\ next[n] < n => /\ bucket'[n] = next[n] /\ next'[n] \in Nat /\ next'[n] > next[n]
                               /\ next'[n] = ((next[n] + 1) * Range31) \div (x + 1)
  <2>1. next[n] \in Nat /\ n \in Nat
    BY <1>3
  <2>2. CASE next[n] >= n
    BY <1>1, <1>2, <2>1, <2>2 DEF Jumping
  <2>3. CASE next[n] < n
    <3>1. bucket'[n] = next[n] /\ next'[n] = ((next[n] + 1) * Range31) \div (x + 1)
      BY <1>1, <1>2, <2>3 DEF Jumping, Next31
    <3> DEFINE y == ((next[n] + 1) * Range31) \div (x + 1)
    <3>2. y \in Nat /\ y >= next[n] + 1
      BY <2>1, Forward
    <3>3. next'[n] = y
      BY <3>1
    <3> HIDE DEF y
    <3>4. next'[n] \in Nat /\ next'[n] > next[n]
      BY <2>1, <3>2, <3>3
    <3> QED BY <2>1, <2>3, <3>1, <3>4
  <2> QED BY <2>1, <2>2, <2>3
<1>5. JumpTypes'
  <2>1. \A n \in Buckets : next'[n] \in Nat /\ bucket'[n] \in Int
    BY <1>3, <1>4
  <2>2. bucket' \in [Buckets -> Int] /\ next' \in [Buckets -> Nat]
    BY <1>1, <1>2, <2>1
  <2>3. ASSUME NEW n \in Buckets
        PROVE  /\ bucket'[n] >= -1 /\ (bucket'[n] < n \/ bucket'[n] = -1)
               /\ bucket'[n] = -1 => next'[n] = 0
    <3>1. next[n] \in Nat /\ n \in Nat
      BY <1>3
    <3> QED BY <1>3, <1>4, <3>1
  <2> QED BY <2>2, <2>3 DEF JumpTypes
<1>6. ASSUME NEW m \in Buckets, NEW n \in Buckets, n = m + 1, Together(m, n)
      PROVE  Together(m, n)'
  <2>1. m \in Buckets /\ n \in Buckets /\ n = m + 1 /\ m \in Nat /\ n \in Nat
    BY <1>6, HashkitAssumption DEF Buckets
  <2>3. next[m] \in Nat /\ next[n] \in Nat /\ bucket[m] \in Int /\ bucket[n] \in Int
    BY <1>3, <2>1
  <2>4. CASE next[m] < m /\ next[n] = next[m] /\ bucket[n] = bucket[m]
    <3>1. next[n] < n
      BY <2>1, <2>3, <2>4
    <3>2. bucket'[n] = bucket'[m] /\ next'[n] = next'[m] /\ next'[m] \in Nat
      BY <1>4, <2>1, <2>4, <3>1
    <3>3. next'[m] < m \/ next'[m] = m \/ next'[m] >= n
      BY <2>1, <3>2
    <3>4. next'[m] >= n => next'[m] >= m
      BY <2>1, <3>2
    <3> QED BY <2>1, <3>2, <3>3, <3>4 DEF Together
  <2>5. CASE next[m] >= m /\ next[n] = m /\ bucket[n] = bucket[m]
    <3>1. next[n] < n
      BY <2>1, <2>3, <2>5
    <3>2. next'[m] = next[m] /\ bucket'[m] = bucket[m]
      BY <1>4, <2>1, <2>5
    <3>3. bucket'[n] = m /\ next'[n] >= n
      <4>1. bucket'[n] = next[n] /\ next'[n] \in Nat /\ next'[n] > next[n]
        BY <1>4, <2>1, <3>1
      <4> QED BY <2>1, <2>5, <4>1
    <3> QED BY <2>5, <3>2, <3>3 DEF Together
  <2>6. CASE next[m] >= m /\ next[n] >= n /\ bucket[n] \in {bucket[m], m}
    <3>1. next'[m] = next[m] /\ bucket'[m] = bucket[m] /\ next'[n] = next[n] /\ bucket'[n] = bucket[n]
      BY <1>4, <2>1, <2>6
    <3> QED BY <2>6, <3>1 DEF Together
  <2> QED BY <1>6, <2>4, <2>5, <2>6 DEF Together
<1>7. ASSUME NEW n \in 1 .. MaxBuckets PROVE Together(n - 1, n)'
  <2> DEFINE m == n - 1
  <2>1. m \in Buckets /\ n \in Buckets /\ n = m + 1 /\ Together(m, n)
    BY HashkitAssumption DEF Buckets, JumpInv
  <2> HIDE DEF m
  <2>2. Together(m, n)'
    BY <1>6, <2>1
  <2> QED BY <2>2 DEF m
<1> QED BY <1>5, <1>7 DEF JumpInv

LEMMA JumpKept ==
  ASSUME JumpInv, [HashNext]_hashVars PROVE JumpInv'
<1>1. CASE Jump
  BY <1>1, JumpStep
<1>2. CASE UNCHANGED jumpVars
  BY <1>2 DEF jumpVars, JumpInv, JumpTypes, Together
<1>3. Jump \/ UNCHANGED jumpVars
  BY DEF HashNext, hashVars, jumpVars, Call, Round, Finish
<1> QED BY <1>1, <1>2, <1>3

(* For any number of buckets and whatever is drawn, one more bucket moves keys
   only into it, and the answer is always one of the buckets
   (hashkit.c:1005-1018). *)
THEOREM JumpConsistentAlways == HashSpec => []JumpConsistent
<1>1. JumpInv => JumpConsistent
  <2> SUFFICES ASSUME JumpInv, NEW n \in 1 .. MaxBuckets, Landed(n)
               PROVE  /\ JumpValue(n) \in 0 .. n - 1
                      /\ n > 1 /\ Landed(n - 1) => JumpValue(n) \in {JumpValue(n - 1), n - 1}
    BY DEF JumpConsistent
  <2> DEFINE m == n - 1
  <2>1. m \in Buckets /\ n \in Buckets /\ n = m + 1 /\ m \in Nat /\ n \in Nat /\ n >= 1
    BY HashkitAssumption DEF Buckets
  <2>2. Together(m, n)
    BY DEF JumpInv
  <2> HIDE DEF m
  <2>3. /\ next[m] \in Nat /\ next[n] \in Nat /\ bucket[m] \in Int /\ bucket[n] \in Int
        /\ bucket[n] >= -1 /\ (bucket[n] < n \/ bucket[n] = -1)
        /\ bucket[n] = -1 => next[n] = 0
    BY <2>1 DEF JumpInv, JumpTypes
  <2>4. bucket[m] >= -1 /\ (bucket[m] = -1 => next[m] = 0)
    BY <2>1 DEF JumpInv, JumpTypes
  <2>5. JumpValue(n) = bucket[n] /\ bucket[n] \in 0 .. n - 1
    BY <2>1, <2>3 DEF Landed, JumpValue
  <2>6. ASSUME n > 1, Landed(m) PROVE bucket[n] \in {JumpValue(m), m}
    <3>1. bucket[n] \in {bucket[m], m}
      BY <2>1, <2>2, <2>3, <2>6 DEF Together, Landed
    <3>2. JumpValue(m) = bucket[m]
      BY <2>1, <2>3, <2>4, <2>6 DEF Landed, JumpValue
    <3> QED BY <3>1, <3>2
  <2> QED BY <2>5, <2>6 DEF m
<1>2. HashSpec => []JumpInv
  BY JumpInitInv, JumpKept, PTL DEF HashSpec
<1> QED BY <1>1, <1>2, PTL

-----------------------------------------------------------------------------
(* The reads of the key: which terms they add *)

(* The bytes from p on, n of four at most, each at its own bit. *)
Little(p, n) == {<<p + k, 8 * k>> : k \in {j \in 0 .. 3 : j < n}}

OneOf(t, p, n) == \/ n > 0 /\ t = <<p, 0>>
                  \/ n > 1 /\ t = <<p + 1, 8>>
                  \/ n > 2 /\ t = <<p + 2, 16>>
                  \/ n > 3 /\ t = <<p + 3, 24>>

LEMMA ByteIs == \A p, t : t \in Byte(p) <=> t = <<p, 0>>
BY DEF Byte

LEMMA HalfIs ==
  ASSUME NEW p \in Int
  PROVE  \A t : t \in Half(p) <=> t = <<p, 0>> \/ t = <<p + 1, 8>>
<1>1. Shift(Byte(p + 1), 8) = {<<p + 1, 8>>}
  BY DEF Shift, Byte
<1> QED BY <1>1 DEF Half, Byte

LEMMA UpperHalf ==
  ASSUME NEW p \in Int
  PROVE  Shift(Half(p + 2), 16) = {<<p + 2, 16>>, <<p + 3, 24>>}
<1>1. Half(p + 2) = {<<p + 2, 0>>, <<p + 3, 8>>}
  <2>1. p + 2 \in Int /\ p + 2 + 1 = p + 3
    OBVIOUS
  <2> QED BY <2>1, HalfIs
<1>2. \A t : t \in Shift(Half(p + 2), 16) <=> \E x \in Half(p + 2) : t = <<x[1], x[2] + 16>>
  BY DEF Shift
<1> DEFINE a == <<p + 2, 0>>
           b == <<p + 3, 8>>
<1>4. <<a[1], a[2] + 16>> = <<p + 2, 16>> /\ <<b[1], b[2] + 16>> = <<p + 3, 24>>
  OBVIOUS
<1>5. Half(p + 2) = {a, b}
  BY <1>1
<1> HIDE DEF a, b
<1>6. \A t : t \in Shift(Half(p + 2), 16) <=> t = <<a[1], a[2] + 16>> \/ t = <<b[1], b[2] + 16>>
  BY <1>2, <1>5, Zenon
<1>3. \A t : t \in Shift(Half(p + 2), 16) <=> t = <<p + 2, 16>> \/ t = <<p + 3, 24>>
  BY <1>4, <1>6, Zenon
<1> QED BY <1>3

LEMMA WordIs ==
  ASSUME NEW p \in Int
  PROVE  \A t : t \in Word(p) <=> \/ t = <<p, 0>> \/ t = <<p + 1, 8>>
                                  \/ t = <<p + 2, 16>> \/ t = <<p + 3, 24>>
<1>1. Half(p) = {<<p, 0>>, <<p + 1, 8>>}
  BY HalfIs
<1>3. Shift(Half(p + 2), 16) = {<<p + 2, 16>>, <<p + 3, 24>>}
  BY UpperHalf
<1> QED BY <1>1, <1>3 DEF Word

LEMMA LittleIs ==
  ASSUME NEW p \in Int, NEW n \in Int
  PROVE  \A t : t \in Little(p, n) <=> OneOf(t, p, n)
<1> DEFINE K == {j \in 0 .. 3 : j < n}
           F(k) == <<p + k, 8 * k>>
<1>1. \A k : k \in K <=> \/ (k = 0 /\ n > 0) \/ (k = 1 /\ n > 1)
                        \/ (k = 2 /\ n > 2) \/ (k = 3 /\ n > 3)
  OBVIOUS
<1>2. \A t : t \in Little(p, n) <=> \E k \in K : t = F(k)
  BY DEF Little
<1>3. F(0) = <<p, 0>> /\ F(1) = <<p + 1, 8>> /\ F(2) = <<p + 2, 16>> /\ F(3) = <<p + 3, 24>>
  OBVIOUS
<1> HIDE DEF K, F
<1>4. \A t : (\E k \in K : t = F(k)) <=> \/ (n > 0 /\ t = F(0)) \/ (n > 1 /\ t = F(1))
                                        \/ (n > 2 /\ t = F(2)) \/ (n > 3 /\ t = F(3))
  BY <1>1, Zenon
<1> QED BY <1>2, <1>3, <1>4, Zenon DEF OneOf

LEMMA WordsAre ==
  ASSUME NEW p \in Int, NEW n \in Int PROVE Words(p, n) = Little(p, n)
<1>1. \A t : t \in Words(p, n) <=> t \in Word(p) /\ t[2] < 8 * n
  BY DEF Words, Mask
<1>2. \A t : t \in Words(p, n) <=> t \in Little(p, n)
  <2>1. ASSUME NEW t PROVE t \in Words(p, n) <=> t \in Little(p, n)
    BY <1>1, WordIs, LittleIs DEF OneOf
  <2> QED BY <2>1
<1> QED BY <1>2

LEMMA HalvesAre ==
  ASSUME NEW p \in Int, NEW n \in Int PROVE Halves(p, n) = Little(p, n)
<1> DEFINE first == IF n >= 2 THEN Half(p) ELSE IF n = 1 THEN Byte(p) ELSE {}
           second == IF n >= 4 THEN Shift(Half(p + 2), 16) ELSE IF n = 3 THEN Shift(Byte(p + 2), 16) ELSE {}
<1>1. \A t : t \in first <=> (n > 0 /\ t = <<p, 0>>) \/ (n > 1 /\ t = <<p + 1, 8>>)
  BY HalfIs, ByteIs
<1>3. Shift(Half(p + 2), 16) = {<<p + 2, 16>>, <<p + 3, 24>>}
  BY UpperHalf
<1>4. Shift(Byte(p + 2), 16) = {<<p + 2, 16>>}
  BY DEF Shift, Byte
<1>5. \A t : t \in second <=> (n > 2 /\ t = <<p + 2, 16>>) \/ (n > 3 /\ t = <<p + 3, 24>>)
  BY <1>3, <1>4
<1>6. Halves(p, n) = first \cup second
  BY DEF Halves
<1> HIDE DEF first, second
<1>7. \A t : t \in Halves(p, n) <=> t \in Little(p, n)
  BY <1>1, <1>5, <1>6, LittleIs DEF OneOf
<1> QED BY <1>7

(* The bytes, one by one: n of them are left, four are read at most. *)
LEMMA BytesAre ==
  ASSUME NEW p \in Int, NEW n \in Int PROVE Bytes(p, n) = Little(p, n)
<1> DEFINE K == 0 .. (IF n < 4 THEN n ELSE 4) - 1
<1>1. \A k : k \in K <=> \/ (k = 0 /\ n > 0) \/ (k = 1 /\ n > 1)
                        \/ (k = 2 /\ n > 2) \/ (k = 3 /\ n > 3)
  OBVIOUS
<1> DEFINE F(k) == <<p + k, 0 + 8 * k>>
<1>2. \A k : Shift(Byte(p + k), 8 * k) = {F(k)}
  BY DEF Shift, Byte
<1>3. Bytes(p, n) = UNION {Shift(Byte(p + k), 8 * k) : k \in K}
  BY DEF Bytes
<1>4. F(0) = <<p, 0>> /\ F(1) = <<p + 1, 8>> /\ F(2) = <<p + 2, 16>> /\ F(3) = <<p + 3, 24>>
  OBVIOUS
<1> HIDE DEF K, F
<1>5. \A t : t \in Bytes(p, n) <=> \E k \in K : t \in Shift(Byte(p + k), 8 * k)
  BY <1>3
<1>6. \A t : t \in Bytes(p, n) <=> \E k \in K : t = F(k)
  BY <1>2, <1>5
<1>7. \A t : (\E k \in K : t = F(k)) <=> \/ (n > 0 /\ t = F(0)) \/ (n > 1 /\ t = F(1))
                                        \/ (n > 2 /\ t = F(2)) \/ (n > 3 /\ t = F(3))
  BY <1>1, Zenon
<1>8. \A t : t \in Bytes(p, n) <=> OneOf(t, p, n)
  BY <1>4, <1>6, <1>7, Zenon DEF OneOf
<1> QED BY <1>8, LittleIs

(* Three ways to read four bytes, one outcome. *)
LEMMA JenkinsReads ==
  ASSUME NEW p \in Int, NEW n \in Int PROVE JenkinsRead(p, n) = Little(p, n)
BY WordsAre, HalvesAre, BytesAre DEF JenkinsRead

LEMMA MurmurReads ==
  ASSUME NEW p \in Int, NEW n \in 0 .. 3
  PROVE  UNION {Shift(Byte(p + k), 8 * k) : k \in 0 .. n - 1} = Little(p, n)
<1>1. (IF n < 4 THEN n ELSE 4) - 1 = n - 1
  OBVIOUS
<1>2. Bytes(p, n) = UNION {Shift(Byte(p + k), 8 * k) : k \in 0 .. n - 1}
  BY <1>1 DEF Bytes
<1> QED BY <1>2, BytesAre

-----------------------------------------------------------------------------
(* The rounds: each register of each takes the next few bytes *)

Regs  == CASE fn = "hsieh" -> 2 [] fn = "jenkins" -> 3 [] OTHER -> 1
Width == CASE fn = "bytewise" -> 1 [] fn = "hsieh" -> 2 [] OTHER -> 4

Reads  == SUBSET (Int \X Int)
Shapes == [1 .. 1 -> Reads] \cup [1 .. 2 -> Reads] \cup [1 .. 3 -> Reads]

(* The terms T take the bytes of the key from low on, width of them. *)
Takes(T, low, width) ==
  /\ \A t \in T : t[1] \in 0 .. key.length - 1 /\ low <= t[1] /\ t[1] < low + width
  /\ \A k \in 0 .. key.length - 1 : low <= k /\ k < low + width => \E t \in T : t[1] = k
  /\ fn = "jenkins" => \A t \in T : t = <<low + t[2] \div 8, t[2]>>

RoundOK(R, i) ==
  DOMAIN R = 1 .. Regs /\ \A r \in 1 .. Regs : Takes(R[r], Step * (i - 1) + Width * (r - 1), Width)

KeyInv ==
  /\ fn \in Functions \cup {"none"} /\ ended \in BOOLEAN
  /\ key \in [length : Nat, align : 0 .. 3] /\ left \in 0 .. key.length /\ rounds \in Seq(Shapes)
  /\ fn = "none" => rounds = <<>> /\ ended = FALSE
  /\ \A i \in 1 .. Len(rounds) : RoundOK(rounds[i], i)
  /\ fn # "none" /\ ended = FALSE => At = Step * Len(rounds)
  /\ ended = TRUE => /\ key.length <= Step * Len(rounds)
                     /\ Step * Len(rounds) < key.length + Step

LEMMA LittleTakes ==
  ASSUME NEW p \in Nat, NEW n \in Int, key.length \in Nat, n = key.length - p
  PROVE  Little(p, n) \in Reads /\ Takes(Little(p, n), p, 4)
<1> DEFINE T == Little(p, n)
           z == key.length
<1>1. \A t : t \in T <=> OneOf(t, p, n)
  BY LittleIs
<1>2. z \in Nat /\ n = z - p
  OBVIOUS
<1> HIDE DEF T, z
<1>3. ASSUME NEW t \in T
      PROVE  t \in Int \X Int /\ t[1] \in 0 .. z - 1 /\ p <= t[1] /\ t[1] < p + 4
             /\ t = <<p + t[2] \div 8, t[2]>>
  <2>1. OneOf(t, p, n)
    BY <1>1
  <2>2. CASE n > 0 /\ t = <<p, 0>>
    BY <1>2, <2>2
  <2>3. CASE n > 1 /\ t = <<p + 1, 8>>
    BY <1>2, <2>3
  <2>4. CASE n > 2 /\ t = <<p + 2, 16>>
    BY <1>2, <2>4
  <2>5. CASE n > 3 /\ t = <<p + 3, 24>>
    BY <1>2, <2>5
  <2> QED BY <2>1, <2>2, <2>3, <2>4, <2>5 DEF OneOf
<1>4. ASSUME NEW k \in 0 .. z - 1, p <= k, k < p + 4 PROVE \E t \in T : t[1] = k
  <2>1. (n > 0 /\ k = p) \/ (n > 1 /\ k = p + 1) \/ (n > 2 /\ k = p + 2) \/ (n > 3 /\ k = p + 3)
    BY <1>2, <1>4
  <2>2. CASE n > 0 /\ k = p
    <3>1. <<p, 0>> \in T
      BY <1>1, <2>2 DEF OneOf
    <3> QED BY <2>2, <3>1
  <2>3. CASE n > 1 /\ k = p + 1
    <3>1. <<p + 1, 8>> \in T
      BY <1>1, <2>3 DEF OneOf
    <3> QED BY <2>3, <3>1
  <2>4. CASE n > 2 /\ k = p + 2
    <3>1. <<p + 2, 16>> \in T
      BY <1>1, <2>4 DEF OneOf
    <3> QED BY <2>4, <3>1
  <2>5. CASE n > 3 /\ k = p + 3
    <3>1. <<p + 3, 24>> \in T
      BY <1>1, <2>5 DEF OneOf
    <3> QED BY <2>5, <3>1
  <2> QED BY <2>1, <2>2, <2>3, <2>4, <2>5
<1>5. T \in Reads
  BY <1>3 DEF Reads
<1>6. Takes(T, p, 4)
  <2>1. /\ \A t \in T : t[1] \in 0 .. z - 1 /\ p <= t[1] /\ t[1] < p + 4 /\ t = <<p + t[2] \div 8, t[2]>>
        /\ \A k \in 0 .. z - 1 : p <= k /\ k < p + 4 => \E t \in T : t[1] = k
    BY <1>3, <1>4
  <2> QED BY <2>1, Zenon DEF Takes, z
<1> QED BY <1>5, <1>6 DEF T

(* The first one or two of the bytes. *)
LEMMA ByteTakes ==
  ASSUME NEW p \in Nat, p < key.length, key.length \in Nat
  PROVE  Byte(p) \in Reads /\ (fn # "jenkins" => Takes(Byte(p), p, 1))
<1> DEFINE z == key.length
           T == Byte(p)
<1>1. \A t : t \in T <=> t = <<p, 0>>
  BY ByteIs
<1>2. z \in Nat /\ p < z
  OBVIOUS
<1> HIDE DEF z, T
<1>3. ASSUME NEW t \in T PROVE t \in Int \X Int /\ t[1] \in 0 .. z - 1 /\ p <= t[1] /\ t[1] < p + 1
  BY <1>1, <1>2
<1>4. ASSUME NEW k \in 0 .. z - 1, p <= k, k < p + 1 PROVE \E t \in T : t[1] = k
  <2>1. k = p /\ <<p, 0>> \in T
    BY <1>1, <1>2, <1>4
  <2> QED BY <2>1
<1> QED BY <1>3, <1>4 DEF Takes, Reads, T, z

LEMMA HalfTakes ==
  ASSUME NEW p \in Nat, p + 1 < key.length, key.length \in Nat
  PROVE  Half(p) \in Reads /\ (fn # "jenkins" => Takes(Half(p), p, 2))
<1> DEFINE z == key.length
           T == Half(p)
<1>1. \A t : t \in T <=> t = <<p, 0>> \/ t = <<p + 1, 8>>
  BY HalfIs
<1>2. z \in Nat /\ p + 1 < z
  OBVIOUS
<1> HIDE DEF z, T
<1>3. ASSUME NEW t \in T PROVE t \in Int \X Int /\ t[1] \in 0 .. z - 1 /\ p <= t[1] /\ t[1] < p + 2
  BY <1>1, <1>2
<1>4. ASSUME NEW k \in 0 .. z - 1, p <= k, k < p + 2 PROVE \E t \in T : t[1] = k
  <2>1. <<p, 0>> \in T /\ <<p + 1, 8>> \in T /\ (k = p \/ k = p + 1)
    BY <1>1, <1>2, <1>4
  <2> QED BY <2>1
<1> QED BY <1>3, <1>4 DEF Takes, Reads, T, z

(* Adding the bytes at other bits takes the same bytes. *)
LEMMA ShiftTakes ==
  ASSUME NEW T \in Reads, NEW s \in Int, NEW low \in Nat, NEW w \in Nat,
         fn # "jenkins", Takes(T, low, w)
  PROVE  Shift(T, s) \in Reads /\ Takes(Shift(T, s), low, w)
<1> DEFINE S == Shift(T, s)
<1>1. \A t : t \in S <=> \E x \in T : t = <<x[1], x[2] + s>>
  BY DEF Shift
<1> HIDE DEF S
<1>2. ASSUME NEW t \in S PROVE t \in Int \X Int /\ \E x \in T : t[1] = x[1]
  <2>1. PICK x \in T : t = <<x[1], x[2] + s>>
    BY <1>1
  <2>2. x[1] \in Int /\ x[2] \in Int
    BY DEF Reads
  <2> QED BY <2>1, <2>2
<1>3. ASSUME NEW x \in T PROVE \E t \in S : t[1] = x[1]
  <2>1. <<x[1], x[2] + s>> \in S /\ <<x[1], x[2] + s>>[1] = x[1]
    BY <1>1
  <2> QED BY <2>1
<1>4. S \in Reads
  BY <1>2 DEF Reads
<1>5. Takes(S, low, w)
  <2>1. ASSUME NEW t \in S PROVE t[1] \in 0 .. key.length - 1 /\ low <= t[1] /\ t[1] < low + w
    BY <1>2 DEF Takes
  <2>2. ASSUME NEW k \in 0 .. key.length - 1, low <= k, k < low + w PROVE \E t \in S : t[1] = k
    <3>1. PICK x \in T : x[1] = k
      BY <2>2 DEF Takes
    <3> QED BY <1>3, <3>1
  <2> QED BY <2>1, <2>2 DEF Takes
<1> QED BY <1>4, <1>5 DEF S

(* One that takes fewer bytes takes all there are. *)
LEMMA LastTakes ==
  ASSUME NEW T, NEW low \in Nat, NEW v \in Nat, NEW w \in Nat, v <= w, key.length \in Nat,
         key.length <= low + v, Takes(T, low, v)
  PROVE  Takes(T, low, w)
<1>1. \A k \in 0 .. key.length - 1 : k < low + v
  OBVIOUS
<1>2. \A t \in T : t[1] \in 0 .. key.length - 1 /\ low <= t[1] /\ t[1] < low + w
  BY <1>1 DEF Takes
<1> QED BY <1>1, <1>2 DEF Takes

(* What KeyInv says of a hash that runs. *)
LEMMA CallRunning ==
  ASSUME KeyInv, fn # "none", ~ended
  PROVE  /\ fn \in Functions /\ key.length \in Nat /\ left \in Nat /\ At \in Nat
         /\ left = key.length - At /\ At = Step * Len(rounds) /\ Len(rounds) \in Nat
         /\ rounds \in Seq(Shapes) /\ key.align \in 0 .. 3
<1>1. /\ key.length \in Nat /\ left \in 0 .. key.length /\ rounds \in Seq(Shapes) /\ fn \in Functions
      /\ ended = FALSE /\ key.align \in 0 .. 3
  BY DEF KeyInv
<1>2. left \in Nat /\ At \in Nat /\ left = key.length - At
  BY <1>1 DEF At
<1>3. At = Step * Len(rounds)
  BY <1>1 DEF KeyInv
<1> QED BY <1>1, <1>2, <1>3

(* A round made of registers that take the bytes in turn, from At on. *)
LEMMA NewRound ==
  ASSUME KeyInv, fn # "none", ~ended, NEW R \in Shapes, DOMAIN R = 1 .. Regs,
         \A r \in 1 .. Regs : Takes(R[r], At + Width * (r - 1), Width),
         UNCHANGED <<fn, key>>, rounds' = Append(rounds, R)
  PROVE  /\ rounds' \in Seq(Shapes) /\ Len(rounds') = Len(rounds) + 1
         /\ \A i \in 1 .. Len(rounds') : RoundOK(rounds[i], i)'
<1> DEFINE n == Len(rounds)
<1>1. rounds \in Seq(Shapes) /\ n \in Nat /\ At = Step * n /\ \A i \in 1 .. n : RoundOK(rounds[i], i)
  BY CallRunning DEF KeyInv
<1>2. /\ rounds' \in Seq(Shapes) /\ Len(rounds') = n + 1 /\ rounds'[n + 1] = R
      /\ \A i \in 1 .. n : rounds'[i] = rounds[i]
  BY <1>1
<1> HIDE DEF n
<1>3. RoundOK(R, n + 1)
  <2>1. n + 1 - 1 = n
    BY <1>1
  <2> QED BY <1>1, <2>1 DEF RoundOK
<1>4. \A i \in 1 .. n + 1 : RoundOK(rounds'[i], i)
  <2>1. \A i \in 1 .. n + 1 : i \in 1 .. n \/ i = n + 1
    BY <1>1
  <2> QED BY <1>1, <1>2, <1>3, <2>1
<1>5. Regs' = Regs /\ Step' = Step /\ Width' = Width
  BY DEF Regs, Step, Width
<1>6. ASSUME NEW i \in 1 .. n + 1 PROVE RoundOK(rounds[i], i)'
  <2>1. RoundOK(rounds'[i], i)
    BY <1>4
  <2> QED BY <1>5, <2>1 DEF RoundOK, Takes
<1> QED BY <1>2, <1>6 DEF n

LEMMA JenkinsTakes ==
  ASSUME KeyInv, fn = "jenkins", ~ended
  PROVE  /\ JenkinsRound \in Shapes /\ DOMAIN JenkinsRound = 1 .. Regs
         /\ \A r \in 1 .. Regs : Takes(JenkinsRound[r], At + Width * (r - 1), Width)
<1>1. key.length \in Nat /\ left \in Nat /\ At \in Nat /\ left = key.length - At
  BY CallRunning
<1>2. Regs = 3 /\ Width = 4
  BY DEF Regs, Width
<1> DEFINE a == At
           z == key.length
<1>3. ASSUME NEW r \in 1 .. 3
      PROVE  JenkinsRound[r] \in Reads /\ Takes(JenkinsRound[r], At + 4 * (r - 1), 4)
  <2> DEFINE p == a + 4 * (r - 1)
             n == left - 4 * (r - 1)
  <2>1. a \in Nat /\ z \in Nat /\ left = z - a
    BY <1>1
  <2>2. JenkinsRound[r] = JenkinsRead(p, n)
    BY DEF JenkinsRound
  <2> HIDE DEF a, z
  <2>3. p \in Nat /\ n \in Int /\ n = z - p
    BY <2>1
  <2> HIDE DEF p, n
  <2>4. JenkinsRound[r] = Little(p, n)
    BY <2>2, <2>3, JenkinsReads
  <2>5. Little(p, n) \in Reads /\ Takes(Little(p, n), p, 4)
    BY <1>1, <2>3, LittleTakes DEF z
  <2> QED BY <2>4, <2>5 DEF p, a
<1>4. JenkinsRound \in [1 .. 3 -> Reads] /\ DOMAIN JenkinsRound = 1 .. 3
  BY <1>3 DEF JenkinsRound
<1> QED BY <1>2, <1>3, <1>4 DEF Shapes

(* One register, or two. *)
LEMMA OneTakes ==
  ASSUME NEW T \in Reads, Regs = 1, At \in Nat, Takes(T, At, Width), Width \in Nat
  PROVE  /\ <<T>> \in Shapes /\ DOMAIN <<T>> = 1 .. Regs
         /\ \A r \in 1 .. Regs : Takes(<<T>>[r], At + Width * (r - 1), Width)
<1>1. <<T>> \in [1 .. 1 -> Reads] /\ DOMAIN <<T>> = 1 .. 1
  OBVIOUS
<1>2. ASSUME NEW r \in 1 .. 1 PROVE Takes(<<T>>[r], At + Width * (r - 1), Width)
  <2>1. r = 1 /\ At + Width * (r - 1) = At /\ <<T>>[r] = T
    OBVIOUS
  <2> QED BY <2>1
<1> QED BY <1>1, <1>2 DEF Shapes

LEMMA TwoTake ==
  ASSUME NEW T \in Reads, NEW U \in Reads, Regs = 2, Width = 2, At \in Nat,
         Takes(T, At, 2), Takes(U, At + 2, 2)
  PROVE  /\ <<T, U>> \in Shapes /\ DOMAIN <<T, U>> = 1 .. Regs
         /\ \A r \in 1 .. Regs : Takes(<<T, U>>[r], At + Width * (r - 1), Width)
<1>1. <<T, U>> \in [1 .. 2 -> Reads] /\ DOMAIN <<T, U>> = 1 .. 2
  OBVIOUS
<1>2. ASSUME NEW r \in 1 .. 2 PROVE Takes(<<T, U>>[r], At + 2 * (r - 1), 2)
  <2>1. CASE r = 1
    <3>1. At + 2 * (r - 1) = At /\ <<T, U>>[r] = T
      BY <2>1
    <3> QED BY <3>1
  <2>2. CASE r = 2
    <3>1. At + 2 * (r - 1) = At + 2 /\ <<T, U>>[r] = U
      BY <2>2
    <3> QED BY <3>1
  <2> QED BY <2>1, <2>2
<1> QED BY <1>1, <1>2 DEF Shapes

LEMMA RoundStep ==
  ASSUME KeyInv, Round PROVE KeyInv'
<1>1. /\ fn # "none" /\ ~ended /\ Loops /\ left' = left - Step /\ UNCHANGED <<fn, key, ended>>
      /\ rounds' = Append(rounds, CASE fn = "bytewise" -> <<Byte(At)>>
                                    [] fn = "hsieh"    -> HsiehRound
                                    [] fn = "murmur"   -> <<Word(At)>>
                                    [] fn = "jenkins"  -> JenkinsRound)
  BY DEF Round
<1>2. /\ fn \in Functions /\ key.length \in Nat /\ left \in Nat /\ At \in Nat
      /\ left = key.length - At /\ At = Step * Len(rounds) /\ Len(rounds) \in Nat
  BY <1>1, CallRunning
<1> DEFINE Kept == /\ rounds' \in Seq(Shapes) /\ Len(rounds') = Len(rounds) + 1
                   /\ \A i \in 1 .. Len(rounds') : RoundOK(rounds[i], i)'
<1>3. ASSUME fn = "bytewise" PROVE Kept
  <2>1. Regs = 1 /\ Width = 1 /\ left > 0 /\ At < key.length
    BY <1>1, <1>2, <1>3 DEF Regs, Width, Loops
  <2>2. Byte(At) \in Reads /\ Takes(Byte(At), At, Width)
    BY <1>2, <1>3, <2>1, ByteTakes
  <2> DEFINE R == <<Byte(At)>>
  <2>3. R \in Shapes /\ DOMAIN R = 1 .. Regs /\ \A r \in 1 .. Regs : Takes(R[r], At + Width * (r - 1), Width)
    BY <1>2, <2>1, <2>2, OneTakes
  <2>4. rounds' = Append(rounds, R)
    BY <1>1, <1>3
  <2> HIDE DEF R
  <2>5. Kept
    BY <1>1, <2>3, <2>4, NewRound
  <2> QED BY <2>5
<1>4. ASSUME fn = "hsieh" PROVE Kept
  <2>1. Regs = 2 /\ Width = 2 /\ left >= 4 /\ At + 3 < key.length
    BY <1>1, <1>2, <1>4 DEF Regs, Width, Loops
  <2>2. Half(At) \in Reads /\ Takes(Half(At), At, 2)
    <3>1. At + 1 < key.length
      BY <1>2, <2>1
    <3> QED BY <1>2, <1>4, <3>1, HalfTakes
  <2>3. Shift(Half(At + 2), 11) \in Reads /\ Takes(Shift(Half(At + 2), 11), At + 2, 2)
    <3> DEFINE p == At + 2
    <3>1. p \in Nat /\ p + 1 < key.length
      BY <1>2, <2>1
    <3> HIDE DEF p
    <3>2. Half(p) \in Reads /\ Takes(Half(p), p, 2)
      BY <1>2, <1>4, <3>1, HalfTakes
    <3>3. Shift(Half(p), 11) \in Reads /\ Takes(Shift(Half(p), 11), p, 2)
      BY <1>4, <3>1, <3>2, ShiftTakes
    <3> QED BY <3>3 DEF p
  <2> DEFINE R == HsiehRound
  <2>4. R \in Shapes /\ DOMAIN R = 1 .. Regs /\ \A r \in 1 .. Regs : Takes(R[r], At + Width * (r - 1), Width)
    <3> DEFINE T == Half(At)
               U == Shift(Half(At + 2), 11)
    <3>1. T \in Reads /\ U \in Reads /\ Takes(T, At, 2) /\ Takes(U, At + 2, 2) /\ R = <<T, U>>
      BY <2>2, <2>3 DEF HsiehRound
    <3> HIDE DEF T, U, R
    <3> QED BY <1>2, <2>1, <3>1, TwoTake
  <2>5. rounds' = Append(rounds, R)
    BY <1>1, <1>4
  <2> HIDE DEF R
  <2>6. Kept
    BY <1>1, <2>4, <2>5, NewRound
  <2> QED BY <2>6
<1>5. ASSUME fn = "murmur" PROVE Kept
  <2>1. Regs = 1 /\ Width = 4 /\ left >= 4
    BY <1>1, <1>2, <1>5 DEF Regs, Width, Loops
  <2>2. Word(At) = Little(At, left)
    <3>1. \A t : t \in Word(At) <=> t \in Little(At, left)
      <4>1. left > 0 /\ left > 1 /\ left > 2 /\ left > 3
        BY <1>2, <2>1
      <4>2. \A t : t \in Little(At, left) <=> OneOf(t, At, left)
        BY <1>2, LittleIs
      <4>3. \A t : t \in Word(At) <=> \/ t = <<At, 0>> \/ t = <<At + 1, 8>>
                                      \/ t = <<At + 2, 16>> \/ t = <<At + 3, 24>>
        BY <1>2, WordIs
      <4> QED BY <4>1, <4>2, <4>3, Zenon DEF OneOf
    <3> QED BY <3>1
  <2>3. Little(At, left) \in Reads /\ Takes(Little(At, left), At, Width)
    BY <1>2, <2>1, LittleTakes
  <2> DEFINE R == <<Word(At)>>
  <2>4. R \in Shapes /\ DOMAIN R = 1 .. Regs /\ \A r \in 1 .. Regs : Takes(R[r], At + Width * (r - 1), Width)
    BY <1>2, <2>1, <2>2, <2>3, OneTakes
  <2>5. rounds' = Append(rounds, R)
    BY <1>1, <1>5
  <2> HIDE DEF R
  <2>6. Kept
    BY <1>1, <2>4, <2>5, NewRound
  <2> QED BY <2>6
<1>6. ASSUME fn = "jenkins" PROVE Kept
  <2> DEFINE R == JenkinsRound
  <2>1. R \in Shapes /\ DOMAIN R = 1 .. Regs /\ \A r \in 1 .. Regs : Takes(R[r], At + Width * (r - 1), Width)
    BY <1>1, <1>6, JenkinsTakes
  <2>2. rounds' = Append(rounds, R)
    BY <1>1, <1>6
  <2> HIDE DEF R
  <2>3. Kept
    BY <1>1, <2>1, <2>2, NewRound
  <2> QED BY <2>3
<1>7. Kept
  BY <1>2, <1>3, <1>4, <1>5, <1>6 DEF Functions
<1> HIDE DEF Kept
<1>8. left' \in 0 .. key'.length /\ At' = Step' * Len(rounds')
  <2> DEFINE n == Len(rounds)
             z == key.length
  <2>1. /\ n \in Nat /\ Len(rounds') = n + 1 /\ z \in Nat /\ left = z - Step * n /\ left \in Nat
        /\ left' = left - Step /\ At' = z - left' /\ Step' = Step /\ key' = key
        /\ Step \in {1, 4, 12} /\ Step <= left
    <3>1. n \in Nat /\ Len(rounds') = n + 1 /\ z \in Nat /\ left \in Nat /\ left' = left - Step /\ key' = key
      BY <1>1, <1>2, <1>7 DEF Kept
    <3>2. Step \in {1, 4, 12} /\ Step <= left /\ Step' = Step
      BY <1>1, <1>2 DEF Step, Loops, Functions
    <3>3. At' = z - left' /\ left = z - Step * n
      <4>1. left = z - At /\ At = Step * n
        BY <1>2
      <4> QED BY <3>1, <4>1 DEF At
    <3> QED BY <3>1, <3>2, <3>3
  <2>2. key'.length = z
    BY <2>1
  <2> HIDE DEF n, z
  <2> QED BY <2>1, <2>2
<1> QED BY <1>1, <1>7, <1>8 DEF Kept, KeyInv

LEMMA FinishStep ==
  ASSUME KeyInv, Finish PROVE KeyInv'
<1>1. /\ fn # "none" /\ ~ended /\ ~Loops /\ ended' = TRUE /\ UNCHANGED <<fn, key, left>>
      /\ rounds' = IF left = 0 THEN rounds
                   ELSE Append(rounds, CASE fn = "hsieh"   -> HsiehTail
                                         [] fn = "murmur"  -> MurmurTail
                                         [] fn = "jenkins" -> JenkinsRound)
  BY DEF Finish
<1>2. /\ fn \in Functions /\ key.length \in Nat /\ left \in Nat /\ At \in Nat
      /\ left = key.length - At /\ At = Step * Len(rounds) /\ Len(rounds) \in Nat
  BY <1>1, CallRunning
<1>3. left <= Step /\ (fn = "bytewise" => left = 0) /\ (fn \in {"hsieh", "murmur"} => left <= 3)
  BY <1>1, <1>2 DEF Loops, Step, Functions
<1> DEFINE n == Len(rounds)
           Kept == /\ rounds' \in Seq(Shapes)
                   /\ Len(rounds') = IF left = 0 THEN n ELSE n + 1
                   /\ \A i \in 1 .. Len(rounds') : RoundOK(rounds[i], i)'
<1>4. ASSUME left = 0 PROVE Kept
  <2>1. rounds' = rounds /\ \A i \in 1 .. n : RoundOK(rounds[i], i)
    BY <1>1, <1>4 DEF KeyInv
  <2>2. \A i \in 1 .. n : RoundOK(rounds[i], i)'
    BY <1>1, <2>1 DEF RoundOK, Takes, Regs, Step, Width
  <2>3. rounds' \in Seq(Shapes) /\ Len(rounds') = n
    BY <2>1 DEF KeyInv
  <2> HIDE DEF n
  <2> QED BY <1>4, <2>2, <2>3
<1>5. ASSUME left # 0, fn = "hsieh" PROVE Kept
  <2>1. Regs = 2 /\ Width = 2 /\ left \in {1, 2, 3}
    BY <1>2, <1>3, <1>5 DEF Regs, Width
  <2>2. {} \in Reads /\ (left < 3 => Takes({}, At + 2, 2))
    <3>1. left < 3 => \A k \in 0 .. key.length - 1 : ~(At + 2 <= k)
      BY <1>2
    <3> QED BY <3>1 DEF Reads, Takes
  <2>3. left > 1 => Half(At) \in Reads /\ Takes(Half(At), At, 2)
    BY <1>2, <1>5, HalfTakes
  <2>4. left = 1 => Byte(At) \in Reads /\ Takes(Byte(At), At, 2)
    <3>1. ASSUME left = 1 PROVE Byte(At) \in Reads /\ Takes(Byte(At), At, 2)
      <4>1. At < key.length /\ key.length <= At + 1
        BY <1>2, <3>1
      <4>2. Byte(At) \in Reads /\ Takes(Byte(At), At, 1)
        BY <1>2, <1>5, <4>1, ByteTakes
      <4> QED BY <1>2, <4>1, <4>2, LastTakes
    <3> QED BY <3>1
  <2>5. left = 3 => Shift(Byte(At + 2), 18) \in Reads /\ Takes(Shift(Byte(At + 2), 18), At + 2, 2)
    <3>1. ASSUME left = 3
          PROVE  Shift(Byte(At + 2), 18) \in Reads /\ Takes(Shift(Byte(At + 2), 18), At + 2, 2)
      <4> DEFINE p == At + 2
      <4>1. p \in Nat /\ p < key.length /\ key.length <= p + 1
        BY <1>2, <3>1
      <4> HIDE DEF p
      <4>2. Byte(p) \in Reads /\ Takes(Byte(p), p, 1)
        BY <1>2, <1>5, <4>1, ByteTakes
      <4>3. Takes(Byte(p), p, 2)
        BY <1>2, <4>1, <4>2, LastTakes
      <4>4. Shift(Byte(p), 18) \in Reads /\ Takes(Shift(Byte(p), 18), p, 2)
        BY <1>5, <4>1, <4>2, <4>3, ShiftTakes
      <4> QED BY <4>4 DEF p
    <3> QED BY <3>1
  <2> DEFINE R == HsiehTail
             T == IF left = 1 THEN Byte(At) ELSE Half(At)
             U == IF left = 3 THEN Shift(Byte(At + 2), 18) ELSE {}
  <2>6. T \in Reads /\ U \in Reads /\ Takes(T, At, 2) /\ Takes(U, At + 2, 2)
    BY <2>1, <2>2, <2>3, <2>4, <2>5
  <2>7. R = <<T, U>>
    BY <2>1 DEF HsiehTail
  <2>8. R \in Shapes /\ DOMAIN R = 1 .. Regs /\ \A r \in 1 .. Regs : Takes(R[r], At + Width * (r - 1), Width)
    <3> HIDE DEF T, U, R
    <3> QED BY <1>2, <2>1, <2>6, <2>7, TwoTake
  <2>9. rounds' = Append(rounds, R)
    BY <1>1, <1>5
  <2> HIDE DEF R
  <2> QED BY <1>1, <1>5, <2>8, <2>9, NewRound
<1>6. ASSUME left # 0, fn = "murmur" PROVE Kept
  <2>1. Regs = 1 /\ Width = 4 /\ left \in 0 .. 3
    BY <1>2, <1>3, <1>6 DEF Regs, Width
  <2> DEFINE T == Little(At, left)
             R == <<T>>
  <2>2. MurmurTail = R
    <3>1. UNION {Shift(Byte(At + k), 8 * k) : k \in 0 .. left - 1} = T
      <4> DEFINE a == At
                 m == left
      <4>1. a \in Int /\ m \in 0 .. 3
        BY <1>2, <2>1
      <4> HIDE DEF a, m
      <4>2. UNION {Shift(Byte(a + k), 8 * k) : k \in 0 .. m - 1} = Little(a, m)
        BY <4>1, MurmurReads
      <4> QED BY <4>2, Zenon DEF a, m, T
    <3> QED BY <3>1, Zenon DEF MurmurTail
  <2>3. T \in Reads /\ Takes(T, At, Width)
    BY <1>2, <2>1, LittleTakes
  <2> HIDE DEF T
  <2>4. R \in Shapes /\ DOMAIN R = 1 .. Regs /\ \A r \in 1 .. Regs : Takes(R[r], At + Width * (r - 1), Width)
    BY <1>2, <2>1, <2>3, OneTakes
  <2>5. rounds' = Append(rounds, R)
    <3> HIDE DEF R
    <3> QED BY <1>1, <1>6, <2>2
  <2> HIDE DEF R
  <2> QED BY <1>1, <1>6, <2>4, <2>5, NewRound
<1>7. ASSUME left # 0, fn = "jenkins" PROVE Kept
  <2> DEFINE R == JenkinsRound
  <2>1. R \in Shapes /\ DOMAIN R = 1 .. Regs /\ \A r \in 1 .. Regs : Takes(R[r], At + Width * (r - 1), Width)
    BY <1>1, <1>7, JenkinsTakes
  <2>2. rounds' = Append(rounds, R)
    BY <1>1, <1>7
  <2> HIDE DEF R
  <2> QED BY <1>1, <1>7, <2>1, <2>2, NewRound
<1>8. Kept
  BY <1>2, <1>3, <1>4, <1>5, <1>6, <1>7 DEF Functions
<1> HIDE DEF Kept
<1>9. key.length <= Step * Len(rounds') /\ Step * Len(rounds') < key.length + Step
  <2> DEFINE z == key.length
             m == Len(rounds')
  <2>1. /\ n \in Nat /\ m = (IF left = 0 THEN n ELSE n + 1) /\ z \in Nat /\ left = z - Step * n
        /\ left \in Nat /\ left <= Step /\ Step \in {1, 4, 12}
    BY <1>2, <1>3, <1>8 DEF Kept, Step
  <2> HIDE DEF z, n, m
  <2>2. z <= Step * m /\ Step * m < z + Step
    BY <2>1
  <2> QED BY <2>2 DEF z, m
<1>10. Step' = Step /\ key' = key
  BY <1>1 DEF Step
<1> QED BY <1>1, <1>8, <1>9, <1>10 DEF Kept, KeyInv

LEMMA KeyInitInv == HashInit => KeyInv
<1> SUFFICES ASSUME HashInit PROVE KeyInv
  OBVIOUS
<1>1. /\ fn = "none" /\ key = [length |-> 0, align |-> 0] /\ left = 0 /\ rounds = <<>> /\ ended = FALSE
  BY DEF HashInit
<1>2. /\ key \in [length : Nat, align : 0 .. 3] /\ left \in 0 .. key.length /\ ended \in BOOLEAN
      /\ 1 .. Len(rounds) = {} /\ rounds \in Seq(Shapes)
  <2>1. 0 \in 0 .. 3 /\ 0 \in Nat /\ 0 \in 0 .. 0
    OBVIOUS
  <2>2. key \in [length : Nat, align : 0 .. 3] /\ key.length = 0
    BY <1>1, <2>1
  <2>3. 1 .. Len(<<>>) = {} /\ <<>> \in Seq(Shapes)
    OBVIOUS
  <2> QED BY <1>1, <2>1, <2>2, <2>3
<1>3. (ended = TRUE) = FALSE /\ (fn # "none") = FALSE
  BY <1>1
<1> QED BY <1>1, <1>2, <1>3 DEF KeyInv

LEMMA KeyKept ==
  ASSUME KeyInv, [HashNext]_hashVars PROVE KeyInv'
<1>1. ASSUME NEW f \in Functions, NEW length \in 0 .. MaxKey, NEW align \in 0 .. 3, Call(f, length, align)
      PROVE  KeyInv'
  <2>1. /\ fn' = f /\ left' = length /\ key' = [length |-> length, align |-> align]
        /\ rounds' = rounds /\ ended' = ended /\ rounds = <<>> /\ ended = FALSE
    BY <1>1 DEF Call, KeyInv
  <2>2. length \in Nat /\ <<>> \in Seq(Shapes) /\ Len(<<>>) = 0
    BY HashkitAssumption
  <2>3. key'.length = length /\ length - length = 0 /\ f # "none" /\ Step' \in {1, 4, 12} /\ Step' * 0 = 0
    BY <2>1, <2>2 DEF Functions, Step
  <2>4. At' = Step' * Len(rounds')
    BY <2>1, <2>2, <2>3 DEF At
  <2>5. /\ fn' \in Functions /\ fn' # "none" /\ key' \in [length : Nat, align : 0 .. 3]
        /\ left' \in 0 .. key'.length /\ rounds' \in Seq(Shapes) /\ ended' = FALSE
        /\ 1 .. Len(rounds') = {}
    BY <2>1, <2>2, <2>3
  <2> QED BY <2>4, <2>5 DEF KeyInv
<1>2. CASE UNCHANGED keyVars
  BY <1>2 DEF keyVars, KeyInv, RoundOK, Takes, Regs, Width, Step, At
<1>3. \/ Round \/ Finish \/ UNCHANGED keyVars
      \/ \E f \in Functions, length \in 0 .. MaxKey, align \in 0 .. 3 : Call(f, length, align)
  BY DEF HashNext, hashVars, Jump
<1> QED BY <1>1, <1>2, <1>3, RoundStep, FinishStep

(* The registers of the rounds divide the bytes among themselves. *)
LEMMA Measures ==
  fn \in Functions => \/ Step = 1 /\ Regs = 1 /\ Width = 1
                      \/ Step = 4 /\ Regs = 2 /\ Width = 2
                      \/ Step = 4 /\ Regs = 1 /\ Width = 4
                      \/ Step = 12 /\ Regs = 3 /\ Width = 4
BY DEF Functions, Step, Regs, Width

InSlot(k, i, r) == /\ Step * (i - 1) + Width * (r - 1) <= k
                   /\ k < Step * (i - 1) + Width * (r - 1) + Width

LEMMA OneSlot ==
  ASSUME fn \in Functions, NEW k \in Nat, NEW n \in Nat, k < Step * n
  PROVE  /\ \E i \in 1 .. n, r \in 1 .. Regs : InSlot(k, i, r)
         /\ \A i \in 1 .. n, r \in 1 .. Regs, j \in 1 .. n, s \in 1 .. Regs :
              InSlot(k, i, r) /\ InSlot(k, j, s) => i = j /\ r = s
<1>1. ASSUME NEW S \in Nat \ {0}, Step = S PROVE \E i \in 1 .. n : S * (i - 1) <= k /\ k < S * i
  <2> DEFINE q == k \div S
             r == k % S
  <2>1. q \in Nat /\ r \in 0 .. S - 1 /\ k = q * S + r
    BY Division
  <2> HIDE DEF q, r
  <2>2. S * (q + 1) = q * S + S /\ S * (q + 1 - 1) = q * S /\ q * S <= k /\ k < q * S + S
    BY <2>1
  <2>3. q < n
    <3>1. SUFFICES ASSUME q >= n PROVE FALSE
      BY <2>1
    <3>2. (q - n) * S >= 0 /\ (q - n) * S = q * S - S * n
      BY <2>1, <3>1
    <3>3. k < S * n
      BY <1>1
    <3> DEFINE A == q * S
               B == S * n
    <3>4. A \in Int /\ B \in Int /\ A - B >= 0 /\ A <= k /\ k < B
      BY <2>1, <2>2, <3>2, <3>3
    <3> HIDE DEF A, B
    <3> QED BY <3>4
  <2> DEFINE i == q + 1
  <2>4. i \in 1 .. n /\ S * (i - 1) <= k /\ k < S * i
    BY <2>1, <2>2, <2>3
  <2> HIDE DEF i
  <2> QED BY <2>4
<1>2. \E i \in 1 .. n : Step * (i - 1) <= k /\ k < Step * i
  <2>1. Step \in Nat \ {0}
    BY Measures
  <2> QED BY <1>1, <2>1
<1>3. PICK i \in 1 .. n : Step * (i - 1) <= k /\ k < Step * i
  BY <1>2
<1>4. \E r \in 1 .. Regs : InSlot(k, i, r)
  <2>1. CASE Step = 1 /\ Regs = 1 /\ Width = 1
    <3>1. InSlot(k, i, 1)
      BY <1>3, <2>1 DEF InSlot
    <3> QED BY <2>1, <3>1
  <2>2. CASE Step = 4 /\ Regs = 2 /\ Width = 2
    <3>1. InSlot(k, i, 1) \/ InSlot(k, i, 2)
      BY <1>3, <2>2 DEF InSlot
    <3> QED BY <2>2, <3>1
  <2>3. CASE Step = 4 /\ Regs = 1 /\ Width = 4
    <3>1. InSlot(k, i, 1)
      BY <1>3, <2>3 DEF InSlot
    <3> QED BY <2>3, <3>1
  <2>4. CASE Step = 12 /\ Regs = 3 /\ Width = 4
    <3>1. InSlot(k, i, 1) \/ InSlot(k, i, 2) \/ InSlot(k, i, 3)
      BY <1>3, <2>4 DEF InSlot
    <3> QED BY <2>4, <3>1
  <2> QED BY <2>1, <2>2, <2>3, <2>4, Measures
<1>5. ASSUME NEW a \in 1 .. n, NEW r \in 1 .. Regs, NEW b \in 1 .. n, NEW s \in 1 .. Regs,
             InSlot(k, a, r), InSlot(k, b, s)
      PROVE  a = b /\ r = s
  <2>1. CASE Step = 1 /\ Regs = 1 /\ Width = 1
    BY <1>5, <2>1 DEF InSlot
  <2>2. CASE Step = 4 /\ Regs = 2 /\ Width = 2
    BY <1>5, <2>2 DEF InSlot
  <2>3. CASE Step = 4 /\ Regs = 1 /\ Width = 4
    BY <1>5, <2>3 DEF InSlot
  <2>4. CASE Step = 12 /\ Regs = 3 /\ Width = 4
    BY <1>5, <2>4 DEF InSlot
  <2> QED BY <2>1, <2>2, <2>3, <2>4, Measures
<1> QED BY <1>4, <1>5

LEMMA EachOnce ==
  ASSUME KeyInv, ended = TRUE PROVE KeyHashed
<1> DEFINE n == Len(rounds)
           z == key.length
<1>1. /\ fn \in Functions /\ z \in Nat /\ n \in Nat /\ DOMAIN rounds = 1 .. n
      /\ \A i \in 1 .. n : RoundOK(rounds[i], i)
      /\ z <= Step * n /\ Step * n < z + Step
  BY DEF KeyInv
<1>2. Regs \in 1 .. 3 /\ Step \in {1, 4, 12} /\ Width \in {1, 2, 4}
  BY <1>1, Measures
<1>3. ASSUME NEW i \in 1 .. n, NEW r \in 1 .. Regs
      PROVE  /\ r \in DOMAIN rounds[i] /\ i \in DOMAIN rounds
             /\ \A t \in rounds[i][r] : t[1] \in 0 .. z - 1 /\ InSlot(t[1], i, r)
             /\ \A k \in 0 .. z - 1 : InSlot(k, i, r) => \E t \in rounds[i][r] : t[1] = k
  <2>1. Takes(rounds[i][r], Step * (i - 1) + Width * (r - 1), Width) /\ DOMAIN rounds[i] = 1 .. Regs
    BY <1>1 DEF RoundOK
  <2> QED BY <1>1, <2>1, Zenon DEF Takes, InSlot
<1>4. ASSUME NEW k \in 0 .. z - 1 PROVE \E u \in Uses(k) : Uses(k) = {u}
  <2>1. k \in Nat /\ k < Step * n
    <3> HIDE DEF n, z
    <3> QED BY <1>1, <1>2
  <2>2. /\ \E i \in 1 .. n, r \in 1 .. Regs : InSlot(k, i, r)
        /\ \A i \in 1 .. n, r \in 1 .. Regs, j \in 1 .. n, s \in 1 .. Regs :
             InSlot(k, i, r) /\ InSlot(k, j, s) => i = j /\ r = s
    <3> HIDE DEF n
    <3> QED BY <1>1, <2>1, OneSlot
  <2>3. PICK i \in 1 .. n, r \in 1 .. Regs : InSlot(k, i, r)
    BY <2>2
  <2>4. <<i, r>> \in Uses(k)
    <3>1. i \in DOMAIN rounds /\ r \in 1 .. 3 /\ r \in DOMAIN rounds[i] /\ \E t \in rounds[i][r] : t[1] = k
      BY <1>2, <1>3, <2>3
    <3> QED BY <3>1 DEF Uses
  <2>5. ASSUME NEW u \in Uses(k) PROVE u = <<i, r>>
    <3>1. /\ u \in (DOMAIN rounds) \X (1 .. 3) /\ u[2] \in DOMAIN rounds[u[1]]
          /\ \E t \in rounds[u[1]][u[2]] : t[1] = k
      BY DEF Uses
    <3>2. u[1] \in 1 .. n /\ u[2] \in 1 .. Regs
      <4>1. u[1] \in 1 .. n
        BY <1>1, <3>1
      <4>2. DOMAIN rounds[u[1]] = 1 .. Regs
        BY <1>1, <4>1 DEF RoundOK
      <4> QED BY <3>1, <4>1, <4>2
    <3>3. InSlot(k, u[1], u[2])
      BY <1>3, <3>1, <3>2
    <3>4. u[1] = i /\ u[2] = r
      BY <2>2, <2>3, <3>2, <3>3
    <3> QED BY <3>1, <3>4
  <2> QED BY <2>4, <2>5
<1>5. ASSUME NEW i \in DOMAIN rounds, NEW t \in Terms(i) PROVE t[1] \in 0 .. z - 1
  <2>1. PICK r \in DOMAIN rounds[i] : t \in rounds[i][r]
    BY DEF Terms
  <2>2. i \in 1 .. n /\ r \in 1 .. Regs
    BY <1>1 DEF RoundOK
  <2> QED BY <1>3, <2>1, <2>2
<1>6. ASSUME fn = "jenkins" PROVE SameForEveryAlignment
  <2>1. Step = 12 /\ Regs = 3 /\ Width = 4
    BY <1>6 DEF Step, Regs, Width
  <2>2. n = (z + 11) \div 12
    <3> HIDE DEF n, z
    <3>1. z <= 12 * n /\ 12 * n < z + 12 /\ z \in Nat /\ n \in Nat
      BY <1>1, <2>1
    <3> QED BY <3>1
  <2>3. ASSUME NEW i \in DOMAIN rounds, NEW r \in 1 .. 3, NEW t \in rounds[i][r]
        PROVE  t = <<12 * (i - 1) + 4 * (r - 1) + t[2] \div 8, t[2]>>
    <3>1. i \in 1 .. n /\ r \in 1 .. Regs
      BY <1>1, <2>1
    <3>2. Takes(rounds[i][r], Step * (i - 1) + Width * (r - 1), Width)
      BY <1>1, <3>1 DEF RoundOK
    <3> QED BY <1>6, <2>1, <3>2 DEF Takes
  <2> QED BY <2>2, <2>3 DEF SameForEveryAlignment
<1> QED BY <1>4, <1>5, <1>6 DEF KeyHashed

(* The state keeps its types, the part of the runs' type invariant that is
   hashkit.c's: the counter never runs past the key, and the last bucket tried
   is one of the buckets. *)
THEOREM HashTypesOK == HashSpec => []HashTypeOK
<1>2. HashSpec => [](KeyInv /\ JumpInv)
  BY KeyInitInv, JumpInitInv, KeyKept, JumpKept, PTL DEF HashSpec
<1>3. KeyInv /\ JumpInv => HashTypeOK
  <2> SUFFICES ASSUME KeyInv, JumpInv PROVE HashTypeOK
    OBVIOUS
  <2>1. \A n \in Buckets : bucket[n] \in -1 .. MaxBuckets - 1
    <3>1. ASSUME NEW n \in Buckets PROVE bucket[n] \in -1 .. MaxBuckets - 1
      <4>1. /\ n \in 0 .. MaxBuckets /\ bucket[n] \in Int /\ bucket[n] >= -1
            /\ (bucket[n] < n \/ bucket[n] = -1) /\ MaxBuckets \in Nat \ {0}
        BY HashkitAssumption DEF JumpInv, JumpTypes, Buckets
      <4> QED BY <4>1
    <3> QED BY <3>1
  <2> QED BY <2>1 DEF JumpInv, JumpTypes, KeyInv, HashTypeOK
<1> QED BY <1>2, <1>3, PTL

(* Every hash function adds every byte of the key once and none behind it, for
   keys of any length, and hash_jenkins adds the same terms in the same rounds
   wherever the key lies (hashkit.c:578-1004). *)
THEOREM KeyHashedAlways == HashSpec => []KeyHashed
<1>2. KeyInv => KeyHashed
  <2>1. KeyInv => ended \in BOOLEAN
    BY DEF KeyInv
  <2>2. ended = FALSE => KeyHashed
    BY DEF KeyHashed
  <2> QED BY <2>1, <2>2, EachOnce
<1> QED BY <1>2, KeyInitInv, KeyKept, PTL DEF HashSpec
=============================================================================
