-------------------------------- MODULE Md5 ---------------------------------
(***************************************************************************)
(* The streaming digest of md5.c: md5_init, any number of md5_update, and  *)
(* md5_final, with the block buffer and the two halves of the length.  The *)
(* 64-byte block, the 29 bits of lo and the four bytes of a stored half    *)
(* are scaled down; the 64 steps of body are one opaque mixing, so that    *)
(* the chaining values a, b, c, d stand for the blocks mixed in so far.    *)
(*                                                                         *)
(* The k-th byte of the message is the number k: what can go wrong is      *)
(* where a byte goes, not what it is.                                      *)
(***************************************************************************)
EXTENDS Integers, Sequences

CONSTANTS
  BlockSize,  \* 64: bytes of a block
  LoSize,     \* 2^29: bytes lo counts before it carries into hi
  MaxMessage, \* bound: bytes of a message
  Stale       \* a byte of the buffer that nothing has set

ASSUME Md5Assumption ==
  /\ BlockSize \in Nat \ {0, 1, 2} /\ MaxMessage \in Nat
  /\ LoSize \in Nat \ {0} /\ LoSize % BlockSize = 0

(* The two halves of the length take the last two bytes of a block. *)
LengthSize == 2

VARIABLES
  stage,   \* "none", "open" or "final"
  size,    \* bytes given to md5_update so far
  lo, hi,  \* the length, in bytes
  buffer,
  mixed    \* the blocks body has been given since md5_init

digestVars == <<stage, size, lo, hi, buffer, mixed>>

DigestInit == /\ stage = "none" /\ size = 0 /\ lo = 0 /\ hi = 0
              /\ buffer = [k \in 1 .. BlockSize |-> Stale] /\ mixed = <<>>

-----------------------------------------------------------------------------
Padding(k) == [kind |-> "padding", value |-> k]
Count(h)   == [kind |-> "length", value |-> h]

(* body: the whole blocks of data, one after the other *)
BlocksOf(data) == [k \in 1 .. Len(data) \div BlockSize |->
                     SubSeq(data, (k - 1) * BlockSize + 1, k * BlockSize)]

(* memcpy to, and memset of, the buffer from byte used on *)
Put(buf, used, data) ==
  [k \in 1 .. BlockSize |->
     IF k \in used + 1 .. used + Len(data) THEN data[k - used] ELSE buf[k]]
Zeros(n) == [k \in 1 .. n |-> Padding(0)]

Init == /\ stage \in {"none", "final"} /\ stage' = "open"
        /\ size' = 0 /\ lo' = 0 /\ hi' = 0 /\ mixed' = <<>>
        /\ UNCHANGED buffer

(* The sum is cut to the bits of lo; one that got smaller has wrapped. *)
NewLo(n) == (lo + n) % LoSize
NewHi(n) == hi + (IF NewLo(n) < lo THEN 1 ELSE 0) + n \div LoSize

Used == lo % BlockSize

(* mutant: a block that is just full is left in the buffer *)
FitsOrFills(n) == Used # 0 /\ n <= BlockSize - Used
Fits(n) == Used # 0 /\ n < BlockSize - Used

(* The bytes that complete a block that was begun. *)
Begun == IF Used = 0 THEN 0 ELSE BlockSize - Used

Whole(data) == IF Len(data) >= BlockSize THEN Len(data) - (Len(data) % BlockSize) ELSE 0

Chunk(n) == [k \in 1 .. n |-> size + k]

Update(n) ==
  /\ stage = "open" /\ size + n <= MaxMessage
  /\ size' = size + n /\ lo' = NewLo(n) /\ hi' = NewHi(n)
  /\ \/ /\ Fits(n)
        /\ buffer' = Put(buffer, Used, Chunk(n))
        /\ UNCHANGED mixed
     \/ /\ ~Fits(n)
        /\ LET first  == SubSeq(Chunk(n), 1, Begun)
               filled == Put(buffer, Used, first)
               data   == SubSeq(Chunk(n), Begun + 1, n)
               whole  == SubSeq(data, 1, Whole(data))
               rest   == SubSeq(data, Whole(data) + 1, Len(data))
           IN  /\ mixed' = mixed \o (IF Begun = 0 THEN <<>> ELSE <<filled>>)
                                 \o BlocksOf(whole)
               /\ buffer' = Put(filled, 0, rest)
  /\ UNCHANGED stage

(* mutant: a block with just room for the length gets another after it *)
NoRoomOver == BlockSize - (Used + 1) <= LengthSize
NoRoom == BlockSize - (Used + 1) < LengthSize

Lengths == <<Count(lo), Count(hi)>>

Final ==
  /\ stage = "open"
  /\ LET free   == BlockSize - (Used + 1)
         marked == Put(buffer, Used, <<Padding(1)>>)
         padded == Put(marked, Used + 1, Zeros(free))
         last   == IF NoRoom THEN Zeros(BlockSize)
                   ELSE Put(marked, Used + 1, Zeros(free - LengthSize))
     IN  mixed' = mixed \o (IF NoRoom THEN <<padded>> ELSE <<>>)
                        \o <<Put(last, BlockSize - LengthSize, Lengths)>>
  (* memset of the context *)
  /\ lo' = 0 /\ hi' = 0 /\ buffer' = Zeros(BlockSize)
  /\ stage' = "final" /\ UNCHANGED size

DigestNext == Init \/ Final \/ \E n \in 0 .. MaxMessage : Update(n)

DigestSpec == DigestInit /\ [][DigestNext]_digestVars

-----------------------------------------------------------------------------
(* Properties *)

DigestTypeOK ==
  /\ stage \in {"none", "open", "final"} /\ size \in 0 .. MaxMessage
  /\ lo \in 0 .. LoSize - 1 /\ hi \in Nat
  /\ Len(buffer) = BlockSize /\ \A k \in DOMAIN mixed : Len(mixed[k]) = BlockSize

NthBlock(k) == [j \in 1 .. BlockSize |-> (k - 1) * BlockSize + j]

(* However a message is cut into updates, of any size and none, its bytes are
   all there once and in order, in the blocks mixed in or in front of the
   buffer, and the two halves of the length count them (md5.c:171-205). *)
NothingLost ==
  stage = "open" =>
    /\ size = Len(mixed) * BlockSize + Used
    /\ mixed = [k \in 1 .. Len(mixed) |-> NthBlock(k)]
    /\ \A j \in 1 .. Used : buffer[j] = NthBlock(Len(mixed) + 1)[j]
    /\ size = hi * LoSize + lo

(* What the digest is of: the n bytes of the message, a mark, as few zeros as
   make the length end a block, and the length. *)
PaddedBlocks(n) == (n + LengthSize) \div BlockSize + 1
PaddedByte(n, i) ==
  LET end == PaddedBlocks(n) * BlockSize IN
  IF i <= n THEN i
  ELSE IF i = n + 1 THEN Padding(1)
  ELSE IF i = end - 1 THEN Count(n % LoSize)
  ELSE IF i = end THEN Count(n \div LoSize)
  ELSE Padding(0)

(* The digest depends on the message alone: it is that of one pass over the
   padded message, with nothing of an earlier message left in the buffer or
   the chaining values (md5.c:159-257). *)
OneShot ==
  stage = "final" =>
    mixed = [k \in 1 .. PaddedBlocks(size) |->
               [j \in 1 .. BlockSize |-> PaddedByte(size, NthBlock(k)[j])]]
=============================================================================
