------------------------------ MODULE Hashkit -------------------------------
(***************************************************************************)
(* The hash functions of hashkit.c: which bytes of the key each loop and   *)
(* each switch on the bytes left over takes, and where in the state it     *)
(* adds them.  The mixing between two rounds and at the end is opaque.     *)
(*                                                                         *)
(* A term <<k, s>> is the k-th byte of the key, added at bit s.  A round   *)
(* is the set of terms each of the registers is given before a mixing.     *)
(*                                                                         *)
(* hash_jump_consistent is run for all numbers of buckets at once, on one  *)
(* sequence of pseudo-random numbers: any, and smaller than 2^31.          *)
(***************************************************************************)
EXTENDS Integers, Sequences

CONSTANTS
  MaxKey,     \* bound: bytes of a key
  MaxBuckets, \* bound: buckets of hash_jump_consistent
  Range31     \* 2^31: the numbers drawn are below it

ASSUME HashkitAssumption ==
  MaxKey \in Nat /\ MaxBuckets \in Nat \ {0} /\ Range31 \in Nat \ {0}

VARIABLES
  fn,      \* the function that runs, or "none"
  key,     \* the length of its key, and its address modulo 4
  left,    \* its counter: bytes that are still to be added
  rounds,  \* the rounds so far
  ended,   \* has it answered?
  bucket, next  \* the variables b and j of hash_jump_consistent, for each num_buckets

keyVars  == <<fn, key, left, rounds, ended>>
jumpVars == <<bucket, next>>
hashVars == <<keyVars, jumpVars>>

Buckets == 0 .. MaxBuckets

HashInit == /\ fn = "none" /\ key = [length |-> 0, align |-> 0] /\ left = 0
            /\ rounds = <<>> /\ ended = FALSE
            /\ bucket = [n \in Buckets |-> -1] /\ next = [n \in Buckets |-> 0]

(* crc16, crc32, crc32a, the four fnv and one_at_a_time take byte by byte. *)
Functions == {"bytewise", "hsieh", "murmur", "jenkins"}

Call(f, length, align) ==
  /\ fn = "none" /\ fn' = f /\ left' = length
  /\ key' = [length |-> length, align |-> align]
  /\ UNCHANGED <<rounds, ended, jumpVars>>

-----------------------------------------------------------------------------
(* Reads of the key, from byte p on: little endian *)

Byte(p)     == {<<p, 0>>}
Shift(t, s) == {<<x[1], x[2] + s>> : x \in t}
Mask(t, s)  == {x \in t : x[2] < s}
Half(p)     == Byte(p) \cup Shift(Byte(p + 1), 8)
Word(p)     == Half(p) \cup Shift(Half(p + 2), 16)

At == key.length - left

(* hash_jenkins: aligned words, masked at the end; half words; bytes *)
Words(p, n)  == Mask(Word(p), 8 * n)
Halves(p, n) == (IF n >= 2 THEN Half(p) ELSE IF n = 1 THEN Byte(p) ELSE {})
                  \cup (IF n >= 4 THEN Shift(Half(p + 2), 16)
                        ELSE IF n = 3 THEN Shift(Byte(p + 2), 16) ELSE {})
Bytes(p, n)  == UNION {Shift(Byte(p + k), 8 * k) : k \in 0 .. (IF n < 4 THEN n ELSE 4) - 1}

(* mutant: a key at an odd address is read as half words of the even one *)
JenkinsReadDown(p, n) ==
  IF key.align = 0 THEN Words(p, n)
  ELSE Halves(p - (key.align % 2), n)
JenkinsRead(p, n) == IF key.align = 0 THEN Words(p, n)
                     ELSE IF key.align = 2 THEN Halves(p, n) ELSE Bytes(p, n)

(* a, b and c get four bytes each, as long as there are some. *)
JenkinsRound == [r \in 1 .. 3 |-> JenkinsRead(At + 4 * (r - 1), left - 4 * (r - 1))]

HsiehRound == <<Half(At), Shift(Half(At + 2), 11)>>
HsiehTail == CASE left = 3 -> <<Half(At), Shift(Byte(At + 2), 18)>>
               [] left = 2 -> <<Half(At), {}>>
               [] left = 1 -> <<Byte(At), {}>>

(* The switch falls through from the byte at 16 to the one at 0. *)
MurmurTail == <<UNION {Shift(Byte(At + k), 8 * k) : k \in 0 .. left - 1}>>

Loops == CASE fn = "bytewise" -> left > 0
           [] fn = "jenkins"  -> left > 12
           [] OTHER           -> left >= 4

Step == CASE fn = "bytewise" -> 1 [] fn = "jenkins" -> 12 [] OTHER -> 4

Round == /\ fn # "none" /\ ~ended /\ Loops
         /\ rounds' = Append(rounds, CASE fn = "bytewise" -> <<Byte(At)>>
                                       [] fn = "hsieh"    -> HsiehRound
                                       [] fn = "murmur"   -> <<Word(At)>>
                                       [] fn = "jenkins"  -> JenkinsRound)
         /\ left' = left - Step
         /\ UNCHANGED <<fn, key, ended, jumpVars>>

Finish == /\ fn # "none" /\ ~ended /\ ~Loops
          /\ rounds' = IF left = 0 THEN rounds
                       ELSE Append(rounds, CASE fn = "hsieh"   -> HsiehTail
                                             [] fn = "murmur"  -> MurmurTail
                                             [] fn = "jenkins" -> JenkinsRound)
          /\ ended' = TRUE
          /\ UNCHANGED <<fn, key, left, jumpVars>>

-----------------------------------------------------------------------------
(* hash_jump_consistent *)

(* mutant: the loop runs while j is not above the number of buckets *)
JumpingOver(n) == next[n] <= n
Jumping(n) == next[n] < n
Next31(x, n) == ((next[n] + 1) * Range31) \div (x + 1)

Jump == /\ fn = "none" /\ \E n \in Buckets : Jumping(n)
        /\ \E x \in 0 .. Range31 - 1 :
             next' = [n \in Buckets |-> IF Jumping(n) THEN Next31(x, n) ELSE next[n]]
        /\ bucket' = [n \in Buckets |-> IF Jumping(n) THEN next[n] ELSE bucket[n]]
        /\ UNCHANGED keyVars

(* mutant: j is answered in place of b *)
JumpNext(n) == next[n]
JumpValue(n) == IF bucket[n] < 0 THEN -bucket[n] ELSE bucket[n]

-----------------------------------------------------------------------------
HashNext == \/ bucket[MaxBuckets] = -1 /\
               \E f \in Functions, length \in 0 .. MaxKey, align \in 0 .. 3 :
                 Call(f, length, align)
            \/ Round \/ Finish \/ Jump

HashSpec == HashInit /\ [][HashNext]_hashVars

-----------------------------------------------------------------------------
(* Properties *)

HashTypeOK == /\ fn \in Functions \cup {"none"} /\ left \in 0 .. key.length
              /\ bucket \in [Buckets -> -1 .. MaxBuckets - 1] /\ next \in [Buckets -> Nat]

(* A hash is of its key, wherever it lies: every byte of the key is added once,
   whatever the length leaves over after the last round, and none that lies
   behind it, although the word reads of hash_jenkins go past its end; and the
   reads by words, half words and bytes of hash_jenkins add a byte in the same
   round, to the same register and at the same bit, with the same last block
   not mixed but finished (hashkit.c:578-1004). *)
Uses(k) == {u \in (DOMAIN rounds) \X (1 .. 3) :
              u[2] \in DOMAIN rounds[u[1]] /\ \E t \in rounds[u[1]][u[2]] : t[1] = k}
Terms(n) == UNION {rounds[n][r] : r \in DOMAIN rounds[n]}
SameForEveryAlignment ==
  /\ Len(rounds) = (key.length + 11) \div 12
  /\ \A n \in DOMAIN rounds, r \in 1 .. 3 : \A t \in rounds[n][r] :
       t = <<12 * (n - 1) + 4 * (r - 1) + t[2] \div 8, t[2]>>
KeyHashed ==
  ended => /\ \A k \in 0 .. key.length - 1 : \E u \in Uses(k) : Uses(k) = {u}
           /\ \A n \in DOMAIN rounds : \A t \in Terms(n) : t[1] \in 0 .. key.length - 1
           /\ fn = "jenkins" => SameForEveryAlignment

(* One more bucket moves keys only into it: the answer for n + 1 buckets is
   that for n, or n, and it is always one of the buckets (hashkit.c:1005-1018). *)
Landed(n) == next[n] >= n
JumpConsistent ==
  \A n \in 1 .. MaxBuckets :
    Landed(n) => /\ JumpValue(n) \in 0 .. n - 1
                 /\ n > 1 /\ Landed(n - 1) => JumpValue(n) \in {JumpValue(n - 1), n - 1}
=============================================================================
