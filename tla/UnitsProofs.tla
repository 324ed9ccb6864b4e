---------------------------- MODULE UnitsProofs ----------------------------
(***************************************************************************)
(* The safety of Array and of Nweb, for any arrays, values, blocks and     *)
(* sizes, any number of clients and pages of any length; then of the units *)
(* together, as the run checks them.                                       *)
(***************************************************************************)
EXTENDS MCUnits, DigestProofs, LogProofs, SequenceTheorems, TLAPS

-----------------------------------------------------------------------------
(* The array *)

Cell  == Val \cup {Junk}
Heads == [elem : Block \cup {Null}, nelem : Nat, nalloc : Nat]

Types == /\ head \in [Arr -> Heads]
         /\ mem \in [Block -> Seq(Cell) \cup {Null}]
         /\ each \in [arr : Arr \cup {Null}, i : Nat, n : Nat, seen : Seq(Cell)]

(* An array has room for one element at least, or is not there. *)
Sized == \A a \in Arr : IF Made(a) THEN head[a].nalloc >= 1 ELSE head[a].nelem = 0

(* The array of a running array_each is not emptied. *)
Walk == /\ Running => each.n >= 1 /\ each.i <= each.n
        /\ ~Running => each = Idle

ArrayInv == Types /\ OneOwner /\ Sized /\ Walk /\ EachInOrder

-----------------------------------------------------------------------------
LEMMA Constant ==
  /\ Null \notin Block /\ Null \notin Arr /\ Null \notin Seq(Cell) /\ Junk \notin Val
  /\ Sizes \subseteq Nat \ {0} /\ Val \subseteq Cell
BY ArrayAssumption DEF Cell

(* What ArrayInv says of one array that is there. *)
LEMMA Owner ==
  ASSUME ArrayInv, NEW a \in Arr, Made(a)
  PROVE  /\ head[a] \in Heads /\ head[a].elem \in Block
         /\ Cells(a) \in Seq(Cell) /\ Len(Cells(a)) = head[a].nalloc
         /\ head[a].nelem \in Nat /\ head[a].nalloc \in Nat /\ head[a].nalloc >= 1
         /\ head[a].nelem <= head[a].nalloc
         /\ \A k \in 1 .. head[a].nelem : Cells(a)[k] \in Val
         /\ \A b \in Arr \ {a} : head[b].elem # head[a].elem
<1>1. head[a] \in Heads /\ head[a].elem \in Block
  BY Constant DEF ArrayInv, Types, Made, Heads
<1>2. Cells(a) \in Seq(Cell)
  BY <1>1 DEF ArrayInv, Types, OneOwner, Cells
<1> QED BY <1>1, <1>2 DEF ArrayInv, OneOwner, Sized, Heads

LEMMA ArrayInvInit == ArrayInit => ArrayInv
<1> SUFFICES ASSUME ArrayInit PROVE ArrayInv
  OBVIOUS
<1>1. <<>> \in Seq(Cell)
  OBVIOUS
<1>2. \A a \in Arr : ~Made(a) /\ head[a].nelem = 0
  BY DEF ArrayInit, Made, NoHead
<1>3. ~Running /\ each = Idle
  BY DEF ArrayInit, Running, Idle
<1>4. Types
  BY <1>1 DEF ArrayInit, Types, Heads, NoHead, Idle
<1>5. OneOwner
  BY <1>2 DEF ArrayInit, OneOwner
<1> QED BY <1>2, <1>3, <1>4, <1>5 DEF ArrayInv, Sized, Walk, EachInOrder

-----------------------------------------------------------------------------
(* Array a goes on with n elements in m cells of block b, which is new or the
   one it has; what its running array_each has read stays where it is. *)
Becomes(a, b, n, m, cells) ==
  /\ b \in Block /\ (b # head[a].elem => mem[b] = Null)
  /\ n \in Nat /\ m \in Nat /\ m >= 1 /\ n <= m
  /\ cells \in Seq(Cell) /\ Len(cells) = m
  /\ \A k \in 1 .. n : cells[k] \in Val
  /\ head' = [head EXCEPT ![a] = [elem |-> b, nelem |-> n, nalloc |-> m]]
  /\ \A d \in Block : mem'[d] = IF d = b THEN cells ELSE IF d = head[a].elem THEN Null ELSE mem[d]
  /\ mem' \in [Block -> Seq(Cell) \cup {Null}]
  /\ each.arr = a => /\ Made(a) /\ n >= head[a].nelem
                     /\ \A k \in 1 .. head[a].nelem : cells[k] = Cells(a)[k]
  /\ UNCHANGED each

(* The others are not touched. *)
LEMMA OthersKept ==
  ASSUME ArrayInv, NEW a \in Arr, NEW b, NEW n, NEW m, NEW cells, Becomes(a, b, n, m, cells),
         NEW d \in Arr \ {a}
  PROVE  /\ head'[d] = head[d] /\ Made(d)' = Made(d)
         /\ Made(d) => Cells(d)' = Cells(d) /\ head[d].elem # b
<1>1. head'[d] = head[d]
  BY DEF ArrayInv, Types, Becomes
<1>2. ASSUME Made(d) PROVE Cells(d)' = Cells(d) /\ head[d].elem # b
  <2>1. head[d].elem \in Block /\ head[d].elem # head[a].elem
    BY <1>2, Owner
  <2>2. mem[head[d].elem] # Null
    BY <1>2 DEF ArrayInv, OneOwner
  <2>3. head[d].elem # b
    BY <2>1, <2>2 DEF Becomes
  <2> QED BY <1>1, <2>1, <2>3 DEF Becomes, Cells
<1> QED BY <1>1, <1>2 DEF Made

LEMMA BecomesInv ==
  ASSUME ArrayInv, NEW a \in Arr, NEW b, NEW n, NEW m, NEW cells, Becomes(a, b, n, m, cells)
  PROVE  /\ ArrayInv'
         /\ Made(a)' /\ head'[a] = [elem |-> b, nelem |-> n, nalloc |-> m] /\ Cells(a)' = cells
<1>1. head'[a] = [elem |-> b, nelem |-> n, nalloc |-> m] /\ b \in Block /\ cells \in Seq(Cell)
  BY DEF ArrayInv, Types, Becomes
<1>2. Made(a)' /\ Cells(a)' = cells
  BY <1>1, Constant DEF Made, Cells, Becomes
<1>3. \A d \in Arr \ {a} :
        /\ head'[d] = head[d] /\ Made(d)' = Made(d)
        /\ Made(d) => Cells(d)' = Cells(d) /\ head[d].elem # b
  BY OthersKept
<1>4. Types'
  <2>1. [elem |-> b, nelem |-> n, nalloc |-> m] \in Heads
    BY DEF Becomes, Heads
  <2> QED BY <2>1 DEF ArrayInv, Types, Becomes
<1>5. OneOwner'
  <2>1. ASSUME NEW d \in Block, mem'[d] # Null PROVE \E c \in Arr : head'[c].elem = d
    <3>1. CASE d = b
      BY <1>1, <3>1
    <3>2. CASE d # b
      <4>1. d # head[a].elem /\ mem[d] # Null
        BY <2>1, <3>2 DEF Becomes
      <4>2. PICK c \in Arr : head[c].elem = d
        BY <4>1 DEF ArrayInv, OneOwner
      <4> QED BY <1>3, <4>1, <4>2
    <3> QED BY <3>1, <3>2
  <2>2. ASSUME NEW c \in Arr, Made(c)'
        PROVE  /\ mem'[head'[c].elem] # Null /\ Len(Cells(c)') = head'[c].nalloc
               /\ head'[c].nelem <= head'[c].nalloc
               /\ \A k \in 1 .. head'[c].nelem : Cells(c)'[k] \in Val
               /\ \A d \in Arr \ {c} : head'[d].elem # head'[c].elem
    <3>1. CASE c = a
      <4>1. \A d \in Arr \ {a} : head'[d].elem # b
        <5>1. ASSUME NEW d \in Arr \ {a} PROVE head'[d].elem # b
          BY <1>1, <1>3, Constant DEF Made
        <5> QED BY <5>1
      <4>2. mem'[b] = cells /\ cells # Null
        BY <1>1, Constant DEF Becomes
      <4> QED BY <1>1, <1>2, <3>1, <4>1, <4>2 DEF Becomes
    <3>2. CASE c # a
      <4>1. Made(c) /\ head'[c] = head[c] /\ Cells(c)' = Cells(c) /\ head[c].elem # b
        BY <1>3, <2>2, <3>2
      <4>2. mem'[head'[c].elem] # Null
        BY <4>1, Owner, Constant DEF Cells
      <4>3. \A d \in Arr \ {c} : head'[d].elem # head'[c].elem
        BY <1>1, <1>3, <4>1, Owner
      <4> QED BY <4>1, <4>2, <4>3, Owner
    <3> QED BY <3>1, <3>2
  <2> QED BY <2>1, <2>2 DEF OneOwner
<1>6. Sized'
  <2> SUFFICES ASSUME NEW d \in Arr
               PROVE  IF Made(d)' THEN head'[d].nalloc >= 1 ELSE head'[d].nelem = 0
    BY DEF Sized
  <2> QED BY <1>1, <1>2, <1>3 DEF ArrayInv, Sized, Becomes
<1>7. Walk'
  BY DEF ArrayInv, Walk, Running, Idle, Becomes
<1>8. EachInOrder'
  <2> SUFFICES ASSUME Running
               PROVE  each.n <= head'[each.arr].nelem
                      /\ each.seen = SubSeq(mem'[head'[each.arr].elem], 1, each.i)
    BY DEF EachInOrder, Running, Cells, Becomes
  <2>1. /\ each.arr \in Arr /\ each.i \in Nat /\ each.n \in Nat
        /\ each.n >= 1 /\ each.i <= each.n /\ each.n <= head[each.arr].nelem
        /\ each.seen = SubSeq(Cells(each.arr), 1, each.i)
    BY DEF ArrayInv, Types, Walk, EachInOrder, Running
  <2>2. Made(each.arr)
    BY <2>1 DEF ArrayInv, Sized
  <2>3. CASE each.arr # a
    BY <1>3, <2>1, <2>2, <2>3 DEF Cells
  <2>4. CASE each.arr = a
    <3>1. /\ n >= head[a].nelem /\ head[a].nelem \in Nat /\ n \in Nat
          /\ \A k \in 1 .. head[a].nelem : cells[k] = Cells(a)[k]
          /\ Cells(a) \in Seq(Cell) /\ Len(Cells(a)) \in Nat /\ head[a].nelem <= Len(Cells(a))
          /\ n <= Len(cells) /\ cells \in Seq(Cell)
      BY <2>2, <2>4, Owner DEF Becomes
    <3>2. SubSeq(cells, 1, each.i) = SubSeq(Cells(a), 1, each.i)
      <4>1. \A k \in 1 .. each.i : cells[k] = Cells(a)[k]
        BY <2>1, <2>4, <3>1
      <4>2. each.i \in 0 .. Len(cells) /\ each.i \in 0 .. Len(Cells(a))
        BY <2>1, <2>4, <3>1
      <4> QED BY <3>1, <4>1, <4>2, <2>1
    <3>3. mem'[head'[a].elem] = cells
      BY <1>1, <1>2 DEF Cells
    <3> QED BY <1>1, <2>1, <2>4, <3>1, <3>2, <3>3
  <2> QED BY <2>3, <2>4
<1> QED BY <1>1, <1>2, <1>4, <1>5, <1>6, <1>7, <1>8 DEF ArrayInv

-----------------------------------------------------------------------------
(* What the arrays are for their callers. *)
Existing == [a \in Arr |-> Made(a)]
Stacked == [a \in Arr |-> IF Made(a) THEN Content(a) ELSE <<>>]

LEMMA BecomesSeen ==
  ASSUME ArrayInv, NEW a \in Arr, NEW b, NEW n, NEW m, NEW cells, Becomes(a, b, n, m, cells)
  PROVE  /\ Existing' = [Existing EXCEPT ![a] = TRUE]
         /\ Stacked' = [Stacked EXCEPT ![a] = SubSeq(cells, 1, n)]
<1>0. Made(a)' /\ head'[a] = [elem |-> b, nelem |-> n, nalloc |-> m] /\ Cells(a)' = cells
  BY BecomesInv
<1>1. Made(a)' /\ Content(a)' = SubSeq(cells, 1, n)
  <2>1. Content(a)' = SubSeq(Cells(a)', 1, head'[a].nelem)
    BY DEF Content, Cells
  <2>2. head'[a].nelem = n
    BY <1>0
  <2> QED BY <1>0, <2>1, <2>2
<1>2. \A d \in Arr \ {a} : Made(d)' = Made(d) /\ (Made(d) => Content(d)' = Content(d))
  BY OthersKept DEF Content
<1> QED BY <1>1, <1>2 DEF Existing, Stacked

(* The cells of an array with n of them filled hold the sequence of these. *)
LEMMA Prefix ==
  ASSUME NEW cells \in Seq(Cell), NEW n \in Nat, n <= Len(cells)
  PROVE  /\ SubSeq(cells, 1, n) \in Seq(Cell) /\ Len(SubSeq(cells, 1, n)) = n
         /\ \A k \in 1 .. n : SubSeq(cells, 1, n)[k] = cells[k]
         /\ DOMAIN SubSeq(cells, 1, n) = 1 .. n
OBVIOUS

LEMMA Longer ==
  ASSUME NEW cells \in Seq(Cell), NEW n \in Nat, n < Len(cells), NEW v \in Cell,
         NEW old \in Seq(Cell), n <= Len(old), \A k \in 1 .. n : cells[k] = old[k],
         cells[n + 1] = v
  PROVE  SubSeq(cells, 1, n + 1) = Append(SubSeq(old, 1, n), v)
<1> DEFINE s == SubSeq(cells, 1, n + 1)
           t == Append(SubSeq(old, 1, n), v)
<1>1. s \in Seq(Cell) /\ Len(s) = n + 1 /\ \A k \in 1 .. n + 1 : s[k] = cells[k]
  BY Prefix
<1>2. SubSeq(old, 1, n) \in Seq(Cell) /\ Len(SubSeq(old, 1, n)) = n
      /\ \A k \in 1 .. n : SubSeq(old, 1, n)[k] = old[k]
  BY Prefix
<1>3. t \in Seq(Cell) /\ Len(t) = n + 1 /\ (\A k \in 1 .. n : t[k] = old[k]) /\ t[n + 1] = v
  BY <1>2, AppendProperties
<1>4. \A k \in 1 .. n + 1 : s[k] = t[k]
  BY <1>1, <1>3
<1> HIDE DEF s, t
<1>5. s = t
  BY <1>1, <1>3, <1>4, SeqEqual
<1> QED BY <1>5 DEF s, t

LEMMA CreateStep ==
  ASSUME ArrayInv, NEW a \in Arr, Create(a)
  PROVE  ArrayInv' /\ S!Open(a)
<1>1. PICK b \in Unused, n \in Sizes :
        /\ head' = [head EXCEPT ![a] = [elem |-> b, nelem |-> 0, nalloc |-> n]]
        /\ mem' = [mem EXCEPT ![b] = Fresh(n)]
  BY DEF Create
<1>2. Fresh(n) \in Seq(Cell) /\ Len(Fresh(n)) = n /\ n \in Nat /\ n >= 1
  BY Constant DEF Fresh, Cell
<1>3. Becomes(a, b, 0, n, Fresh(n))
  <2>0. head[a].nelem = 0 /\ head[a].elem = Null /\ each.n \in Nat
    BY DEF Create, Made, ArrayInv, Sized, Types
  <2>1. head[a].elem = Null /\ b \in Block /\ mem[b] = Null /\ each.arr # a
    BY <2>0, Constant DEF Unused, ArrayInv, Walk, EachInOrder, Running
  <2>2. \A d \in Block : d # head[a].elem
    BY <2>1, Constant
  <2>3. /\ mem' \in [Block -> Seq(Cell) \cup {Null}]
        /\ \A d \in Block : mem'[d] = IF d = b THEN Fresh(n) ELSE mem[d]
    BY <1>1, <1>2, <2>1 DEF ArrayInv, Types
  <2>4. UNCHANGED each /\ 0 \in Nat /\ 0 <= n /\ \A k \in 1 .. 0 : Fresh(n)[k] \in Val
    BY <1>2 DEF Create
  <2>5. \A d \in Block : mem'[d] = IF d = b THEN Fresh(n) ELSE IF d = head[a].elem THEN Null ELSE mem[d]
    BY <2>2, <2>3
  <2> QED BY <1>1, <1>2, <2>1, <2>3, <2>4, <2>5 DEF Becomes
<1>4. /\ Existing' = [Existing EXCEPT ![a] = TRUE]
      /\ Stacked' = [Stacked EXCEPT ![a] = SubSeq(Fresh(n), 1, 0)]
  BY <1>3, BecomesSeen
<1>5. SubSeq(Fresh(n), 1, 0) = <<>> /\ Stacked[a] = <<>> /\ ~Existing[a]
  BY <1>2 DEF Stacked, Existing, Create
<1>6. Stacked' = Stacked
  BY <1>4, <1>5 DEF Stacked
<1> QED BY <1>3, <1>4, <1>5, <1>6, BecomesInv DEF S!Open, Existing, Stacked, Create

LEMMA PushStep ==
  ASSUME ArrayInv, NEW a \in Arr, NEW v \in Val, Push(a, v) \/ GrowPush(a, v)
  PROVE  ArrayInv' /\ S!Push(a, v)
<1> DEFINE n == head[a].nelem
<1>1. Made(a) /\ UNCHANGED <<each, answer>> /\ v \in Cell
  BY Constant DEF Push, GrowPush
<1>2. /\ head[a] \in Heads /\ head[a].elem \in Block
      /\ Cells(a) \in Seq(Cell) /\ Len(Cells(a)) = head[a].nalloc
      /\ n \in Nat /\ head[a].nalloc \in Nat /\ head[a].nalloc >= 1 /\ n <= head[a].nalloc
      /\ \A k \in 1 .. n : Cells(a)[k] \in Val
  BY <1>1, Owner
<1>3. \E b, m, cells : /\ Becomes(a, b, n + 1, m, cells)
                       /\ \A k \in 1 .. n : cells[k] = Cells(a)[k]
                       /\ cells[n + 1] = v
  <2>1. CASE Push(a, v)
    <3> DEFINE cells == Store(Cells(a), a, v)
    <3>1. n + 1 \in 1 .. Len(Cells(a))
      BY <1>2, <2>1 DEF Push, Full
    <3>2. /\ cells \in Seq(Cell) /\ Len(cells) = head[a].nalloc /\ cells[n + 1] = v
          /\ \A k \in 1 .. n : cells[k] = Cells(a)[k]
      BY <1>1, <1>2, <3>1 DEF Store
    <3>3. head' = [head EXCEPT ![a] = [elem |-> head[a].elem, nelem |-> n + 1,
                                       nalloc |-> head[a].nalloc]]
      <4>1. [head[a] EXCEPT !.nelem = @ + 1] =
              [elem |-> head[a].elem, nelem |-> n + 1, nalloc |-> head[a].nalloc]
        BY <1>2 DEF Heads
      <4>2. head' = [head EXCEPT ![a] = [head[a] EXCEPT !.nelem = @ + 1]]
        BY <2>1 DEF Push
      <4> QED BY <4>1, <4>2
    <3>4. mem' = [mem EXCEPT ![head[a].elem] = cells]
      BY <2>1 DEF Push, Cells
    <3> HIDE DEF cells
    <3>5. \A k \in 1 .. n + 1 : cells[k] \in Val
      BY <1>2, <3>2
    <3>6. n + 1 <= head[a].nalloc
      BY <1>2, <3>1
    <3>7. Becomes(a, head[a].elem, n + 1, head[a].nalloc, cells)
      BY <1>1, <1>2, <3>2, <3>3, <3>4, <3>5, <3>6 DEF Becomes, ArrayInv, Types
    <3> QED BY <3>2, <3>7
  <2>2. CASE GrowPush(a, v)
    <3> DEFINE cells == Store(Grown(a), a, v)
               m == 2 * head[a].nalloc
    <3>1. PICK b \in Unused \cup {head[a].elem} :
            /\ mem' = [mem EXCEPT ![head[a].elem] = Null, ![b] = cells]
            /\ head' = [head EXCEPT ![a] = [elem |-> b, nelem |-> @.nelem + 1,
                                            nalloc |-> 2 * @.nalloc]]
      BY <2>2 DEF GrowPush
    <3>2. n = head[a].nalloc
      BY <2>2 DEF GrowPush, Full
    <3>3. /\ Grown(a) \in Seq(Cell) /\ Len(Grown(a)) = m /\ m \in Nat /\ m >= n + 1
          /\ \A k \in 1 .. n : Grown(a)[k] = Cells(a)[k]
      <4>1. /\ Fresh(head[a].nalloc) \in Seq(Cell) /\ Len(Fresh(head[a].nalloc)) = head[a].nalloc
        BY <1>2 DEF Fresh, Cell
      <4> QED BY <1>2, <3>2, <4>1 DEF Grown
    <3>4. /\ cells \in Seq(Cell) /\ Len(cells) = m /\ cells[n + 1] = v
          /\ \A k \in 1 .. n : cells[k] = Cells(a)[k]
      BY <1>1, <1>2, <3>3 DEF Store
    <3>5. head' = [head EXCEPT ![a] = [elem |-> b, nelem |-> n + 1, nalloc |-> m]]
      BY <3>1
    <3>6. b \in Block /\ (b # head[a].elem => mem[b] = Null)
      BY <1>2, <3>1 DEF Unused
    <3> HIDE DEF cells
    <3>7. ASSUME NEW k \in 1 .. n + 1 PROVE cells[k] \in Val
      <4>1. k \in 1 .. n \/ k = n + 1
        BY <1>2
      <4> QED BY <1>2, <3>4, <4>1
    <3>8. \A d \in Block : mem'[d] = IF d = b THEN cells ELSE IF d = head[a].elem THEN Null ELSE mem[d]
      BY <1>2, <3>1, <3>6 DEF ArrayInv, Types
    <3>9. mem' \in [Block -> Seq(Cell) \cup {Null}]
      BY <1>2, <3>1, <3>4, <3>6 DEF ArrayInv, Types
    <3>10. Becomes(a, b, n + 1, m, cells)
      BY <1>1, <1>2, <3>3, <3>4, <3>5, <3>6, <3>7, <3>8, <3>9 DEF Becomes
    <3> QED BY <3>4, <3>10
  <2> QED BY <2>1, <2>2
<1>4. PICK b, m, cells : /\ Becomes(a, b, n + 1, m, cells)
                         /\ \A k \in 1 .. n : cells[k] = Cells(a)[k]
                         /\ cells[n + 1] = v
  BY <1>3
<1>5. /\ Existing' = [Existing EXCEPT ![a] = TRUE]
      /\ Stacked' = [Stacked EXCEPT ![a] = SubSeq(cells, 1, n + 1)]
  BY <1>4, BecomesSeen
<1>6. SubSeq(cells, 1, n + 1) = Append(Content(a), v)
  <2>1. cells \in Seq(Cell) /\ n < Len(cells)
    BY <1>2, <1>4 DEF Becomes
  <2> QED BY <1>1, <1>2, <1>4, <2>1, Longer DEF Content
<1>7. Existing[a] /\ Stacked[a] = Content(a) /\ Existing' = Existing
  BY <1>1, <1>5 DEF Existing, Stacked
<1>8. Stacked' = [Stacked EXCEPT ![a] = Append(@, v)]
  BY <1>5, <1>6, <1>7
<1> QED BY <1>1, <1>4, <1>7, <1>8, BecomesInv DEF S!Push, Existing, Stacked

LEMMA PopStep ==
  ASSUME ArrayInv, NEW a \in Arr, Pop(a)
  PROVE  ArrayInv' /\ S!Pop(a)
<1> DEFINE n == head[a].nelem
<1>1. Made(a) /\ n # 0 /\ each.arr # a /\ UNCHANGED <<mem, each>>
  BY DEF Pop, Filled, Quiet
<1>2. /\ head[a] \in Heads /\ head[a].elem \in Block
      /\ Cells(a) \in Seq(Cell) /\ Len(Cells(a)) = head[a].nalloc
      /\ n \in Nat /\ n >= 1 /\ head[a].nalloc \in Nat /\ head[a].nalloc >= 1
      /\ n <= head[a].nalloc /\ \A k \in 1 .. n : Cells(a)[k] \in Val
  BY <1>1, Owner
<1>3. head' = [head EXCEPT ![a] = [elem |-> head[a].elem, nelem |-> n - 1,
                                   nalloc |-> head[a].nalloc]]
  <2>1. [head[a] EXCEPT !.nelem = @ - 1] =
          [elem |-> head[a].elem, nelem |-> n - 1, nalloc |-> head[a].nalloc]
    BY <1>2 DEF Heads
  <2>2. head' = [head EXCEPT ![a] = [head[a] EXCEPT !.nelem = @ - 1]]
    BY DEF Pop
  <2> QED BY <2>1, <2>2
<1>4. Becomes(a, head[a].elem, n - 1, head[a].nalloc, Cells(a))
  <2>1. \A d \in Block : mem'[d] = IF d = head[a].elem THEN Cells(a)
                                   ELSE IF d = head[a].elem THEN Null ELSE mem[d]
    BY <1>1 DEF Cells
  <2>2. n - 1 \in Nat /\ n - 1 <= head[a].nalloc /\ \A k \in 1 .. n - 1 : Cells(a)[k] \in Val
    BY <1>2
  <2>3. mem' \in [Block -> Seq(Cell) \cup {Null}]
    BY <1>1 DEF ArrayInv, Types
  <2> QED BY <1>1, <1>2, <1>3, <2>1, <2>2, <2>3 DEF Becomes
<1>5. /\ Existing' = [Existing EXCEPT ![a] = TRUE]
      /\ Stacked' = [Stacked EXCEPT ![a] = SubSeq(Cells(a), 1, n - 1)]
  BY <1>4, BecomesSeen
<1>6. /\ Content(a) \in Seq(Cell) /\ Len(Content(a)) = n
      /\ \A k \in 1 .. n : Content(a)[k] = Cells(a)[k]
  BY <1>2, Prefix DEF Content
<1>7. SubSeq(Cells(a), 1, n - 1) = SubSeq(Content(a), 1, Len(Content(a)) - 1)
  <2> DEFINE s == SubSeq(Cells(a), 1, n - 1)
             t == SubSeq(Content(a), 1, n - 1)
  <2>1. n - 1 \in Nat /\ n - 1 <= Len(Cells(a)) /\ n - 1 <= Len(Content(a))
    BY <1>2, <1>6
  <2>2. /\ s \in Seq(Cell) /\ Len(s) = n - 1 /\ \A k \in 1 .. n - 1 : s[k] = Cells(a)[k]
        /\ t \in Seq(Cell) /\ Len(t) = n - 1 /\ \A k \in 1 .. n - 1 : t[k] = Content(a)[k]
    BY <1>2, <1>6, <2>1, Prefix
  <2>3. \A k \in 1 .. n - 1 : s[k] = t[k]
    BY <1>2, <1>6, <2>2
  <2> HIDE DEF s, t
  <2>4. s = t
    BY <2>2, <2>3, SeqEqual
  <2> QED BY <1>6, <2>4 DEF s, t
<1>8. Existing[a] /\ Stacked[a] = Content(a) /\ Existing' = Existing /\ Content(a) # <<>>
  BY <1>1, <1>2, <1>5, <1>6 DEF Existing, Stacked
<1>9. answer' = Stacked[a][Len(Stacked[a])]
  BY <1>2, <1>6, <1>8 DEF Pop
<1>10. Stacked' = [Stacked EXCEPT ![a] = SubSeq(@, 1, Len(@) - 1)]
  BY <1>5, <1>7, <1>8
<1> QED BY <1>4, <1>8, <1>9, <1>10, BecomesInv DEF S!Pop, Existing, Stacked

LEMMA SortStep ==
  ASSUME ArrayInv, NEW a \in Arr, Sort(a)
  PROVE  ArrayInv' /\ S!Sort(a)
<1> DEFINE n == head[a].nelem
<1>1. Made(a) /\ each.arr # a /\ UNCHANGED <<head, each, answer>>
  BY DEF Sort, Filled, Quiet
<1>2. /\ head[a] \in Heads /\ head[a].elem \in Block
      /\ Cells(a) \in Seq(Cell) /\ Len(Cells(a)) = head[a].nalloc
      /\ n \in Nat /\ head[a].nalloc \in Nat /\ head[a].nalloc >= 1
      /\ n <= head[a].nalloc /\ \A k \in 1 .. n : Cells(a)[k] \in Val
  BY <1>1, Owner
<1>3. PICK p \in [1 .. n -> 1 .. n] :
        /\ Onto(p) /\ InOrder(Moved(a, p), n)
        /\ mem' = [mem EXCEPT ![head[a].elem] = Moved(a, p)]
  BY DEF Sort
<1>4. \A k \in 1 .. n : p[k] \in 1 .. n
  BY <1>3
<1> DEFINE cells == Moved(a, p)
<1>5. /\ cells \in Seq(Cell) /\ Len(cells) = head[a].nalloc
      /\ \A k \in 1 .. n : cells[k] = Cells(a)[p[k]]
  <2>1. DOMAIN Cells(a) = 1 .. head[a].nalloc
    BY <1>2
  <2>2. ASSUME NEW k \in 1 .. head[a].nalloc
        PROVE  (IF k <= n THEN Cells(a)[p[k]] ELSE Cells(a)[k]) \in Cell
    <3>1. k <= n => p[k] \in 1 .. head[a].nalloc
      BY <1>2, <1>4
    <3> QED BY <1>2, <3>1
  <2>3. cells = [k \in 1 .. head[a].nalloc |-> IF k <= n THEN Cells(a)[p[k]] ELSE Cells(a)[k]]
    BY <2>1 DEF Moved
  <2> HIDE DEF cells
  <2>4. /\ cells \in [1 .. head[a].nalloc -> Cell] /\ DOMAIN cells = 1 .. head[a].nalloc
        /\ \A k \in 1 .. head[a].nalloc : k <= n => cells[k] = Cells(a)[p[k]]
    BY <2>2, <2>3
  <2>5. cells \in Seq(Cell) /\ Len(cells) = head[a].nalloc
    BY <1>2, <2>4
  <2> QED BY <1>2, <2>4, <2>5
<1>6. InOrder(cells, n)
  BY <1>3
<1>7. mem' = [mem EXCEPT ![head[a].elem] = cells]
  BY <1>3
<1> HIDE DEF cells
<1>8. head' = [head EXCEPT ![a] = [elem |-> head[a].elem, nelem |-> n, nalloc |-> head[a].nalloc]]
  <2>1. head[a] = [elem |-> head[a].elem, nelem |-> n, nalloc |-> head[a].nalloc]
    BY <1>2 DEF Heads
  <2> QED BY <1>1, <2>1 DEF ArrayInv, Types
<1>9. Becomes(a, head[a].elem, n, head[a].nalloc, cells)
  <2>1. \A k \in 1 .. n : cells[k] \in Val
    BY <1>2, <1>4, <1>5
  <2>2. /\ mem' \in [Block -> Seq(Cell) \cup {Null}]
        /\ \A d \in Block : mem'[d] = IF d = head[a].elem THEN cells
                                      ELSE IF d = head[a].elem THEN Null ELSE mem[d]
    BY <1>2, <1>5, <1>7 DEF ArrayInv, Types
  <2> QED BY <1>1, <1>2, <1>5, <1>8, <2>1, <2>2 DEF Becomes
<1>10. /\ Existing' = [Existing EXCEPT ![a] = TRUE]
       /\ Stacked' = [Stacked EXCEPT ![a] = SubSeq(cells, 1, n)]
  BY <1>9, BecomesSeen
<1>11. /\ Content(a) \in Seq(Cell) /\ DOMAIN Content(a) = 1 .. n
       /\ \A k \in 1 .. n : Content(a)[k] = Cells(a)[k]
  BY <1>2, Prefix DEF Content
<1> DEFINE sorted == [k \in 1 .. n |-> Content(a)[p[k]]]
<1>12. /\ sorted \in Seq(Cell) /\ Len(sorted) = n
       /\ \A k \in 1 .. n : sorted[k] = cells[k]
  <2>1. \A k \in 1 .. n : Content(a)[p[k]] = cells[k] /\ cells[k] \in Cell
    <3>1. ASSUME NEW k \in 1 .. n PROVE Content(a)[p[k]] = cells[k] /\ cells[k] \in Cell
      <4>1. p[k] \in 1 .. n /\ k \in 1 .. Len(cells)
        BY <1>2, <1>4, <1>5
      <4> QED BY <1>5, <1>11, <4>1
    <3> QED BY <3>1
  <2>2. sorted \in [1 .. n -> Cell] /\ \A k \in 1 .. n : sorted[k] = cells[k]
    BY <2>1
  <2> HIDE DEF sorted
  <2> QED BY <1>2, <2>2
<1>13. SubSeq(cells, 1, n) = sorted
  <2>1. /\ SubSeq(cells, 1, n) \in Seq(Cell) /\ Len(SubSeq(cells, 1, n)) = n
        /\ \A k \in 1 .. n : SubSeq(cells, 1, n)[k] = cells[k]
    BY <1>2, <1>5, Prefix
  <2> HIDE DEF sorted
  <2>2. \A k \in 1 .. n : SubSeq(cells, 1, n)[k] = sorted[k]
    BY <1>12, <2>1
  <2> QED BY <1>12, <2>1, <2>2, SeqEqual
<1>14. \A k \in 1 .. Len(sorted) - 1 : sorted[k] <= sorted[k + 1]
  <2> HIDE DEF sorted
  <2>1. ASSUME NEW k \in 1 .. n - 1 PROVE sorted[k] <= sorted[k + 1]
    <3>1. k \in 1 .. n /\ k + 1 \in 1 .. n
      BY <1>2
    <3> QED BY <1>6, <1>12, <3>1 DEF InOrder
  <2> QED BY <1>12, <2>1
<1>15. Existing[a] /\ Stacked[a] = Content(a) /\ Existing' = Existing
  BY <1>1, <1>10 DEF Existing, Stacked
<1>16. /\ p \in [DOMAIN Stacked[a] -> DOMAIN Stacked[a]] /\ {p[k] : k \in DOMAIN p} = DOMAIN p
       /\ sorted = [k \in DOMAIN Stacked[a] |-> Stacked[a][p[k]]]
       /\ Stacked' = [Stacked EXCEPT ![a] = sorted]
  BY <1>3, <1>10, <1>11, <1>13, <1>15 DEF Onto
<1> HIDE DEF sorted
<1>17. \E q \in [DOMAIN Stacked[a] -> DOMAIN Stacked[a]] :
         LET order == [k \in DOMAIN Stacked[a] |-> Stacked[a][q[k]]]
         IN  /\ {q[k] : k \in DOMAIN q} = DOMAIN q
             /\ \A k \in 1 .. Len(order) - 1 : order[k] <= order[k + 1]
             /\ Stacked' = [Stacked EXCEPT ![a] = order]
  BY <1>14, <1>16
<1> QED BY <1>1, <1>9, <1>15, <1>17, BecomesInv DEF S!Sort, Existing, Stacked

LEMMA DestroyStep ==
  ASSUME ArrayInv, NEW a \in Arr, Destroy(a)
  PROVE  ArrayInv' /\ S!Close(a)
<1>1. /\ Made(a) /\ head[a].nelem = 0 /\ head[a].elem \in Block /\ UNCHANGED <<each, answer>>
      /\ \A b \in Arr \ {a} : head[b].elem # head[a].elem
  BY Owner DEF Destroy
<1>2. /\ head'[a] = NoHead /\ ~Made(a)'
      /\ mem' = [mem EXCEPT ![head[a].elem] = Null]
      /\ head' = [head EXCEPT ![a] = NoHead]
  BY DEF Destroy, ArrayInv, Types, Made, NoHead
<1>3. ASSUME NEW d \in Arr \ {a}
      PROVE  /\ head'[d] = head[d] /\ Made(d)' = Made(d)
             /\ Made(d) => Cells(d)' = Cells(d) /\ mem'[head'[d].elem] = mem[head[d].elem]
  <2>1. head'[d] = head[d]
    BY <1>2 DEF ArrayInv, Types
  <2>2. ASSUME Made(d) PROVE mem'[head[d].elem] = mem[head[d].elem]
    <3>1. head[d].elem \in Block /\ head[d].elem # head[a].elem
      BY <1>1, <2>2, Owner
    <3> QED BY <1>2, <3>1 DEF ArrayInv, Types
  <2> QED BY <2>1, <2>2 DEF Made, Cells
<1>4. Types'
  <2>1. NoHead \in Heads
    BY DEF NoHead, Heads
  <2>2. mem' \in [Block -> Seq(Cell) \cup {Null}]
    BY <1>1, <1>2 DEF ArrayInv, Types
  <2> QED BY <1>1, <1>2, <2>1, <2>2 DEF ArrayInv, Types
<1>5. OneOwner'
  <2>1. ASSUME NEW d \in Block, mem'[d] # Null PROVE \E c \in Arr : head'[c].elem = d
    <3>1. d # head[a].elem /\ mem[d] # Null
      BY <1>1, <1>2, <2>1 DEF ArrayInv, Types
    <3>2. PICK c \in Arr : head[c].elem = d
      BY <3>1 DEF ArrayInv, OneOwner
    <3> QED BY <1>3, <3>1, <3>2
  <2>2. ASSUME NEW c \in Arr, Made(c)'
        PROVE  /\ mem'[head'[c].elem] # Null /\ Len(Cells(c)') = head'[c].nalloc
               /\ head'[c].nelem <= head'[c].nalloc
               /\ \A k \in 1 .. head'[c].nelem : Cells(c)'[k] \in Val
               /\ \A d \in Arr \ {c} : head'[d].elem # head'[c].elem
    <3>1. c # a
      BY <1>2, <2>2
    <3>2. Made(c) /\ head'[c] = head[c] /\ Cells(c)' = Cells(c)
      BY <1>3, <2>2, <3>1
    <3>3. mem'[head'[c].elem] # Null
      BY <1>3, <3>1, <3>2 DEF ArrayInv, OneOwner
    <3>4. ASSUME NEW d \in Arr \ {c} PROVE head'[d].elem # head'[c].elem
      BY <1>2, <1>3, <3>2, Owner, Constant DEF NoHead
    <3> QED BY <3>2, <3>3, <3>4, Owner
  <2> QED BY <2>1, <2>2 DEF OneOwner
<1>6. Sized'
  BY <1>2, <1>3 DEF ArrayInv, Sized, NoHead
<1>7. Walk'
  BY <1>1 DEF ArrayInv, Walk, Running, Idle
<1>8. EachInOrder'
  <2> SUFFICES ASSUME Running
               PROVE  each.n <= head'[each.arr].nelem
                      /\ each.seen = SubSeq(mem'[head'[each.arr].elem], 1, each.i)
    BY <1>1 DEF EachInOrder, Running, Cells
  <2>1. /\ each.arr \in Arr /\ each.n \in Nat /\ each.n >= 1 /\ each.n <= head[each.arr].nelem
        /\ each.seen = SubSeq(Cells(each.arr), 1, each.i)
    BY DEF ArrayInv, Types, Walk, EachInOrder, Running
  <2>2. each.arr # a
    BY <1>1, <2>1
  <2>3. Made(each.arr)
    BY <2>1 DEF ArrayInv, Sized
  <2> QED BY <1>3, <2>1, <2>2, <2>3 DEF Cells
<1>9. Existing' = [Existing EXCEPT ![a] = FALSE] /\ Stacked' = Stacked
  <2>1. Content(a) = <<>>
    BY <1>1, Owner DEF Content
  <2>2. \A d \in Arr \ {a} : Made(d)' = Made(d) /\ (Made(d) => Content(d)' = Content(d))
    BY <1>3 DEF Content
  <2>3. \A d \in Arr : Made(d)' = IF d = a THEN FALSE ELSE Made(d)
    <3>1. Made(a)' = FALSE
      BY <1>2 DEF Made
    <3>2. \A d \in Arr \ {a} : Made(d)' = Made(d)
      BY <2>2
    <3> QED BY <3>1, <3>2, Zenon
  <2>4. \A d \in Arr : (IF Made(d)' THEN Content(d)' ELSE <<>>) = IF Made(d) THEN Content(d) ELSE <<>>
    BY <1>1, <1>2, <2>1, <2>2
  <2>5. Existing' = [Existing EXCEPT ![a] = FALSE]
    BY <2>3 DEF Existing
  <2>6. Stacked' = Stacked
    BY <2>4 DEF Stacked
  <2> QED BY <2>5, <2>6
<1>10. Existing[a] /\ Stacked[a] = <<>>
  BY <1>1, Owner DEF Existing, Stacked, Content
<1> QED BY <1>1, <1>4, <1>5, <1>6, <1>7, <1>8, <1>9, <1>10 DEF ArrayInv, S!Close, Existing, Stacked

LEMMA ReadKeeps ==
  ASSUME ArrayInv, UNCHANGED <<head, mem, each>>
  PROVE  ArrayInv' /\ Existing' = Existing /\ Stacked' = Stacked
<1>1. \A a \in Arr : Made(a)' = Made(a) /\ Cells(a)' = Cells(a) /\ Content(a)' = Content(a)
  BY DEF Made, Cells, Content
<1> QED BY <1>1 DEF ArrayInv, Types, OneOwner, Sized, Walk, EachInOrder, Running, Existing, Stacked

LEMMA GetStep ==
  ASSUME ArrayInv, NEW a \in Arr, NEW idx \in 0 .. MaxLen - 1, Get(a, idx)
  PROVE  ArrayInv' /\ S!Get(a)
<1>1. Made(a) /\ idx < head[a].nelem /\ answer' = Cells(a)[idx + 1] /\ UNCHANGED <<head, mem, each>>
  BY DEF Get, Filled
<1>2. /\ head[a].nelem \in Nat /\ Content(a) \in Seq(Cell) /\ Len(Content(a)) = head[a].nelem
      /\ \A k \in 1 .. head[a].nelem : Content(a)[k] = Cells(a)[k]
  BY <1>1, Owner, Prefix DEF Content
<1>3. Stacked[a] = Content(a)
  BY <1>1 DEF Stacked
<1>4. idx + 1 \in 1 .. Len(Stacked[a]) /\ answer' = Stacked[a][idx + 1]
  BY <1>1, <1>2, <1>3, ArrayAssumption
<1>5. ArrayInv' /\ Existing' = Existing /\ Stacked' = Stacked
  BY <1>1, ReadKeeps
<1> QED BY <1>4, <1>5 DEF S!Get, Existing, Stacked

LEMMA SwapStep ==
  ASSUME ArrayInv, NEW a \in Arr, NEW b \in Arr, Swap(a, b)
  PROVE  ArrayInv' /\ S!Swap(a, b)
<1> DEFINE t(d) == IF d = a THEN b ELSE IF d = b THEN a ELSE d
<1>1. /\ Made(a) /\ Made(b) /\ each.arr # a /\ each.arr # b /\ UNCHANGED <<mem, each, answer>>
      /\ head' = [head EXCEPT ![a] = head[b], ![b] = head[a]]
  BY DEF Swap, Quiet
<1>2. \A d \in Arr : t(d) \in Arr /\ head'[d] = head[t(d)] /\ t(t(d)) = d
  BY <1>1 DEF ArrayInv, Types
<1> HIDE DEF t
<1>3. \A d \in Arr : Made(d)' = Made(t(d)) /\ Cells(d)' = Cells(t(d)) /\ Content(d)' = Content(t(d))
  BY <1>1, <1>2 DEF Made, Cells, Content
<1>4. Types'
  BY <1>1 DEF ArrayInv, Types
<1>5. OneOwner'
  <2>1. ASSUME NEW d \in Block, mem'[d] # Null PROVE \E c \in Arr : head'[c].elem = d
    <3>1. PICK c \in Arr : head[c].elem = d
      BY <1>1, <2>1 DEF ArrayInv, OneOwner
    <3>2. t(c) \in Arr /\ head'[t(c)] = head[c]
      BY <1>2
    <3> QED BY <3>1, <3>2
  <2>2. ASSUME NEW c \in Arr, Made(c)'
        PROVE  /\ mem'[head'[c].elem] # Null /\ Len(Cells(c)') = head'[c].nalloc
               /\ head'[c].nelem <= head'[c].nalloc
               /\ \A k \in 1 .. head'[c].nelem : Cells(c)'[k] \in Val
               /\ \A d \in Arr \ {c} : head'[d].elem # head'[c].elem
    <3>1. t(c) \in Arr /\ Made(t(c)) /\ head'[c] = head[t(c)] /\ Cells(c)' = Cells(t(c))
      BY <1>2, <1>3, <2>2
    <3>2. mem'[head'[c].elem] # Null
      BY <1>1, <3>1 DEF ArrayInv, OneOwner
    <3>3. ASSUME NEW d \in Arr \ {c} PROVE head'[d].elem # head'[c].elem
      <4>1. t(d) \in Arr \ {t(c)} /\ head'[d] = head[t(d)]
        BY <1>2
      <4> QED BY <3>1, <4>1, Owner
    <3> QED BY <3>1, <3>2, <3>3, Owner
  <2> QED BY <2>1, <2>2 DEF OneOwner
<1>6. Sized'
  BY <1>2, <1>3 DEF ArrayInv, Sized
<1>7. Walk'
  BY <1>1 DEF ArrayInv, Walk, Running, Idle
<1>8. EachInOrder'
  <2> SUFFICES ASSUME Running
               PROVE  each.n <= head'[each.arr].nelem
                      /\ each.seen = SubSeq(mem'[head'[each.arr].elem], 1, each.i)
    BY <1>1 DEF EachInOrder, Running, Cells
  <2>1. each.arr \in Arr /\ t(each.arr) = each.arr
    BY <1>1 DEF ArrayInv, Types, Running, t
  <2> QED BY <1>1, <1>2, <2>1 DEF ArrayInv, EachInOrder, Cells
<1>9. Existing' = Existing
  <2>1. ASSUME NEW d \in Arr PROVE Made(d)' = Made(d)
    BY <1>1, <1>3 DEF t
  <2> QED BY <2>1 DEF Existing
<1>10. Stacked' = [Stacked EXCEPT ![a] = Stacked[b], ![b] = Stacked[a]]
  <2>1. ASSUME NEW d \in Arr
        PROVE  (IF Made(d)' THEN Content(d)' ELSE <<>>) = Stacked[t(d)]
    BY <1>2, <1>3 DEF Stacked
  <2>2. Stacked' = [d \in Arr |-> Stacked[t(d)]]
    BY <2>1 DEF Stacked
  <2> QED BY <2>2 DEF t, Stacked
<1>11. Existing[a] /\ Existing[b]
  BY <1>1 DEF Existing
<1> QED BY <1>1, <1>4, <1>5, <1>6, <1>7, <1>8, <1>9, <1>10, <1>11
        DEF ArrayInv, S!Swap, Existing, Stacked

-----------------------------------------------------------------------------
(* array_each leaves the arrays as they are. *)
LEMMA EachStep ==
  ASSUME ArrayInv, EachVisit \/ EachEnd \/ \E a \in Arr : EachStart(a)
  PROVE  ArrayInv' /\ Existing' = Existing /\ Stacked' = Stacked /\ UNCHANGED answer
<1>1. UNCHANGED <<head, mem, answer>>
  BY DEF EachVisit, EachEnd, EachStart
<1>2. \A a \in Arr : Made(a)' = Made(a) /\ Cells(a)' = Cells(a) /\ Content(a)' = Content(a)
  BY <1>1 DEF Made, Cells, Content
<1>3. OneOwner' /\ Sized' /\ Existing' = Existing /\ Stacked' = Stacked
  BY <1>1, <1>2 DEF ArrayInv, OneOwner, Sized, Existing, Stacked
<1>4. /\ each' \in [arr : Arr \cup {Null}, i : Nat, n : Nat, seen : Seq(Cell)]
      /\ Walk' /\ EachInOrder'
  <2>1. CASE EachEnd
    BY <2>1 DEF EachEnd, Idle, Walk, EachInOrder, Running
  <2>2. CASE \E a \in Arr : EachStart(a)
    <3>1. PICK a \in Arr : EachStart(a)
      BY <2>2
    <3>2. Made(a) /\ head[a].nelem # 0 /\ each' = [arr |-> a, i |-> 0, n |-> head[a].nelem, seen |-> <<>>]
      BY <3>1 DEF EachStart, Filled
    <3>3. head[a].nelem \in Nat /\ Cells(a) \in Seq(Cell)
      BY <3>2, Owner
    <3>4. SubSeq(Cells(a), 1, 0) = <<>>
      BY <3>3
    <3>5. each' \in [arr : Arr \cup {Null}, i : Nat, n : Nat, seen : Seq(Cell)] /\ Walk'
      BY <3>2, <3>3, Constant DEF Walk, Running
    <3>6. each'.n <= head'[each'.arr].nelem /\ each'.seen = SubSeq(Cells(a)', 1, each'.i)
      BY <1>1, <1>2, <3>2, <3>3, <3>4
    <3> QED BY <1>1, <3>2, <3>5, <3>6 DEF EachInOrder, Cells
  <2>3. CASE EachVisit
    <3> DEFINE a == each.arr
    <3>1. /\ a \in Arr /\ each.i \in Nat /\ each.n \in Nat /\ each.i < each.n
          /\ each.n >= 1 /\ each.n <= head[a].nelem
          /\ each.seen = SubSeq(Cells(a), 1, each.i) /\ each.seen \in Seq(Cell)
      BY <2>3 DEF EachVisit, ArrayInv, Types, Walk, EachInOrder, Running
    <3>2. Made(a)
      BY <3>1 DEF ArrayInv, Sized
    <3>3. /\ Cells(a) \in Seq(Cell) /\ head[a].nelem \in Nat /\ head[a].nalloc \in Nat
          /\ Len(Cells(a)) = head[a].nalloc /\ head[a].nelem <= head[a].nalloc
      BY <3>1, <3>2, Owner
    <3>4. each' = [arr |-> a, i |-> each.i + 1, n |-> each.n, seen |-> Visited]
      BY <2>3 DEF EachVisit, ArrayInv, Types
    <3>5. each.i + 1 \in 1 .. Len(Cells(a))
      BY <3>1, <3>3
    <3>6. Cells(a)[each.i + 1] \in Cell
      BY <3>3, <3>5
    <3>7. SubSeq(Cells(a), 1, each.i + 1) = Visited
      <4>1. \A v \in Cell : Cells(a)[each.i + 1] = v =>
              SubSeq(Cells(a), 1, each.i + 1) = Append(SubSeq(Cells(a), 1, each.i), v)
        <5> DEFINE cells == Cells(a)
                   n == each.i
        <5>1. cells \in Seq(Cell) /\ n \in Nat /\ n < Len(cells) /\ n <= Len(cells)
          BY <3>1, <3>3
        <5> HIDE DEF cells, n
        <5>2. \A v \in Cell : cells[n + 1] = v => SubSeq(cells, 1, n + 1) = Append(SubSeq(cells, 1, n), v)
          BY <5>1, Longer
        <5> QED BY <5>2 DEF cells, n
      <4> QED BY <3>1, <4>1 DEF Visited
    <3>8. Visited \in Seq(Cell)
      BY <3>1, <3>6 DEF Visited
    <3>9. each' \in [arr : Arr \cup {Null}, i : Nat, n : Nat, seen : Seq(Cell)] /\ Walk'
      BY <3>1, <3>4, <3>8, Constant DEF Walk, Running
    <3>10. each'.n <= head'[each'.arr].nelem /\ each'.seen = SubSeq(Cells(a)', 1, each'.i)
      BY <1>1, <1>2, <3>1, <3>4, <3>7
    <3> QED BY <1>1, <3>4, <3>10, <3>9 DEF EachInOrder, Cells
  <2> QED BY <2>1, <2>2, <2>3
<1> QED BY <1>1, <1>3, <1>4 DEF ArrayInv, Types

-----------------------------------------------------------------------------
(* Every step of the arrays keeps the invariant and is a step of the stacks,
   or none. *)
LEMMA ArrayStep ==
  ASSUME ArrayInv, [ArrayNext]_arrayVars
  PROVE  ArrayInv' /\ [S!Next]_(S!vars)
<1> USE DEF Existing, Stacked
<1>1. ASSUME NEW a \in Arr, Create(a) PROVE ArrayInv' /\ [S!Next]_(S!vars)
  BY <1>1, CreateStep DEF S!Next
<1>2. ASSUME NEW a \in Arr, Destroy(a) PROVE ArrayInv' /\ [S!Next]_(S!vars)
  BY <1>2, DestroyStep DEF S!Next
<1>3. ASSUME NEW a \in Arr, NEW v \in Val, Push(a, v) \/ GrowPush(a, v)
      PROVE  ArrayInv' /\ [S!Next]_(S!vars)
  BY <1>3, PushStep DEF S!Next
<1>4. ASSUME NEW a \in Arr, Pop(a) PROVE ArrayInv' /\ [S!Next]_(S!vars)
  BY <1>4, PopStep DEF S!Next
<1>5. ASSUME NEW a \in Arr, NEW idx \in 0 .. MaxLen - 1, Get(a, idx)
      PROVE  ArrayInv' /\ [S!Next]_(S!vars)
  BY <1>5, GetStep DEF S!Next
<1>6. ASSUME NEW a \in Arr, Sort(a) PROVE ArrayInv' /\ [S!Next]_(S!vars)
  BY <1>6, SortStep DEF S!Next
<1>7. ASSUME NEW a \in Arr, NEW b \in Arr, Swap(a, b) PROVE ArrayInv' /\ [S!Next]_(S!vars)
  BY <1>7, SwapStep DEF S!Next
<1>8. ASSUME EachVisit \/ EachEnd \/ \E a \in Arr : EachStart(a)
      PROVE  ArrayInv' /\ [S!Next]_(S!vars)
  BY <1>8, EachStep DEF S!vars
<1>9. ASSUME UNCHANGED arrayVars PROVE ArrayInv' /\ [S!Next]_(S!vars)
  <2>1. UNCHANGED <<head, mem, each, answer>>
    BY <1>9 DEF arrayVars
  <2> QED BY <2>1, ReadKeeps DEF S!vars
<1> QED BY <1>1, <1>2, <1>3, <1>4, <1>5, <1>6, <1>7, <1>8, <1>9 DEF ArrayNext, PushFails

LEMMA AllStored ==
  ASSUME NEW s \in Seq(Cell), \A k \in 1 .. Len(s) : s[k] \in Val
  PROVE  s \in Seq(Val)
<1>1. Len(s) \in Nat /\ s = [k \in 1 .. Len(s) |-> s[k]]
  OBVIOUS
<1>2. s \in [1 .. Len(s) -> Val]
  BY <1>1
<1> QED BY <1>1, <1>2

LEMMA TypesOK == ArrayInv => ArrayTypeOK
<1> SUFFICES ASSUME ArrayInv PROVE ArrayTypeOK
  OBVIOUS
<1>1. CASE ~Running
  BY <1>1 DEF ArrayInv, Types, Heads, Cell, Walk, Idle, ArrayTypeOK
<1>2. CASE Running
  <2>1. /\ each.arr \in Arr /\ each.i \in Nat /\ each.n \in Nat /\ each.i <= each.n
        /\ each.n >= 1 /\ each.n <= head[each.arr].nelem
        /\ each.seen = SubSeq(Cells(each.arr), 1, each.i)
    BY <1>2 DEF ArrayInv, Types, Walk, EachInOrder, Running
  <2>2. Made(each.arr)
    BY <2>1 DEF ArrayInv, Sized
  <2>3. /\ Cells(each.arr) \in Seq(Cell) /\ each.i <= Len(Cells(each.arr))
        /\ \A k \in 1 .. each.i : Cells(each.arr)[k] \in Val
    <3>1. /\ Cells(each.arr) \in Seq(Cell) /\ Len(Cells(each.arr)) = head[each.arr].nalloc
          /\ head[each.arr].nelem \in Nat /\ head[each.arr].nelem <= head[each.arr].nalloc
          /\ \A k \in 1 .. head[each.arr].nelem : Cells(each.arr)[k] \in Val
      BY <2>1, <2>2, Owner
    <3>2. \A k \in 1 .. each.i : k \in 1 .. head[each.arr].nelem
      BY <2>1, <3>1
    <3>3. head[each.arr].nalloc \in Nat
      BY <2>1, <2>2, Owner
    <3> QED BY <2>1, <3>1, <3>2, <3>3
  <2>4. each.seen \in Seq(Val)
    <3>1. /\ each.seen \in Seq(Cell) /\ Len(each.seen) = each.i
          /\ \A k \in 1 .. each.i : each.seen[k] = Cells(each.arr)[k]
      BY <2>1, <2>3, Prefix
    <3>2. \A k \in 1 .. Len(each.seen) : each.seen[k] \in Val
      BY <2>3, <3>1
    <3> QED BY <3>1, <3>2, AllStored
  <2> QED BY <2>1, <2>4 DEF ArrayInv, Types, Heads, Cell, ArrayTypeOK
<1> QED BY <1>1, <1>2

(* In every reachable state the headers, the blocks and the running array_each
   are well formed and agree (array.c:5-190). *)
THEOREM ArrayInvariant == ArraySpec => []ArrayInv
<1>1. ArrayInv /\ [ArrayNext]_arrayVars => ArrayInv'
  BY ArrayStep
<1> QED BY <1>1, ArrayInvInit, PTL DEF ArraySpec

(* The types of the headers, the blocks and the values seen (array.h:9-14). *)
THEOREM ArrayTypes == ArraySpec => []ArrayTypeOK
BY ArrayInvariant, TypesOK, PTL

(* Whatever grows, moves, is refused or swapped, every block has one owner,
   the room the owner believes it has, and stored values in the cells that
   count (array.c:84-152). *)
THEOREM BlocksOwned == ArraySpec => []OneOwner
<1>1. ArrayInv => OneOwner
  BY DEF ArrayInv
<1> QED BY <1>1, ArrayInvariant, PTL

(* array_each visits the elements there were when it began, in order, although
   its callback pushes (array.c:169-190). *)
THEOREM EachVisitsAll == ArraySpec => []EachInOrder
<1>1. ArrayInv => EachInOrder
  BY DEF ArrayInv
<1> QED BY <1>1, ArrayInvariant, PTL

(* The arrays over the heap are the stacks array.h promises (array.c:5-190). *)
THEOREM ImplementsStacks == ArraySpec => StackSpec
<1>1. ArrayInit => S!Init
  <2> SUFFICES ASSUME ArrayInit PROVE S!Init
    OBVIOUS
  <2>1. \A a \in Arr : Made(a) = FALSE
    BY DEF ArrayInit, Made, NoHead
  <2>2. [a \in Arr |-> Made(a)] = [a \in Arr |-> FALSE]
    BY <2>1, Zenon
  <2>3. [a \in Arr |-> IF Made(a) THEN Content(a) ELSE <<>>] = [a \in Arr |-> <<>>]
    BY <2>1
  <2> QED BY <2>2, <2>3 DEF ArrayInit, S!Init
<1>2. ArrayInv /\ [ArrayNext]_arrayVars => [S!Next]_(S!vars)
  BY ArrayStep
<1> QED BY <1>1, <1>2, ArrayInvariant, PTL DEF ArraySpec, StackSpec, S!Spec

-----------------------------------------------------------------------------
(* The web server *)

(* What the daemon has open at each place of its loop. *)
Handover ==
  /\ daemon \in {"socket", "exited"} => open[Daemon] = {}
  /\ daemon = "accept" => open[Daemon] = {Listener}
  /\ daemon \in {"fork", "close"} => \E c \in Client : open[Daemon] = {Listener, c}

(* A child has its own descriptors only, and none before it is forked. *)
Owned == \A c \in Client :
           /\ open[c] \subseteq {Listener, Page, c}
           /\ Listener \in open[c] => child[c] = "forked"

(* A client that has not been accepted is unknown to every process. *)
Queue == \A c \in Client :
           peer[c] \in {"away", "queued"} => child[c] = "none" /\ c \notin open[Daemon]

WebInv == WebTypeOK /\ Handover /\ Owned /\ Queue

Codes == {200, 403, 404} \cup 1 .. PageSize

ChildStages == {"none", "forked", "read", "check", "open", "header", "send", "exit", "exited"}

LEMMA InitInv == WebInit => WebInv
BY NwebAssumption DEF WebInit, WebInv, WebTypeOK, Handover, Owned, Queue, Processes

LEMMA PrivateFromInv == WebInv => Private
<1> SUFFICES ASSUME WebInv PROVE Private
  OBVIOUS
<1>1. daemon \in {"socket", "accept", "exited"} => Accepted = {}
  BY NwebAssumption DEF WebInv, Handover, Accepted
<1>2. ASSUME NEW c \in Client
      PROVE  open[c] \cap Client \subseteq {c} /\ (Listener \in open[c] => child[c] = "forked")
  BY NwebAssumption DEF WebInv, Owned
<1> QED BY <1>1, <1>2 DEF Private

(* A step of web for c leaves the other processes alone. *)
LEMMA WebStep ==
  ASSUME WebInv, NEW c \in Client, Web(c)
  PROVE  WebInv'
<1>0. /\ WebTypeOK /\ Handover /\ Owned /\ Queue /\ c # Daemon /\ c \in Processes
      /\ child \in [Client -> ChildStages]
  BY NwebAssumption DEF WebInv, Processes, WebTypeOK, ChildStages
<1>1. /\ UNCHANGED <<daemon, peer, request>>
      /\ reply' \in [Client -> Seq(Codes)]
      /\ \E s \in ChildStages \ {"none", "forked"} : child' = [child EXCEPT ![c] = s]
      /\ \E d \in SUBSET (open[c] \cup {Page}) :
           open' = [open EXCEPT ![c] = d] /\ Listener \notin d
      /\ sent' \in [Client -> 0 .. PageSize]
  <2>0. child[c] # "forked" => Listener \notin open[c]
    BY <1>0 DEF Owned
  <2>1. /\ sent \in [Client -> Nat] /\ \A d \in Client : sent[d] \in 0 .. PageSize
        /\ PageSize \in Nat /\ Listener # Page /\ open \in [Processes -> SUBSET ({Listener, Page} \cup Client)]
    BY <1>0, NwebAssumption DEF WebTypeOK
  <2>1a. /\ \A x \in Codes : Told(c, x) => reply' \in [Client -> Seq(Codes)]
         /\ {200, 403, 404} \cup 1 .. PageSize = Codes
         /\ reply' = reply => reply' \in [Client -> Seq(Codes)]
    <3>1. reply \in [Client -> Seq(Codes)]
      BY <1>0 DEF WebTypeOK, Codes
    <3>2. ASSUME NEW x \in Codes, Told(c, x) PROVE reply' \in [Client -> Seq(Codes)]
      <4>1. reply[c] \in Seq(Codes) /\ Append(reply[c], x) \in Seq(Codes)
        BY <3>1
      <4> QED BY <3>1, <3>2, <4>1 DEF Told
    <3> QED BY <3>1, <3>2 DEF Codes
  <2>2. open' = open => open' = [open EXCEPT ![c] = open[c]]
    BY <2>1, <1>0
  <2>3. child[c] = "send" => [child EXCEPT ![c] = "send"] = child
    BY <1>0
  <2>4. CASE ChildStart(c)
    BY <1>0, <2>0, <2>1, <2>1a, <2>4 DEF ChildStart, WebTypeOK, ChildStages
  <2>5. CASE Read(c)
    BY <1>0, <2>0, <2>1, <2>1a, <2>2, <2>5
    DEF Read, Refuse, Passes, GoesTo, After, WebTypeOK, ChildStages
  <2>6. CASE Check(c)
    BY <1>0, <2>0, <2>1, <2>1a, <2>2, <2>6
    DEF Check, Refuse, Passes, GoesTo, After, WebTypeOK, ChildStages
  <2>7. CASE OpenPage(c)
    BY <1>0, <2>0, <2>1, <2>1a, <2>2, <2>7
    DEF OpenPage, Refuse, Passes, GoesTo, After, WebTypeOK, ChildStages
  <2>8. CASE Header(c)
    BY <1>0, <2>0, <2>1, <2>1a, <2>2, <2>8 DEF Header, Killed, GoesTo, WebTypeOK, ChildStages
  <2>9. CASE SendBlock(c)
    <3>1. sent' \in [Client -> 0 .. PageSize]
      BY <1>0, <2>1, <2>9 DEF SendBlock
    <3>2. sent[c] + 1 \in 1 .. PageSize
      BY <1>0, <2>1, <2>9 DEF SendBlock
    <3>3. reply' \in [Client -> Seq(Codes)]
      BY <2>1a, <2>9, <3>2 DEF SendBlock
    <3> QED BY <1>0, <2>0, <2>2, <2>3, <2>9, <3>1, <3>3 DEF SendBlock, Killed, GoesTo, WebTypeOK, ChildStages
  <2>10. CASE Drain(c)
    BY <1>0, <2>0, <2>1, <2>1a, <2>10 DEF Drain, GoesTo, WebTypeOK, ChildStages
  <2>11. CASE Exit(c)
    BY <1>0, <2>0, <2>1, <2>1a, <2>11 DEF Exit, GoesTo, WebTypeOK, ChildStages
  <2> QED BY <2>4, <2>5, <2>6, <2>7, <2>8, <2>9, <2>10, <2>11 DEF Web
<1>2. PICK s \in ChildStages \ {"none", "forked"} : child' = [child EXCEPT ![c] = s]
  BY <1>1
<1>3. PICK d \in SUBSET (open[c] \cup {Page}) :
        open' = [open EXCEPT ![c] = d] /\ Listener \notin d
  BY <1>1
<1>4. WebTypeOK'
  BY <1>0, <1>1, <1>2, <1>3 DEF WebTypeOK, ChildStages, Processes, Codes
<1>5. Handover'
  BY <1>0, <1>1, <1>3 DEF Handover, WebTypeOK, Processes
<1>6. Owned'
  BY <1>0, <1>2, <1>3 DEF Owned, WebTypeOK, Processes
<1>7. Queue'
  <2>1. child[c] # "none"
    BY DEF Web, ChildStart, Read, Check, OpenPage, Header, SendBlock, Drain, Exit
  <2> QED BY <1>0, <1>1, <1>2, <1>3, <2>1 DEF Queue, WebTypeOK, Processes
<1> QED BY <1>4, <1>5, <1>6, <1>7 DEF WebInv

LEMMA MainStep ==
  ASSUME WebInv, Main \/ DaemonFails
  PROVE  WebInv'
<1>0. /\ WebTypeOK /\ Handover /\ Owned /\ Queue /\ Daemon \in Processes /\ Daemon \notin Client
      /\ \A c \in Client : c \in Processes /\ c # Daemon
      /\ open \in [Processes -> SUBSET ({Listener, Page} \cup Client)]
  BY NwebAssumption DEF WebInv, Processes, WebTypeOK
<1>1. CASE Socket
  <2>1. WebTypeOK' BY <1>0, <1>1 DEF Socket, WebTypeOK
  <2>2. Handover' BY <1>0, <1>1 DEF Socket, Handover
  <2>3. Owned' BY <1>0, <1>1 DEF Socket, Owned
  <2>4. Queue' BY <1>0, <1>1, NwebAssumption DEF Socket, Queue, WebTypeOK
  <2> QED BY <2>1, <2>2, <2>3, <2>4 DEF WebInv
<1>2. ASSUME NEW c \in Client, Accept(c)
      PROVE  WebInv'
  <2>1. WebTypeOK' BY <1>0, <1>2 DEF Accept, WebTypeOK
  <2>2. open'[Daemon] = {Listener, c} /\ daemon' = "fork"
    BY <1>0, <1>2 DEF Accept, Handover
  <2>3. Owned' BY <1>0, <1>2 DEF Accept, Owned
  <2>4. Queue' BY <1>0, <1>2 DEF Accept, Queue, WebTypeOK
  <2> QED BY <2>1, <2>2, <2>3, <2>4 DEF WebInv, Handover
<1>3. CASE Fork
  <2>1. PICK c \in Accepted : /\ child' = [child EXCEPT ![c] = "forked"]
                              /\ open' = [open EXCEPT ![c] = open[Daemon]]
    BY <1>3 DEF Fork
  <2>2. c \in Client /\ open[Daemon] = {Listener, c}
    BY <1>0, <1>3, <2>1, NwebAssumption DEF Fork, Accepted, Handover
  <2>3. WebTypeOK' BY <1>0, <1>3, <2>1, <2>2 DEF Fork, WebTypeOK
  <2>4. Handover' BY <1>0, <1>3, <2>1, <2>2 DEF Fork, Handover
  <2>5. Owned' BY <1>0, <2>1, <2>2 DEF Owned, WebTypeOK
  <2>6. Queue' BY <1>0, <1>3, <2>1, <2>2 DEF Fork, Queue, WebTypeOK
  <2> QED BY <2>3, <2>4, <2>5, <2>6 DEF WebInv
<1>4. CASE Close
  <2>1. WebTypeOK' BY <1>0, <1>4 DEF Close, WebTypeOK
  <2>2. Handover' BY <1>0, <1>4 DEF Close, Handover
  <2>3. Owned' BY <1>0, <1>4 DEF Close, Owned
  <2>4. Queue' BY <1>0, <1>4, NwebAssumption DEF Close, Queue, WebTypeOK
  <2> QED BY <2>1, <2>2, <2>3, <2>4 DEF WebInv
<1>5. CASE DaemonFails
  <2>1. WebTypeOK' BY <1>0, <1>5 DEF DaemonFails, WebTypeOK
  <2>2. Handover' BY <1>0, <1>5 DEF DaemonFails, Handover
  <2>3. Owned' BY <1>0, <1>5 DEF DaemonFails, Owned
  <2>4. Queue' BY <1>0, <1>5, NwebAssumption DEF DaemonFails, Queue, WebTypeOK
  <2> QED BY <2>1, <2>2, <2>3, <2>4 DEF WebInv
<1> QED BY <1>1, <1>2, <1>3, <1>4, <1>5 DEF Main

LEMMA ClientStep ==
  ASSUME WebInv, NEW c \in Client, Connect(c) \/ SendRequest(c) \/ HangUp(c)
  PROVE  WebInv'
<1>1. /\ UNCHANGED <<daemon, child, open, sent, reply>>
      /\ peer' \in [Client -> {"away", "queued", "there", "left"}]
      /\ request' \in [Client -> {<<>>} \cup {<<r>> : r \in Requests}]
  <2>1. CASE Connect(c)
    BY <2>1 DEF WebInv, WebTypeOK, Connect
  <2>2. CASE SendRequest(c)
    <3>1. PICK r \in Requests : request' = [request EXCEPT ![c] = <<r>>]
      BY <2>2 DEF SendRequest
    <3>2. <<r>> \in {<<>>} \cup {<<q>> : q \in Requests}
      OBVIOUS
    <3> QED BY <2>2, <3>1, <3>2 DEF WebInv, WebTypeOK, SendRequest
  <2>3. CASE HangUp(c)
    BY <2>3 DEF WebInv, WebTypeOK, HangUp
  <2> QED BY <2>1, <2>2, <2>3
<1>2. \A d \in Client : peer'[d] \in {"away", "queued"} => peer[d] \in {"away", "queued"}
  BY DEF WebInv, WebTypeOK, Connect, SendRequest, HangUp
<1> QED BY <1>1, <1>2 DEF WebInv, WebTypeOK, Handover, Owned, Queue

LEMMA StepInv == WebInv /\ [WebNext]_webVars => WebInv'
<1> SUFFICES ASSUME WebInv, [WebNext]_webVars PROVE WebInv'
  OBVIOUS
<1>1. CASE Main \/ DaemonFails
  BY <1>1, MainStep
<1>2. ASSUME NEW c \in Client, Web(c) \/ Connect(c) \/ SendRequest(c) \/ HangUp(c)
      PROVE  WebInv'
  BY <1>2, WebStep, ClientStep
<1>3. CASE UNCHANGED webVars
  BY <1>3 DEF webVars, WebInv, WebTypeOK, Handover, Owned, Queue
<1> QED BY <1>1, <1>2, <1>3 DEF WebNext

(* Every state has what WebInv says: the daemon's descriptors at each place of
   its loop, and the children's (nweb.c:164-202). *)
THEOREM WebInvariant == WebSpec => []WebInv
BY InitInv, StepInv, PTL DEF WebSpec

(* No child ever has another one's connection or serves with the listening
   socket open, and the daemon has a connection only while it hands it over. *)
THEOREM PrivateAlways == WebSpec => []Private
BY WebInvariant, PrivateFromInv, PTL

-----------------------------------------------------------------------------
(* OneAnswer *)

Asked(q) == \E r \in Requests : q = <<r>>
AllSent    == <<200>> \o [k \in 1 .. PageSize |-> k]

(* What has been asked and answered at each place s of web: q is the request,
   a the reply, n the blocks sent, p where the client is. *)
AnswerAt(s, q, a, n, p) ==
  /\ q = <<>> \/ Asked(q)
  /\ s \in {"none", "forked", "read", "check", "open", "header"} => a = <<>> /\ n = 0
  /\ s \in {"check", "open", "header", "send"} => Asked(q)
  /\ s = "open" => q[1] \cap (Checks \ {"open"}) = {}
  /\ s \in {"header", "send"} => q[1] = {}
  /\ s = "send" /\ p = "there" => a = SubSeq(AllSent, 1, n + 1)
  /\ a # <<>> => Asked(q) /\ Starts(a, Right(q[1]))
  /\ s \in {"exit", "exited"} /\ p = "there" => Asked(q) /\ a = Right(q[1])

Answer(c) == AnswerAt(child[c], request[c], reply[c], sent[c], peer[c])
Answers   == \A c \in Client : Answer(c)

(* The pieces of a page, put one behind the other, are the beginnings of the
   answer. *)
LEMMA Pieces ==
  /\ AllSent \in Seq(Nat) /\ Len(AllSent) = PageSize + 1
  /\ SubSeq(AllSent, 1, 1) = <<200>>
  /\ \A n \in 0 .. PageSize - 1 : Append(SubSeq(AllSent, 1, n + 1), n + 1) = SubSeq(AllSent, 1, n + 2)
  /\ SubSeq(AllSent, 1, PageSize + 1) = AllSent
<1> DEFINE blocks == [k \in 1 .. PageSize |-> k]
<1>0. PageSize \in Nat
  BY NwebAssumption
<1>1. blocks \in Seq(Nat) /\ Len(blocks) = PageSize /\ \A k \in 1 .. PageSize : blocks[k] = k
  BY <1>0
<1> HIDE DEF blocks
<1>2. AllSent = <<200>> \o blocks
  BY DEF AllSent, blocks
<1>3. /\ AllSent \in Seq(Nat) /\ Len(AllSent) = PageSize + 1
      /\ AllSent[1] = 200 /\ \A k \in 1 .. PageSize : AllSent[k + 1] = k
  BY <1>0, <1>1, <1>2
<1>4. SubSeq(AllSent, 1, 1) = <<200>>
  <2>1. Len(SubSeq(AllSent, 1, 1)) = 1 /\ SubSeq(AllSent, 1, 1)[1] = 200
    BY <1>0, <1>3
  <2>2. SubSeq(AllSent, 1, 1) \in Seq(Nat) /\ <<200>> \in Seq(Nat) /\ Len(<<200>>) = 1
    BY <1>0, <1>3
  <2>3. ASSUME NEW u \in Seq(Nat), Len(u) = 1, u[1] = 200 PROVE u = <<200>>
    <3>1. Len(u) = Len(<<200>>) /\ \A i \in 1 .. Len(u) : u[i] = <<200>>[i]
      BY <2>3
    <3> QED BY <2>2, <3>1, SeqEqual
  <2> QED BY <2>1, <2>2, <2>3
<1>5. ASSUME NEW n \in 0 .. PageSize - 1
      PROVE  Append(SubSeq(AllSent, 1, n + 1), n + 1) = SubSeq(AllSent, 1, n + 2)
  BY <1>0, <1>3
<1>6. SubSeq(AllSent, 1, PageSize + 1) = AllSent
  BY <1>0, <1>3
<1> QED BY <1>3, <1>4, <1>5, <1>6

(* A refusal is all of its answer. *)
LEMMA Refusals ==
  /\ \A r \in Requests : r \cap (Checks \ {"open"}) # {} => Right(r) = <<403>>
  /\ \A r \in Requests : r \cap (Checks \ {"open"}) = {} /\ "open" \in r => Right(r) = <<404>>
  /\ \A r \in Requests : r \cap (Checks \ {"open"}) = {} /\ "open" \notin r => r = {}
  /\ Right({}) = AllSent
  /\ Starts(<<403>>, <<403>>) /\ Starts(<<404>>, <<404>>)
<1>1. \A r \in Requests : r \subseteq Checks
  BY NwebAssumption
<1>2. ASSUME NEW x \in Nat PROVE Starts(<<x>>, <<x>>)
  <2>1. <<x>> = SubSeq(<<x>>, 1, 1) /\ Len(<<x>>) = 1
    OBVIOUS
  <2> QED BY <2>1 DEF Starts
<1> QED BY <1>1, <1>2 DEF Right, AllSent, Checks

LEMMA AnswersInit == WebInit => Answers
BY DEF WebInit, Answers, Answer, AnswerAt

LEMMA OneAnswerFromInv == Answers => OneAnswer
<1> SUFFICES ASSUME Answers, NEW c \in Client
             PROVE  /\ reply[c] # <<>> =>
                         request[c] # <<>> /\ Starts(reply[c], Right(request[c][1]))
                    /\ child[c] = "exited" /\ peer[c] = "there" =>
                         reply[c] = Right(request[c][1])
  BY DEF OneAnswer
<1> QED BY DEF Answers, Answer, AnswerAt, Asked

LEMMA AnswersWeb ==
  ASSUME WebTypeOK, Answers, NEW c \in Client, Web(c)
  PROVE  Answers'
<1>0. /\ Answer(c) /\ PageSize \in Nat /\ sent[c] \in 0 .. PageSize
      /\ \A q : Asked(q) => q # <<>> /\ q[1] \in Requests
  BY NwebAssumption DEF Answers, WebTypeOK, Asked
<1>1. /\ UNCHANGED <<peer, request>>
      /\ \A d \in Client \ {c} : child'[d] = child[d] /\ reply'[d] = reply[d] /\ sent'[d] = sent[d]
  BY DEF WebTypeOK, Web, ChildStart, Read, Check, OpenPage, Header, SendBlock, Drain, Exit,
         Refuse, Passes, GoesTo, Killed, Told
<1>2. ASSUME NEW d \in Client \ {c} PROVE Answer(d)'
  BY <1>1, <1>2 DEF Answers, Answer
<1>3. Answer(c)'
  <2>1. \A s : GoesTo(c, s) => child'[c] = s
    BY DEF GoesTo, WebTypeOK
  <2>2. \A x : Told(c, x) => IF peer[c] = "there" THEN reply'[c] = Append(reply[c], x)
                             ELSE reply'[c] = reply[c]
    BY DEF Told, WebTypeOK
  <2>3. AnswerAt(child[c], request[c], reply[c], sent[c], peer[c])
    BY <1>0 DEF Answer
  <2>4. SUFFICES AnswerAt(child'[c], request[c], reply'[c], sent'[c], peer[c])
    BY <1>1 DEF Answer
  <2>5. CASE ChildStart(c)
    BY <2>3, <2>5 DEF ChildStart, AnswerAt, WebTypeOK
  <2>6. ASSUME NEW x \in {403, 404}, child[c] \in {"check", "open"}, sent'[c] = 0,
               Right(request[c][1]) = <<x>>, Starts(<<x>>, <<x>>), Refuse(c, x)
        PROVE  AnswerAt(child'[c], request[c], reply'[c], sent'[c], peer[c])
    <3>1. reply[c] = <<>> /\ Asked(request[c]) /\ child'[c] = "exit"
      BY <2>1, <2>3, <2>6 DEF Refuse, AnswerAt
    <3>2. IF peer[c] = "there" THEN reply'[c] = <<x>> ELSE reply'[c] = <<>>
      BY <2>2, <2>6, <3>1 DEF Refuse
    <3> QED BY <2>6, <3>1, <3>2 DEF AnswerAt
  <2>7. CASE Read(c)
    <3>1. CASE request[c] = <<>>
      BY <2>1, <2>2, <2>3, <2>7, <3>1 DEF Read, Refuse, AnswerAt
    <3>2. CASE request[c] # <<>>
      BY <2>1, <2>3, <2>7, <3>2 DEF Read, Passes, After, AnswerAt
    <3> QED BY <3>1, <3>2
  <2>8. CASE Check(c)
    <3>1. child[c] = "check" /\ sent'[c] = 0 /\ Asked(request[c]) /\ request[c] # <<>>
      BY <1>0, <2>3, <2>8 DEF Check, AnswerAt
    <3>2. CASE Fails(c, Checks \ {"open"})
      BY <1>0, <2>6, <2>8, <3>1, <3>2, Refusals DEF Check, Fails
    <3>3. CASE ~Fails(c, Checks \ {"open"})
      BY <2>1, <2>3, <2>8, <3>1, <3>3 DEF Check, Fails, Passes, After, AnswerAt
    <3> QED BY <3>2, <3>3
  <2>9. CASE OpenPage(c)
    <3>1. /\ child[c] = "open" /\ sent'[c] = 0 /\ Asked(request[c]) /\ request[c] # <<>>
          /\ request[c][1] \cap (Checks \ {"open"}) = {}
      BY <1>0, <2>3, <2>9 DEF OpenPage, AnswerAt
    <3>2. CASE Fails(c, {"open"})
      BY <1>0, <2>6, <2>9, <3>1, <3>2, Refusals DEF OpenPage, Fails
    <3>3. CASE ~Fails(c, {"open"})
      <4>1. request[c][1] = {}
        BY <1>0, <3>1, <3>3, Refusals DEF Fails
      <4> QED BY <2>1, <2>3, <2>9, <3>1, <3>3, <4>1 DEF OpenPage, Passes, After, AnswerAt
    <3> QED BY <3>2, <3>3
  <2>10. ASSUME NEW n \in 0 .. PageSize + 1, request[c][1] = {}, Asked(request[c]),
                reply'[c] = IF n = 0 THEN <<>> ELSE SubSeq(AllSent, 1, n)
         PROVE  reply'[c] # <<>> => Starts(reply'[c], Right(request[c][1]))
    <3>1. SUFFICES ASSUME n # 0 PROVE Starts(SubSeq(AllSent, 1, n), AllSent)
      BY <2>10, Refusals
    <3>2. n \in 1 .. Len(AllSent)
      BY <3>1, Pieces, NwebAssumption
    <3> QED BY <3>2 DEF Starts
  <2>11. CASE Header(c)
    <3>1. /\ child[c] = "header" /\ reply[c] = <<>> /\ sent'[c] = 0
          /\ request[c][1] = {} /\ Asked(request[c])
      BY <2>3, <2>11 DEF Header, AnswerAt
    <3>2. IF peer[c] = "there" THEN reply'[c] = SubSeq(AllSent, 1, 1) ELSE reply'[c] = <<>>
      <4>1. Append(<<>>, 200) = <<200>>
        OBVIOUS
      <4>2. Told(c, 200)
        BY <2>11 DEF Header
      <4>3. IF peer[c] = "there" THEN reply'[c] = Append(<<>>, 200) ELSE reply'[c] = <<>>
        BY <2>2, <3>1, <4>2
      <4> QED BY <4>1, <4>3, Pieces
    <3>3. child'[c] = "send" \/ (child'[c] = "exit" /\ peer[c] = "left")
      BY <2>1, <2>11 DEF Header, Killed
    <3>4. reply'[c] # <<>> => Starts(reply'[c], Right(request[c][1]))
      <4>1. 1 \in 0 .. PageSize + 1 /\ 1 # 0
        BY <1>0
      <4> QED BY <2>10, <3>1, <3>2, <4>1
    <3>5. sent'[c] + 1 = 1
      BY <3>1
    <3> QED BY <3>1, <3>2, <3>3, <3>4, <3>5 DEF AnswerAt
  <2>12. CASE SendBlock(c)
    <3>1. /\ child[c] = "send" /\ sent[c] \in 0 .. PageSize - 1 /\ sent'[c] = sent[c] + 1
          /\ request[c][1] = {} /\ Asked(request[c])
          /\ peer[c] = "there" => reply[c] = SubSeq(AllSent, 1, sent[c] + 1)
          /\ reply[c] # <<>> => Starts(reply[c], Right(request[c][1]))
      BY <1>0, <2>3, <2>12 DEF SendBlock, AnswerAt, WebTypeOK
    <3>2. IF peer[c] = "there" THEN reply'[c] = SubSeq(AllSent, 1, sent'[c] + 1)
          ELSE reply'[c] = reply[c]
      <4>1. /\ Append(SubSeq(AllSent, 1, sent[c] + 1), sent[c] + 1) = SubSeq(AllSent, 1, sent[c] + 2)
            /\ sent'[c] + 1 = sent[c] + 2
        <5>1. sent[c] \in Nat /\ sent[c] \in 0 .. PageSize - 1
          BY <1>0, <3>1
        <5>2. Append(SubSeq(AllSent, 1, sent[c] + 1), sent[c] + 1) = SubSeq(AllSent, 1, sent[c] + 2)
          BY <5>1, Pieces
        <5>3. (sent[c] + 1) + 1 = sent[c] + 2
          BY <5>1
        <5> QED BY <3>1, <5>2, <5>3
      <4> QED BY <2>2, <2>12, <3>1, <4>1 DEF SendBlock
    <3>3. child'[c] = "send" \/ (child'[c] = "exit" /\ peer[c] = "left")
      BY <2>1, <2>12, <3>1 DEF SendBlock, Killed
    <3>4. reply'[c] # <<>> => Starts(reply'[c], Right(request[c][1]))
      <4>1. sent'[c] + 1 \in 0 .. PageSize + 1 /\ sent'[c] + 1 # 0
        BY <1>0, <3>1
      <4> QED BY <2>10, <3>1, <3>2, <4>1
    <3> QED BY <3>1, <3>2, <3>3, <3>4 DEF AnswerAt
  <2>13. CASE Drain(c)
    <3>1. child'[c] = "exit" /\ reply'[c] = reply[c] /\ sent[c] = PageSize /\ child[c] = "send"
      BY <2>1, <2>13 DEF Drain
    <3>2. peer[c] = "there" => reply[c] = Right(request[c][1])
      BY <2>3, <3>1, Pieces, Refusals DEF AnswerAt
    <3> QED BY <2>3, <3>1, <3>2 DEF AnswerAt
  <2>14. CASE Exit(c)
    BY <2>1, <2>3, <2>14 DEF Exit, AnswerAt
  <2> QED BY <2>5, <2>7, <2>8, <2>9, <2>11, <2>12, <2>13, <2>14 DEF Web
<1> QED BY <1>2, <1>3 DEF Answers

(* The daemon answers nobody, and a client that moves changes no answer. *)
LEMMA AnswersOther ==
  ASSUME WebInv, Answers,
         Main \/ DaemonFails \/ \E c \in Client : Connect(c) \/ SendRequest(c) \/ HangUp(c)
  PROVE  Answers'
<1> SUFFICES ASSUME NEW d \in Client PROVE Answer(d)'
  BY DEF Answers
<1>1. UNCHANGED <<reply, sent>> /\ AnswerAt(child[d], request[d], reply[d], sent[d], peer[d])
  BY DEF Answers, Answer, Main, Socket, Accept, Fork, Close, DaemonFails, Connect, SendRequest, HangUp
<1>2. SUFFICES AnswerAt(child'[d], request'[d], reply[d], sent[d], peer'[d])
  BY <1>1 DEF Answer
<1>3. /\ child \in [Client -> ChildStages] /\ request \in [Client -> {<<>>} \cup {<<r>> : r \in Requests}]
      /\ peer \in [Client -> {"away", "queued", "there", "left"}]
      /\ peer[d] \in {"away", "queued"} => child[d] = "none"
  BY DEF WebInv, WebTypeOK, Queue, ChildStages
<1>4. CASE UNCHANGED <<child, request>>
  <2>1. peer'[d] = "there" => peer[d] = "there" \/ child[d] = "none"
    BY <1>3, <1>4 DEF Main, Socket, Accept, Fork, Close, DaemonFails, Connect, SendRequest, HangUp
  <2> QED BY <1>1, <1>4, <2>1 DEF AnswerAt
<1>5. CASE Fork
  <2>1. UNCHANGED <<peer, request>>
    BY <1>5 DEF Fork
  <2>2. child'[d] = child[d] \/ (child[d] = "none" /\ child'[d] = "forked")
    BY <1>3, <1>5 DEF Fork, Accepted
  <2> QED BY <1>1, <2>1, <2>2 DEF AnswerAt
<1>6. ASSUME NEW c \in Client, SendRequest(c)
      PROVE  AnswerAt(child'[d], request'[d], reply[d], sent[d], peer'[d])
  <2>1. UNCHANGED <<child, peer>>
    BY <1>6 DEF SendRequest
  <2>2. request'[d] = request[d] \/ (request[d] = <<>> /\ Asked(request'[d]))
    BY <1>3, <1>6 DEF SendRequest, Asked
  <2>3. ~Asked(<<>>)
    BY DEF Asked
  <2>4. CASE request'[d] = request[d]
    BY <1>1, <2>1, <2>4
  <2>5. CASE request[d] = <<>> /\ Asked(request'[d])
    <3>1. child[d] \notin {"check", "open", "header", "send"} /\ reply[d] = <<>>
      BY <1>1, <2>3, <2>5 DEF AnswerAt
    <3>2. ~(child[d] \in {"exit", "exited"} /\ peer[d] = "there")
      BY <1>1, <2>3, <2>5 DEF AnswerAt
    <3> QED BY <1>1, <2>1, <2>5, <3>1, <3>2 DEF AnswerAt
  <2> QED BY <2>2, <2>4, <2>5
<1>7. \/ UNCHANGED <<child, request>> \/ Fork \/ \E c \in Client : SendRequest(c)
  BY DEF Main, Socket, Accept, Close, DaemonFails, Connect, HangUp
<1> QED BY <1>4, <1>5, <1>6, <1>7

LEMMA AnswersStep == WebInv /\ Answers /\ [WebNext]_webVars => Answers'
<1> SUFFICES ASSUME WebInv, Answers, [WebNext]_webVars PROVE Answers'
  OBVIOUS
<1>1. ASSUME NEW c \in Client, Web(c) PROVE Answers'
  BY <1>1, AnswersWeb DEF WebInv
<1>2. CASE Main \/ DaemonFails \/ \E c \in Client : Connect(c) \/ SendRequest(c) \/ HangUp(c)
  BY <1>2, AnswersOther
<1>3. CASE UNCHANGED webVars
  BY <1>3 DEF webVars, Answers, Answer
<1> QED BY <1>1, <1>2, <1>3 DEF WebNext

(* No client is ever given anything but the beginning of the one answer its
   request has, and none that stays is left without the end of it. *)
THEOREM OneAnswerAlways == WebSpec => []OneAnswer
<1>1. WebSpec => []Answers
  BY AnswersInit, AnswersStep, WebInvariant, PTL DEF WebSpec
<1> QED BY <1>1, OneAnswerFromInv, PTL

-----------------------------------------------------------------------------
(* The units together *)

(* A step of the units is a step of one of them or of none. *)
LEMMA OneUnit ==
  ASSUME [UnitsNext]_unitVars
  PROVE  /\ [ArrayNext]_arrayVars /\ [DigestNext]_digestVars
         /\ [HashNext]_hashVars /\ [WebNext]_webVars /\ [LoggerNext]_loggerVars
         /\ UNCHANGED unit
BY DEF UnitsNext, unitVars

(* Each part keeps to its own specification while the others stand by, the
   daemon and its children included. *)
LEMMA UnitsTogether ==
  UnitsSpec => ArraySpec /\ DigestSpec /\ HashSpec /\ WebSpec /\ LoggerSpec
<1>1. UnitsInit => ArrayInit /\ DigestInit /\ HashInit /\ WebInit /\ LoggerInit
  BY DEF UnitsInit
<1>2. [UnitsNext]_unitVars => /\ [ArrayNext]_arrayVars /\ [DigestNext]_digestVars
                              /\ [HashNext]_hashVars /\ [WebNext]_webVars
                              /\ [LoggerNext]_loggerVars
  BY OneUnit
<1> QED BY <1>1, <1>2, PTL DEF UnitsSpec, ArraySpec, DigestSpec, HashSpec, WebSpec,
        LoggerSpec

LEMMA WebTypes == WebSpec => []WebTypeOK
<1>1. WebInv => WebTypeOK
  BY DEF WebInv
<1> QED BY <1>1, WebInvariant, PTL

LEMMA LoggerTypes == LoggerSpec => []LoggerTypeOK
<1>1. LogInv => LoggerTypeOK
  BY DEF LogInv
<1> QED BY <1>1, LogInvariant, PTL

(* The type invariant of the run: the headers and blocks of the array, the
   digest's buffer and counts, the hashes' registers, the processes of the web
   server and the logger with its descriptors are well formed in every state
   (array.c, md5.c, hashkit.c, nweb.c, log.c). *)
THEOREM UnitsTypesOK == UnitsSpec => []UnitsTypeOK
<1>1. UnitsSpec => [](/\ ArrayTypeOK /\ DigestTypeOK /\ HashTypeOK /\ WebTypeOK
                      /\ LoggerTypeOK)
  BY UnitsTogether, ArrayTypes, DigestTypesOK, HashTypesOK, WebTypes, LoggerTypes, PTL
<1> QED BY <1>1, PTL DEF UnitsTypeOK

(* What the run checks of the five units, for every value of the constants:
   no block has two owners and array_each visits every element in order; no
   byte of a message is lost and the digest does not depend on how it was cut;
   every byte of a key is hashed once and jump moves keys only into the new
   bucket; connections stay private and every request has one answer; and the
   logger writes to, closes and holds open no file but its own
   (array.c:84-190, md5.c:159-257, hashkit.c:578-1018, nweb.c:62-202,
   log.c:45-219). *)
THEOREM UnitsSafe ==
  UnitsSpec => /\ [](OneOwner /\ EachInOrder) /\ StackSpec
               /\ [](NothingLost /\ OneShot)
               /\ [](KeyHashed /\ JumpConsistent)
               /\ [](Private /\ OneAnswer)
               /\ []LogInv /\ OthersStay
BY UnitsTogether, BlocksOwned, EachVisitsAll, ImplementsStacks, NothingLostAlways,
   OneShotAlways, KeyHashedAlways, JumpConsistentAlways, PrivateAlways, OneAnswerAlways,
   LogInvariant, Others, PTL
=============================================================================
