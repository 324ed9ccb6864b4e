----------------------------- MODULE ConfWritten -----------------------------
(***************************************************************************)
(* What Conf makes of a file in which pools are written: the passes are    *)
(* followed pool by pool, line by line and value by value, until the pools *)
(* that are accepted are those its author meant, or one of them is faulty. *)
(***************************************************************************)
EXTENDS ConfProofs, FiniteSetTheorems

Ps   == file.pools
Read == ReadOf(file.events)
R    == Read[pos]

(* A file with pools that the first pass lets pass. *)
Asked == Ps # <<>> /\ DocumentCount(file) = 1

-----------------------------------------------------------------------------
(* The inductive invariant *)

Directives == Strings \cup Numbers
LineType == [key : DOMAIN Rank, vals : Seq(DOMAIN Rank), list : BOOLEAN]
Wanted   == [name : DOMAIN Rank, lines : Seq(LineType)]

(* What the place n in the nesting says of what has been read of pools ps. *)
Deep == {<<EvenMap, EvenMap>>, <<EvenMap, OddMap>>, <<EvenMap, EvenMap, InSeq>>}
ValuesOver(p, r) == r.line # 0 => r.value = Len(p.lines[r.line].vals)
LinesOver(p, r)  == r.line = Len(p.lines) /\ ValuesOver(p, r)
Bounds(ps, r, n) ==
  LET p == ps[r.pool]
  IN  /\ r.pool \in 0 .. Len(ps) /\ r.line \in Nat /\ r.value \in Nat
      /\ \/ n = <<>> /\ r.pool \in {0, Len(ps)} /\ (r.pool # 0 => LinesOver(p, r))
         \/ n = <<EvenMap>> /\ (r.pool # 0 => LinesOver(p, r))
         \/ n = <<OddMap>> /\ r.pool # 0 /\ r.line = 0
         \/ /\ n = <<EvenMap, EvenMap>> /\ r.pool # 0
            /\ r.line <= Len(p.lines) /\ ValuesOver(p, r)
         \/ /\ n = <<EvenMap, OddMap>> /\ r.pool # 0
            /\ r.line \in 1 .. Len(p.lines) /\ r.value = 0
         \/ /\ n = <<EvenMap, EvenMap, InSeq>> /\ r.pool # 0
            /\ r.line \in 1 .. Len(p.lines)
            /\ p.lines[r.line].list /\ r.value <= Len(p.lines[r.line].vals)

(* The places of a pool's values up to that line and that value of it. *)
Reached(p, line, value) ==
  {a \in Places(p) : a[1] < line \/ (a[1] = line /\ a[2] <= value)}

(* Pool q after n lines of p, and the values at places T of it, were read. *)
Filled(q, p, n, T) ==
  /\ q["name"] = p.name /\ p.name # None
  /\ \A j \in 1 .. n : p.lines[j].key # None
  /\ \A a \in T : ValueAt(p, a) # None
  /\ \A a, b \in T : KeyAt(p, a) \in Directives /\ KeyAt(p, a) = KeyAt(p, b) => a = b
  /\ \A a \in T : KeyAt(p, a) \in Directives =>
       /\ q[KeyAt(p, a)] = SetTo(KeyAt(p, a), ValueAt(p, a))
       /\ KeyAt(p, a) \in Numbers => Num[ValueAt(p, a)] >= 0
  /\ \A d \in Settings : (\A a \in T : KeyAt(p, a) # d) =>
       q[d] = IF d \in Strings THEN None ELSE Unset
Complete(q, p) == Filled(q, p, Len(p.lines), Places(p)) /\ p.lines # <<>>

(* Just one list in the pool; the lists of the pool begun so far. *)
Single(p) == \E i \in Lists(p) : Lists(p) = {i}
Begun(p, line, n) == {j \in Lists(p) : j < line \/ (j = line /\ n # <<EvenMap, OddMap>>)}

(* So far the structure check has seen one list in each pool, and of the last
   one as many as check.seq says. *)
ListsSeen(ps, r, n, s) ==
  LET begun == Begun(ps[r.pool], r.line, n)
  IN  /\ \A i \in 1 .. r.pool - 1 : Single(ps[i])
      /\ \/ n \in {<<>>, <<EvenMap>>} /\ (r.pool # 0 => Single(ps[r.pool]))
         \/ n = <<OddMap>>
         \/ n \in Deep /\ IF s THEN \E j \in begun : begun = {j} ELSE begun = {}
StructureRead == Bounds(Ps, R, At) /\ ListsSeen(Ps, R, At, check.seq)

PoolsRead ==
  /\ Bounds(Ps, R, At)
  /\ Len(pool) = R.pool
  /\ At \in {<<EvenMap, OddMap>>, <<EvenMap, EvenMap, InSeq>>} =>
       arg[2] = Ps[R.pool].lines[R.line].key
  /\ \A i \in 1 .. R.pool - 1 : Complete(pool[i], Ps[i])
  /\ R.pool # 0 => /\ Filled(pool[R.pool], Ps[R.pool], R.line,
                             Reached(Ps[R.pool], R.line, R.value))
                   /\ At # <<OddMap>> => Ps[R.pool].lines # <<>>

AllRead ==
  /\ arg = <<>> /\ Len(pool) = Len(Ps)
  /\ \A i \in 1 .. Len(Ps) : Complete(pool[i], Ps[i])

SinglesInv == multilevel => \A i \in 1 .. Len(Ps) : Single(Ps[i])

WrittenInv ==
  /\ pc \in {"end", "post", "accepted"} => DocumentCount(file) = 1
  /\ Asked => /\ pc = "structure" => StructureRead
              /\ pc = "begin" => R = NothingRead /\ SinglesInv
              /\ pc = "parse" => PoolsRead /\ SinglesInv
              /\ pc = "end" => AllRead /\ SinglesInv
              /\ pc = "post" => AllRead /\ SinglesInv /\ ~validParser
  /\ Faithful /\ Justified

-----------------------------------------------------------------------------
(* What is read of a file, and what it says next *)

LEMMA PoolsFacts ==
  ASSUME Types
  PROVE  /\ Ps \in Seq(Wanted) /\ Len(Ps) \in Nat /\ Counting(file.events, Nest, Read)
         /\ Asked => Meaning(file, Nest, Read)
<1>1. PICK c \in Calls : file = c.file  BY DEF Types
<1>2. Ps \in Seq(Wanted)  BY <1>1, PoolsAssumption DEF Ps, Wanted, LineType
<1>3. Counting(file.events, Nest, Read)  BY <1>1, PoolsAssumption DEF Nest, Read
<1>4. Asked => Meaning(file, Nest, Read)  BY <1>1, PoolsAssumption DEF Asked, Ps, Nest, Read
<1>5. QED  BY <1>2, <1>3, <1>4, LenProperties

LEMMA AskedShaped ==
  ASSUME Types, Asked
  PROVE  Shaped(file) /\ Trusted(file, multilevel)
BY PoolsFacts DEF Meaning, Trusted

(* The event a pass is at, in a file with pools. *)
LEMMA SaysHere ==
  ASSUME Types, Asked, pos <= Len(file.events)
  PROVE  /\ Says(Ps, At, R, Event) /\ Turn(At, Event, Nest[pos + 1])
         /\ Read[pos + 1] = More(At, Event, R)
         /\ Event = file.events[pos] /\ Event.value \in DOMAIN Rank
<1>1. pos \in DOMAIN file.events  BY FileFacts DEF Types
<1>2. Event \in EventType /\ Event = file.events[pos]  BY Here
<1>3. Says(Ps, At, R, Event)  BY <1>1, <1>2, PoolsFacts DEF Meaning, Ps, At, R
<1>4. Read[pos + 1] = More(At, Event, R)  BY <1>1, <1>2, PoolsFacts DEF Counting, At, R
<1>5. Turn(At, Event, Nest[pos + 1])  BY AskedShaped, ShapedTurn
<1>6. QED  BY <1>2, <1>3, <1>4, <1>5 DEF EventType

LEMMA WantedFacts ==
  ASSUME NEW ps \in Seq(Wanted), NEW i \in 1 .. Len(ps)
  PROVE  /\ ps[i] \in Wanted /\ ps[i].name \in DOMAIN Rank
         /\ ps[i].lines \in Seq(LineType) /\ Len(ps[i].lines) \in Nat
         /\ \A j \in 1 .. Len(ps[i].lines) :
              /\ ps[i].lines[j] \in LineType /\ ps[i].lines[j].key \in DOMAIN Rank
              /\ ps[i].lines[j].vals \in Seq(DOMAIN Rank)
              /\ Len(ps[i].lines[j].vals) \in Nat
<1>1. ps[i] \in Wanted  BY ElementOfSeq
<1>2. ps[i].name \in DOMAIN Rank /\ ps[i].lines \in Seq(LineType)  BY <1>1 DEF Wanted
<1>3. Len(ps[i].lines) \in Nat  BY <1>2, LenProperties
<1>4. ASSUME NEW j \in 1 .. Len(ps[i].lines)
      PROVE  /\ ps[i].lines[j] \in LineType /\ ps[i].lines[j].key \in DOMAIN Rank
             /\ ps[i].lines[j].vals \in Seq(DOMAIN Rank)
             /\ Len(ps[i].lines[j].vals) \in Nat
  <2>1. ps[i].lines[j] \in LineType  BY <1>2, ElementOfSeq
  <2>2. ps[i].lines[j].key \in DOMAIN Rank /\ ps[i].lines[j].vals \in Seq(DOMAIN Rank)
    BY <2>1 DEF LineType
  <2>3. QED  BY <2>1, <2>2, LenProperties
<1>5. QED  BY <1>1, <1>2, <1>3, <1>4

(* What More counts in each place. *)
LEMMA MoreFacts ==
  ASSUME NEW n, NEW e, NEW r
  PROVE  /\ e.type # "scalar" \/ n \in {<<>>, <<OddMap>>} => More(n, e, r) = r
         /\ e.type = "scalar" /\ n = <<EvenMap>> =>
              More(n, e, r) = [pool |-> r.pool + 1, line |-> 0, value |-> 0]
         /\ e.type = "scalar" /\ n = <<EvenMap, EvenMap>> =>
              More(n, e, r) = [pool |-> r.pool, line |-> r.line + 1, value |-> 0]
         /\ e.type = "scalar" /\ n \in {<<EvenMap, OddMap>>, <<EvenMap, EvenMap, InSeq>>} =>
              More(n, e, r) = [pool |-> r.pool, line |-> r.line, value |-> r.value + 1]
<1>1. CASE e.type # "scalar"  BY <1>1, Zenon DEF More
<1>2. CASE e.type = "scalar"
  <2>1. n \in {<<>>, <<OddMap>>} => More(n, e, r) = r
    <3>1. n = <<>> => More(n, e, r) = r  BY <1>2, ShapesDiffer, Zenon DEF More
    <3>2. n = <<OddMap>> => More(n, e, r) = r  BY <1>2, ShapesDiffer, Zenon DEF More
    <3>3. QED  BY <3>1, <3>2, Zenon
  <2>2. n = <<EvenMap>> =>
          More(n, e, r) = [pool |-> r.pool + 1, line |-> 0, value |-> 0]
    BY <1>2, ShapesDiffer, Zenon DEF More
  <2>3. n = <<EvenMap, EvenMap>> =>
          More(n, e, r) = [pool |-> r.pool, line |-> r.line + 1, value |-> 0]
    BY <1>2, ShapesDiffer, Zenon DEF More
  <2>4. n \in {<<EvenMap, OddMap>>, <<EvenMap, EvenMap, InSeq>>} =>
          More(n, e, r) = [pool |-> r.pool, line |-> r.line, value |-> r.value + 1]
    BY <1>2, ShapesDiffer, Zenon DEF More
  <2>5. QED  BY <1>2, <2>1, <2>2, <2>3, <2>4, Zenon
<1>3. QED  BY <1>1, <1>2, Zenon

(* What is known of what has been read, place by place. *)
LEMMA BoundsAt ==
  ASSUME NEW ps, NEW r, NEW n, Bounds(ps, r, n)
  PROVE  /\ r.pool \in 0 .. Len(ps) /\ r.line \in Nat /\ r.value \in Nat
         /\ n = <<>> => r.pool \in {0, Len(ps)} /\ (r.pool # 0 => LinesOver(ps[r.pool], r))
         /\ n = <<EvenMap>> => (r.pool # 0 => LinesOver(ps[r.pool], r))
         /\ n = <<OddMap>> => r.pool # 0 /\ r.line = 0
         /\ n = <<EvenMap, EvenMap>> => /\ r.pool # 0 /\ r.line <= Len(ps[r.pool].lines)
                                        /\ ValuesOver(ps[r.pool], r)
         /\ n = <<EvenMap, OddMap>> => /\ r.pool # 0 /\ r.line \in 1 .. Len(ps[r.pool].lines)
                                       /\ r.value = 0
         /\ n = <<EvenMap, EvenMap, InSeq>> =>
              /\ r.pool # 0 /\ r.line \in 1 .. Len(ps[r.pool].lines)
              /\ ps[r.pool].lines[r.line].list
              /\ r.value <= Len(ps[r.pool].lines[r.line].vals)
<1>1. r.pool \in 0 .. Len(ps) /\ r.line \in Nat /\ r.value \in Nat  BY Zenon DEF Bounds
<1>2. /\ n = <<>> => r.pool \in {0, Len(ps)} /\ (r.pool # 0 => LinesOver(ps[r.pool], r))
      /\ n = <<EvenMap>> => (r.pool # 0 => LinesOver(ps[r.pool], r))
      /\ n = <<OddMap>> => r.pool # 0 /\ r.line = 0
  BY ShapesDiffer DEF Bounds
<1>3. /\ n = <<EvenMap, EvenMap>> => /\ r.pool # 0 /\ r.line <= Len(ps[r.pool].lines)
                                     /\ ValuesOver(ps[r.pool], r)
      /\ n = <<EvenMap, OddMap>> => /\ r.pool # 0 /\ r.line \in 1 .. Len(ps[r.pool].lines)
                                    /\ r.value = 0
      /\ n = <<EvenMap, EvenMap, InSeq>> =>
           /\ r.pool # 0 /\ r.line \in 1 .. Len(ps[r.pool].lines)
           /\ ps[r.pool].lines[r.line].list
           /\ r.value <= Len(ps[r.pool].lines[r.line].vals)
  BY ShapesDiffer DEF Bounds
<1>4. QED  BY <1>1, <1>2, <1>3

(* What comes next, place by place. *)
LEMMA SaysAt ==
  ASSUME NEW ps, NEW r, NEW n, NEW e, Says(ps, n, r, e)
  PROVE  /\ e.type = "stream-" => r.pool = Len(ps)
         /\ n = <<EvenMap>> => IF e.type = "scalar"
                               THEN r.pool < Len(ps) /\ e.value = ps[r.pool + 1].name
                               ELSE r.pool = Len(ps)
         /\ n = <<OddMap>> => (e.type = "scalar" <=> ps[r.pool].lines = <<>>)
         /\ n = <<EvenMap, EvenMap>> =>
              IF e.type = "scalar"
              THEN /\ r.line < Len(ps[r.pool].lines)
                   /\ e.value = ps[r.pool].lines[r.line + 1].key
              ELSE r.line = Len(ps[r.pool].lines)
         /\ n = <<EvenMap, OddMap>> =>
              IF e.type = "scalar"
              THEN ~ps[r.pool].lines[r.line].list /\ ps[r.pool].lines[r.line].vals = <<e.value>>
              ELSE ps[r.pool].lines[r.line].list
         /\ n = <<EvenMap, EvenMap, InSeq>> =>
              IF e.type = "scalar"
              THEN /\ r.value < Len(ps[r.pool].lines[r.line].vals)
                   /\ e.value = ps[r.pool].lines[r.line].vals[r.value + 1]
              ELSE r.value = Len(ps[r.pool].lines[r.line].vals)
BY Zenon DEF Says

LEMMA BoundsFollow ==
  ASSUME NEW ps \in Seq(Wanted), NEW r, NEW n, NEW e, NEW m,
         Bounds(ps, r, n), Turn(n, e, m), Says(ps, n, r, e)
  PROVE  Bounds(ps, More(n, e, r), m)
<1>1. /\ r.pool \in 0 .. Len(ps) /\ r.line \in Nat /\ r.value \in Nat /\ Len(ps) \in Nat
  BY BoundsAt, LenProperties
<1>2. r.pool # 0 =>
        /\ Len(ps[r.pool].lines) \in Nat
        /\ \A j \in 1 .. Len(ps[r.pool].lines) : Len(ps[r.pool].lines[j].vals) \in Nat
  <2>1. r.pool # 0 => r.pool \in 1 .. Len(ps)  BY <1>1
  <2>2. QED  BY <2>1, WantedFacts
<1> DEFINE p == ps[r.pool]
           t == More(n, e, r)
<1>3. CASE n = <<>> /\ e.type \in Outer \cup {"map+"} /\ m \in {<<>>, <<EvenMap>>}
  <2>1. t = r  BY <1>3, MoreFacts
  <2>2. r.pool \in {0, Len(ps)} /\ (r.pool # 0 => LinesOver(p, r))  BY <1>3, BoundsAt
  <2> HIDE DEF p, t
  <2>3. QED  BY <1>1, <1>3, <2>1, <2>2 DEF Bounds, p, t
<1>4. CASE n = <<EvenMap>> /\ e.type = "scalar" /\ m = <<OddMap>>
  <2>1. t = [pool |-> r.pool + 1, line |-> 0, value |-> 0]  BY <1>4, MoreFacts
  <2>2. r.pool < Len(ps)  BY <1>4, SaysAt
  <2> HIDE DEF t
  <2>3. t.pool = r.pool + 1 /\ t.line = 0 /\ t.value = 0  BY <2>1
  <2>4. t.pool \in 1 .. Len(ps)  BY <1>1, <2>2, <2>3
  <2>5. QED  BY <1>4, <2>3, <2>4 DEF Bounds, t
<1>5. CASE n = <<EvenMap>> /\ e.type = "map-" /\ m = <<>>
  <2>1. t = r  BY <1>5, MoreFacts
  <2>2. r.pool # 0 => LinesOver(p, r)  BY <1>5, BoundsAt
  <2>3. r.pool = Len(ps)  BY <1>5, SaysAt
  <2> HIDE DEF p, t
  <2>4. QED  BY <1>1, <1>5, <2>1, <2>2, <2>3 DEF Bounds, p, t
<1>6. CASE n = <<OddMap>> /\ e.type = "map+" /\ m = <<EvenMap, EvenMap>>
  <2>1. t = r  BY <1>6, MoreFacts
  <2>2. r.pool # 0 /\ r.line = 0  BY <1>6, BoundsAt
  <2>3. r.line <= Len(p.lines) /\ ValuesOver(p, r)  BY <1>2, <2>2 DEF ValuesOver
  <2> HIDE DEF p, t
  <2>4. QED  BY <1>1, <1>6, <2>1, <2>2, <2>3 DEF Bounds, p, t
<1>7. CASE n = <<OddMap>> /\ e.type = "scalar" /\ m = <<EvenMap>>
  <2>1. t = r  BY <1>7, MoreFacts
  <2>2. r.pool # 0 /\ r.line = 0  BY <1>7, BoundsAt
  <2>3. p.lines = <<>>  BY <1>7, SaysAt
  <2>4. LinesOver(p, r)  BY <2>2, <2>3 DEF LinesOver, ValuesOver
  <2> HIDE DEF p, t
  <2>5. QED  BY <1>1, <1>7, <2>1, <2>2, <2>4 DEF Bounds, p, t
<1>8. CASE n = <<EvenMap, EvenMap>> /\ e.type = "scalar" /\ m = <<EvenMap, OddMap>>
  <2>1. t = [pool |-> r.pool, line |-> r.line + 1, value |-> 0]  BY <1>8, MoreFacts
  <2>2. r.pool # 0  BY <1>8, BoundsAt
  <2>3. r.line < Len(p.lines)  BY <1>8, SaysAt
  <2> HIDE DEF t
  <2>4. t.pool = r.pool /\ t.line = r.line + 1 /\ t.value = 0  BY <2>1
  <2>5. t.line \in 1 .. Len(ps[t.pool].lines)  BY <1>1, <1>2, <2>2, <2>3, <2>4
  <2> HIDE DEF p
  <2>6. QED  BY <1>1, <1>8, <2>2, <2>4, <2>5 DEF Bounds, t
<1>9. CASE n = <<EvenMap, EvenMap>> /\ e.type = "map-" /\ m = <<EvenMap>>
  <2>1. t = r  BY <1>9, MoreFacts
  <2>2. r.pool # 0 /\ ValuesOver(p, r)  BY <1>9, BoundsAt
  <2>3. r.line = Len(p.lines)  BY <1>9, SaysAt
  <2>4. LinesOver(p, r)  BY <2>2, <2>3 DEF LinesOver
  <2> HIDE DEF p, t
  <2>5. QED  BY <1>1, <1>9, <2>1, <2>2, <2>4 DEF Bounds, p, t
<1>10. CASE n = <<EvenMap, OddMap>> /\ e.type = "scalar" /\ m = <<EvenMap, EvenMap>>
  <2>1. t = [pool |-> r.pool, line |-> r.line, value |-> r.value + 1]  BY <1>10, MoreFacts
  <2>2. r.pool # 0 /\ r.line \in 1 .. Len(p.lines) /\ r.value = 0  BY <1>10, BoundsAt
  <2>3. p.lines[r.line].vals = <<e.value>>  BY <1>10, SaysAt
  <2>4. Len(p.lines[r.line].vals) = 1
    <3> HIDE DEF p
    <3>1. QED  BY <2>3
  <2> HIDE DEF t
  <2>5. t.pool = r.pool /\ t.line = r.line /\ t.value = 1  BY <2>1, <2>2
  <2>6. t.line <= Len(ps[t.pool].lines) /\ ValuesOver(ps[t.pool], t)
    BY <1>2, <2>2, <2>4, <2>5 DEF ValuesOver
  <2> HIDE DEF p
  <2>7. QED  BY <1>1, <1>10, <2>2, <2>5, <2>6 DEF Bounds, t
<1>11. CASE n = <<EvenMap, OddMap>> /\ e.type = "seq+" /\ m = <<EvenMap, EvenMap, InSeq>>
  <2>1. t = r  BY <1>11, MoreFacts
  <2>2. r.pool # 0 /\ r.line \in 1 .. Len(p.lines) /\ r.value = 0  BY <1>11, BoundsAt
  <2>3. p.lines[r.line].list  BY <1>11, SaysAt
  <2>4. r.value <= Len(p.lines[r.line].vals)
    <3> DEFINE k == Len(p.lines[r.line].vals)
    <3>1. k \in Nat  BY <1>2, <2>2
    <3> HIDE DEF k
    <3>2. r.value <= k  BY <2>2, <3>1
    <3>3. QED  BY <3>2 DEF k
  <2> HIDE DEF p, t
  <2>5. QED  BY <1>1, <1>11, <2>1, <2>2, <2>3, <2>4 DEF Bounds, p, t
<1>12. CASE n = <<EvenMap, EvenMap, InSeq>> /\ e.type = "scalar" /\ m = n
  <2>1. t = [pool |-> r.pool, line |-> r.line, value |-> r.value + 1]  BY <1>12, MoreFacts
  <2>2. r.pool # 0 /\ r.line \in 1 .. Len(p.lines) /\ p.lines[r.line].list
    BY <1>12, BoundsAt
  <2>3. r.value < Len(p.lines[r.line].vals)  BY <1>12, SaysAt
  <2> HIDE DEF t
  <2>4. t.pool = r.pool /\ t.line = r.line /\ t.value = r.value + 1  BY <2>1
  <2>5. t.value <= Len(ps[t.pool].lines[t.line].vals) /\ t.value \in Nat
    <3> DEFINE k == Len(p.lines[r.line].vals)
    <3>1. k \in Nat /\ r.value < k  BY <1>2, <2>2, <2>3
    <3> HIDE DEF k
    <3>2. r.value + 1 <= k /\ r.value + 1 \in Nat  BY <1>1, <3>1
    <3>3. QED  BY <2>4, <3>2 DEF k
  <2>6. ps[t.pool].lines[t.line].list /\ t.line \in 1 .. Len(ps[t.pool].lines)
    BY <2>2, <2>4
  <2> HIDE DEF p
  <2>7. QED  BY <1>1, <1>12, <2>2, <2>4, <2>5, <2>6 DEF Bounds, t
<1>13. CASE n = <<EvenMap, EvenMap, InSeq>> /\ e.type = "seq-" /\ m = <<EvenMap, EvenMap>>
  <2>1. t = r  BY <1>13, MoreFacts
  <2>2. r.pool # 0 /\ r.line \in 1 .. Len(p.lines)  BY <1>13, BoundsAt
  <2>3. r.value = Len(p.lines[r.line].vals)  BY <1>13, SaysAt
  <2>4. r.line <= Len(p.lines) /\ ValuesOver(p, r)  BY <1>2, <2>2, <2>3 DEF ValuesOver
  <2> HIDE DEF p, t
  <2>5. QED  BY <1>1, <1>13, <2>1, <2>2, <2>4 DEF Bounds, p, t
<1>14. QED
  BY <1>3, <1>4, <1>5, <1>6, <1>7, <1>8, <1>9, <1>10, <1>11, <1>12, <1>13 DEF Turn

-----------------------------------------------------------------------------
(* The places of a pool's values *)

LEMMA PlaceOf ==
  ASSUME NEW p \in Wanted, NEW a \in Places(p)
  PROVE  /\ a = <<a[1], a[2]>> /\ a[1] \in 1 .. Len(p.lines)
         /\ a[2] \in 1 .. Len(p.lines[a[1]].vals)
         /\ KeyAt(p, a) \in DOMAIN Rank /\ ValueAt(p, a) \in DOMAIN Rank
<1>1. p.lines \in Seq(LineType)  BY DEF Wanted
<1>2. PICK i \in DOMAIN p.lines : \E j \in DOMAIN p.lines[i].vals : a = <<i, j>>
  BY DEF Places
<1>3. PICK j \in DOMAIN p.lines[i].vals : a = <<i, j>>  BY <1>2
<1>4. a[1] = i /\ a[2] = j  BY <1>3
<1>5. i \in 1 .. Len(p.lines)  BY <1>1, LenProperties
<1>6. p.lines[i] \in LineType  BY <1>1, <1>5, ElementOfSeq
<1>7. p.lines[i].vals \in Seq(DOMAIN Rank) /\ p.lines[i].key \in DOMAIN Rank
  BY <1>6 DEF LineType
<1>8. j \in 1 .. Len(p.lines[i].vals)  BY <1>7, LenProperties
<1>9. p.lines[i].vals[j] \in DOMAIN Rank  BY <1>7, <1>8, ElementOfSeq
<1>10. QED  BY <1>3, <1>4, <1>5, <1>7, <1>8, <1>9 DEF KeyAt, ValueAt

LEMMA IsPlace ==
  ASSUME NEW p \in Wanted, NEW i \in 1 .. Len(p.lines), NEW j \in 1 .. Len(p.lines[i].vals)
  PROVE  /\ <<i, j>> \in Places(p)
         /\ KeyAt(p, <<i, j>>) = p.lines[i].key
         /\ ValueAt(p, <<i, j>>) = p.lines[i].vals[j]
<1>1. p.lines \in Seq(LineType)  BY DEF Wanted
<1>2. i \in DOMAIN p.lines  BY <1>1, LenProperties
<1>3. p.lines[i] \in LineType  BY <1>1, ElementOfSeq
<1>4. p.lines[i].vals \in Seq(DOMAIN Rank)  BY <1>3 DEF LineType
<1>5. j \in DOMAIN p.lines[i].vals  BY <1>4, LenProperties
<1>6. <<i, j>> \in Places(p)  BY <1>2, <1>5 DEF Places
<1>7. QED  BY <1>6 DEF KeyAt, ValueAt

LEMMA ReachedFacts ==
  ASSUME NEW p \in Wanted, NEW line \in Nat, NEW value \in Nat
  PROVE  /\ Reached(p, 0, value) = {}
         /\ (line # 0 => value = Len(p.lines[line].vals)) =>
              Reached(p, line + 1, 0) = Reached(p, line, value)
         /\ line = Len(p.lines) /\ (line # 0 => value = Len(p.lines[line].vals)) =>
              Reached(p, line, value) = Places(p)
<1>1. Reached(p, 0, value) = {}
  <2>1. ASSUME NEW a \in Reached(p, 0, value)
        PROVE  FALSE
    <3>1. a \in Places(p) /\ (a[1] < 0 \/ a[1] = 0)  BY DEF Reached
    <3>2. a[1] \in 1 .. Len(p.lines)  BY <3>1, PlaceOf
    <3>3. QED  BY <3>1, <3>2
  <2>2. QED  BY <2>1
<1>2. ASSUME line # 0 => value = Len(p.lines[line].vals), NEW a \in Places(p)
      PROVE  a \in Reached(p, line + 1, 0) <=> a \in Reached(p, line, value)
  <2>1. a[1] \in 1 .. Len(p.lines) /\ a[2] \in 1 .. Len(p.lines[a[1]].vals)  BY PlaceOf
  <2>2. a[1] \in Nat /\ a[1] # 0 /\ a[2] \in Nat /\ a[2] # 0  BY <2>1
  <2>3. a \in Reached(p, line + 1, 0) <=> a[1] < line + 1  BY <2>2 DEF Reached
  <2>4. a[1] = line => a[2] <= value  BY <1>2, <2>1, <2>2
  <2>5. QED  BY <2>2, <2>3, <2>4 DEF Reached
<1>3. ASSUME line = Len(p.lines), line # 0 => value = Len(p.lines[line].vals),
             NEW a \in Places(p)
      PROVE  a \in Reached(p, line, value)
  <2>1. a[1] \in 1 .. Len(p.lines) /\ a[2] \in 1 .. Len(p.lines[a[1]].vals)  BY PlaceOf
  <2>2. a[1] = line => a[2] <= value  BY <1>3, <2>1
  <2>3. a[1] <= line  BY <1>3, <2>1
  <2>4. QED  BY <2>1, <2>2, <2>3 DEF Reached
<1>4. Reached(p, line, value) \subseteq Places(p) /\ Reached(p, line + 1, 0) \subseteq Places(p)
  BY DEF Reached
<1>5. (line # 0 => value = Len(p.lines[line].vals)) =>
        Reached(p, line + 1, 0) = Reached(p, line, value)
  BY <1>2, <1>4, Zenon
<1>6. line = Len(p.lines) /\ (line # 0 => value = Len(p.lines[line].vals)) =>
        Reached(p, line, value) = Places(p)
  BY <1>3, <1>4, Zenon
<1>7. QED  BY <1>1, <1>5, <1>6

(* One value further in the same line. *)
LEMMA ReachedMore ==
  ASSUME NEW p \in Wanted, NEW line \in 1 .. Len(p.lines),
         NEW value \in Nat, value < Len(p.lines[line].vals)
  PROVE  /\ <<line, value + 1>> \in Places(p)
         /\ <<line, value + 1>> \notin Reached(p, line, value)
         /\ Reached(p, line, value + 1) = Reached(p, line, value) \cup {<<line, value + 1>>}
<1>1. Len(p.lines[line].vals) \in Nat
  <2>1. p.lines \in Seq(LineType)  BY DEF Wanted
  <2>2. p.lines[line] \in LineType  BY <2>1, ElementOfSeq
  <2>3. p.lines[line].vals \in Seq(DOMAIN Rank)  BY <2>2 DEF LineType
  <2>4. QED  BY <2>3, LenProperties
<1> DEFINE new == <<line, value + 1>>
<1>2. value + 1 \in 1 .. Len(p.lines[line].vals)
  <2> DEFINE k == Len(p.lines[line].vals)
  <2>1. k \in Nat /\ value < k  BY <1>1
  <2> HIDE DEF k
  <2>2. value + 1 \in 1 .. k  BY <2>1
  <2>3. QED  BY <2>2 DEF k
<1>3. new \in Places(p)  BY <1>2, IsPlace
<1>4. new[1] = line /\ new[2] = value + 1 /\ line \in Nat
  <2>1. new[1] = line /\ new[2] = value + 1  OBVIOUS
  <2>2. p.lines \in Seq(LineType)  BY DEF Wanted
  <2>3. Len(p.lines) \in Nat  BY <2>2, LenProperties
  <2>4. line \in Nat  BY <2>3
  <2>5. QED  BY <2>1, <2>4
<1>5. new \notin Reached(p, line, value)  BY <1>4 DEF Reached
<1>6. ASSUME NEW a \in Places(p)
      PROVE  a \in Reached(p, line, value + 1) <=>
               a \in Reached(p, line, value) \/ a = new
  <2>1. /\ a = <<a[1], a[2]>> /\ a[1] \in 1 .. Len(p.lines)
        /\ a[2] \in 1 .. Len(p.lines[a[1]].vals)
    BY PlaceOf
  <2>2. a[1] \in Int /\ a[2] \in Int  BY <2>1
  <2>3. a[1] = line /\ a[2] = value + 1 <=> a = new
    <3>1. a[1] = line /\ a[2] = value + 1 => a = new  BY <2>1, Zenon
    <3>2. QED  BY <1>4, <3>1
  <2>4. a[1] = line => (a[2] <= value + 1 <=> a[2] <= value \/ a[2] = value + 1)  BY <2>2
  <2> HIDE DEF new
  <2>5. QED  BY <1>4, <2>2, <2>3, <2>4 DEF Reached
<1>7. Reached(p, line, value) \subseteq Places(p) /\ Reached(p, line, value + 1) \subseteq Places(p)
  BY DEF Reached
<1> HIDE DEF new
<1>8. Reached(p, line, value + 1) = Reached(p, line, value) \cup {new}
  BY <1>3, <1>6, <1>7
<1>9. QED  BY <1>3, <1>5, <1>8 DEF new

-----------------------------------------------------------------------------
(* What a pool holds of the pool that is wanted *)

LEMMA FilledNew ==
  ASSUME NEW p \in Wanted, p.name # None, NEW left \in MaxSlotsLeft
  PROVE  Filled(NewPool(p.name, left), p, 0, {})
<1> DEFINE q == NewPool(p.name, left)
<1>1. p.name \in DOMAIN Rank  BY DEF Wanted
<1>2. q["name"] = p.name  BY <1>1, NewPoolFacts
<1>3. ASSUME NEW d \in Settings
      PROVE  q[d] = IF d \in Strings THEN None ELSE Unset
  <2>1. d \in Fields /\ d # "name" /\ d # "max_slots"
    BY DEF Settings, Fields, Strings, Numbers
  <2>2. QED  BY <2>1 DEF NewPool
<1> HIDE DEF q
<1>4. QED  BY <1>2, <1>3 DEF Filled, q

LEMMA FilledKey ==
  ASSUME NEW q, NEW p, NEW n \in Nat, NEW T, Filled(q, p, n, T), p.lines[n + 1].key # None
  PROVE  Filled(q, p, n + 1, T)
<1>1. \A j \in 1 .. n + 1 : p.lines[j].key # None
  <2>1. \A j \in 1 .. n : p.lines[j].key # None  BY DEF Filled
  <2>2. \A j \in 1 .. n + 1 : j \in 1 .. n \/ j = n + 1  OBVIOUS
  <2>3. QED  BY <2>1, <2>2, Zenon
<1>2. QED  BY <1>1, Zenon DEF Filled

LEMMA DirectiveFields ==
  ASSUME NEW k \in Directives
  PROVE  k \in Fields /\ k # "name" /\ (k \in Strings \/ k \in Numbers)
         /\ ~(k \in Strings /\ k \in Numbers)
BY DEF Directives, Fields, Strings, Numbers

(* A directive that may be set was not given before. *)
LEMMA MaySetOnce ==
  ASSUME NEW q, NEW p, NEW n, NEW T, Filled(q, p, n, T),
         NEW k \in Directives, NEW v, MaySet(q, k, v), NEW b \in T
  PROVE  KeyAt(p, b) # k
<1>1. SUFFICES ASSUME KeyAt(p, b) = k
               PROVE  FALSE
  OBVIOUS
<1>2. /\ q[k] = SetTo(k, ValueAt(p, b)) /\ (k \in Numbers => Num[ValueAt(p, b)] >= 0)
      /\ ValueAt(p, b) # None
  BY <1>1 DEF Filled
<1>3. CASE k \in Strings  BY <1>2, <1>3 DEF MaySet, SetTo
<1>4. CASE k \notin Strings
  <2>1. q[k] = Num[ValueAt(p, b)] /\ q[k] = Unset  BY <1>2, <1>4 DEF MaySet, SetTo
  <2>2. k \in Numbers  BY <1>4, DirectiveFields
  <2>3. Unset >= 0  BY <1>2, <2>1, <2>2
  <2>4. QED  BY <2>3 DEF Unset
<1>5. QED  BY <1>3, <1>4

(* conf_set_string, conf_set_num: one more value. *)
LEMMA FilledMore ==
  ASSUME NEW p \in Wanted, NEW q \in PoolType, q # Raw, NEW n, NEW T, Filled(q, p, n, T),
         NEW a, ValueAt(p, a) # None, KeyAt(p, a) \in Directives,
         MaySet(q, KeyAt(p, a), ValueAt(p, a))
  PROVE  Filled([q EXCEPT ![KeyAt(p, a)] = SetTo(KeyAt(p, a), ValueAt(p, a))], p, n, T \cup {a})
<1> DEFINE k == KeyAt(p, a)
           v == ValueAt(p, a)
           new == [q EXCEPT ![k] = SetTo(k, v)]
<1>1. q \in [Fields -> Values]  BY DEF PoolType
<1>2. k \in Fields /\ k # "name" /\ "name" \in Fields  BY DirectiveFields DEF Fields
<1>3. new[k] = SetTo(k, v)  BY <1>1, <1>2
<1>4. \A d : d # k /\ d \in Fields => new[d] = q[d]  BY <1>1
<1>5. \A b \in T : KeyAt(p, b) # k  BY MaySetOnce
<1>6. k \in Numbers => Num[v] >= 0  BY DEF MaySet, Strings, Numbers
<1>7. new["name"] = p.name /\ p.name # None
  BY <1>2, <1>4 DEF Filled
<1>8. \A j \in 1 .. n : p.lines[j].key # None  BY DEF Filled
<1>9. \A b \in T \cup {a} : ValueAt(p, b) # None  BY DEF Filled
<1> HIDE DEF new
<1>10. \A b, c \in T \cup {a} : KeyAt(p, b) \in Directives /\ KeyAt(p, b) = KeyAt(p, c) => b = c
  BY <1>5 DEF Filled
<1>11. ASSUME NEW b \in T \cup {a}, KeyAt(p, b) \in Directives
       PROVE  /\ new[KeyAt(p, b)] = SetTo(KeyAt(p, b), ValueAt(p, b))
              /\ KeyAt(p, b) \in Numbers => Num[ValueAt(p, b)] >= 0
  <2>1. CASE b = a  BY <1>3, <1>6, <2>1
  <2>2. CASE b \in T
    <3>1. /\ q[KeyAt(p, b)] = SetTo(KeyAt(p, b), ValueAt(p, b))
          /\ KeyAt(p, b) \in Numbers => Num[ValueAt(p, b)] >= 0
      BY <1>11, <2>2 DEF Filled
    <3>2. new[KeyAt(p, b)] = q[KeyAt(p, b)]
      BY <1>4, <1>5, <1>11, <2>2, DirectiveFields
    <3>3. QED  BY <3>1, <3>2
  <2>3. QED  BY <1>11, <2>1, <2>2
<1>12. ASSUME NEW d \in Settings, \A b \in T \cup {a} : KeyAt(p, b) # d
       PROVE  new[d] = IF d \in Strings THEN None ELSE Unset
  <2>1. d # k /\ d \in Fields  BY <1>12, DirectiveFields DEF Settings, Directives
  <2>2. q[d] = IF d \in Strings THEN None ELSE Unset  BY <1>12 DEF Filled
  <2>3. QED  BY <1>4, <2>1, <2>2
<1> HIDE DEF k, v
<1>13. Filled(new, p, n, T \cup {a})
  BY <1>7, <1>8, <1>9, <1>10, <1>11, <1>12 DEF Filled
<1>14. QED  BY <1>13 DEF new, k, v

(* A value of a key conf.c does not know changes nothing. *)
LEMMA FilledOther ==
  ASSUME NEW q, NEW p, NEW n, NEW T, Filled(q, p, n, T),
         NEW a, ValueAt(p, a) # None, KeyAt(p, a) \notin Directives
  PROVE  Filled(q, p, n, T \cup {a})
<1>1. \A b \in T \cup {a} : ValueAt(p, b) # None  BY DEF Filled
<1>2. \A b, c \in T \cup {a} : KeyAt(p, b) \in Directives /\ KeyAt(p, b) = KeyAt(p, c) => b = c
  BY DEF Filled
<1>3. \A b \in T \cup {a} : KeyAt(p, b) \in Directives =>
        /\ q[KeyAt(p, b)] = SetTo(KeyAt(p, b), ValueAt(p, b))
        /\ KeyAt(p, b) \in Numbers => Num[ValueAt(p, b)] >= 0
  BY DEF Filled
<1>4. \A d \in Settings : (\A b \in T \cup {a} : KeyAt(p, b) # d) =>
        q[d] = IF d \in Strings THEN None ELSE Unset
  BY DEF Filled
<1>5. QED  BY <1>1, <1>2, <1>3, <1>4, Zenon DEF Filled

(* A directive is refused with a reason. *)
LEMMA RefusedIll ==
  ASSUME NEW p \in Wanted, NEW q, NEW n, NEW T \in SUBSET Places(p), Filled(q, p, n, T),
         NEW a \in Places(p), a \notin T, KeyAt(p, a) \in Directives,
         ~MaySet(q, KeyAt(p, a), ValueAt(p, a))
  PROVE  Ill(p) \/ Given(p, "max_slots") # {}
<1> DEFINE k == KeyAt(p, a)
           v == ValueAt(p, a)
<1>1. a \in Given(p, k)  BY DEF Given
<1>2. CASE \E b \in T : KeyAt(p, b) = k
  <2>1. PICK b \in T : KeyAt(p, b) = k  BY <1>2
  <2>2. b \in Given(p, k) /\ b # a  BY <2>1 DEF Given
  <2>3. Ill(p)  BY <1>1, <2>2 DEF Ill, Directives
  <2>4. QED  BY <2>3
<1>3. CASE k = "max_slots"  BY <1>1, <1>3
<1>4. CASE k # "max_slots" /\ \A b \in T : KeyAt(p, b) # k
  <2>1. k \in Settings  BY <1>4 DEF Settings, Directives
  <2>2. q[k] = IF k \in Strings THEN None ELSE Unset  BY <1>4, <2>1 DEF Filled
  <2>3. k \notin Strings /\ ~(Num[v] >= 0)  BY <2>2 DEF MaySet
  <2>4. k \in Numbers /\ Num[v] < 0
    <3>1. v \in DOMAIN Rank  BY PlaceOf
    <3>2. Num[v] \in Int  BY <3>1, NumAssumption
    <3> HIDE DEF v
    <3>3. Num[v] < 0  BY <2>3, <3>2
    <3>4. QED  BY <2>3, <3>3, DirectiveFields
  <2>5. Ill(p)  BY <1>1, <2>4 DEF Ill
  <2>6. QED  BY <2>5
<1>5. QED  BY <1>2, <1>3, <1>4

(* A pool that was read to the end is well formed. *)
LEMMA CompleteSound ==
  ASSUME NEW p \in Wanted, NEW q, Complete(q, p), multilevel => Single(p)
  PROVE  ~Ill(p)
<1>1. p.lines \in Seq(LineType) /\ DOMAIN p.lines = 1 .. Len(p.lines)
  BY LenProperties DEF Wanted
<1>2. Filled(q, p, Len(p.lines), Places(p)) /\ p.lines # <<>>  BY DEF Complete
<1>3. None \notin Texts(p)
  <2>1. SUFFICES ASSUME NEW l \in Range(p.lines), None \in {l.key} \cup Range(l.vals)
                 PROVE  FALSE
    BY <1>2 DEF Texts, Filled
  <2>2. PICK i \in 1 .. Len(p.lines) : l = p.lines[i]  BY <1>1 DEF Range
  <2>3. l.key # None  BY <1>2, <2>2 DEF Filled
  <2>4. l \in LineType  BY <1>1, <2>2, ElementOfSeq
  <2>5. l.vals \in Seq(DOMAIN Rank)  BY <2>4 DEF LineType
  <2>6. PICK j \in 1 .. Len(l.vals) : l.vals[j] = None
    BY <2>1, <2>3, <2>5, LenProperties DEF Range
  <2>7. <<i, j>> \in Places(p) /\ ValueAt(p, <<i, j>>) = None  BY <2>2, <2>6, IsPlace
  <2>8. QED  BY <1>2, <2>7 DEF Filled
<1>4. ASSUME NEW d \in Directives, NEW a \in Given(p, d), NEW b \in Given(p, d)
      PROVE  a = b
  <2>1. a \in Places(p) /\ b \in Places(p) /\ KeyAt(p, a) = d /\ KeyAt(p, b) = d
    BY DEF Given
  <2>2. QED  BY <1>2, <2>1 DEF Filled
<1>5. ASSUME NEW d \in Numbers, NEW a \in Given(p, d)
      PROVE  ~(Num[ValueAt(p, a)] < 0)
  <2>1. a \in Places(p) /\ KeyAt(p, a) = d /\ d \in Directives  BY DEF Given, Directives
  <2>2. Num[ValueAt(p, a)] >= 0  BY <1>2, <2>1 DEF Filled
  <2>3. Num[ValueAt(p, a)] \in Int  BY <2>1, PlaceOf, NumAssumption
  <2>4. QED  BY <2>2, <2>3
<1>6. QED  BY <1>2, <1>3, <1>4, <1>5 DEF Ill, Single, Directives

LEMMA DefaultAt ==
  ASSUME NEW q \in PoolType, q # Raw, NEW d \in Fields
  PROVE  Default(q)[d] = IF d = "backlog" /\ q[d] = Unset THEN 512
                         ELSE IF d = "port" /\ q[d] = Unset THEN 5432 ELSE q[d]
<1>1. q \in [Fields -> Values]  BY DEF PoolType
<1>2. /\ "timeout" \in Fields /\ "backlog" \in Fields /\ "port" \in Fields
  BY DEF Fields, Strings, Numbers
<1>3. Default(q)["timeout"] = q["timeout"]  BY <1>1, <1>2 DEF Default, Unset
<1>4. d # "timeout" =>
        Default(q)[d] = IF d = "backlog" /\ q[d] = Unset THEN 512
                        ELSE IF d = "port" /\ q[d] = Unset THEN 5432 ELSE q[d]
  BY <1>1, <1>2 DEF Default
<1>5. QED  BY <1>3, <1>4

(* With its defaults, it is the pool that is meant. *)
LEMMA CompleteMeans ==
  ASSUME NEW p \in Wanted, NEW q \in PoolType, q # Raw, Complete(q, p)
  PROVE  Means(Default(q), p)
<1>1. Filled(q, p, Len(p.lines), Places(p))  BY DEF Complete
<1>2. Default(q)["name"] = p.name
  <2>1. q["name"] = p.name  BY <1>1 DEF Filled
  <2>2. "name" \in Fields  BY DEF Fields
  <2>3. QED  BY <2>1, <2>2, DefaultAt
<1>3. ASSUME NEW d \in Settings
      PROVE  Default(q)[d] = Meant(p, d)
  <2>1. d \in Directives /\ d \in Fields  BY DirectiveFields DEF Settings, Directives
  <2>2. CASE Given(p, d) # {}
    <3> DEFINE a == CHOOSE a \in Given(p, d) : TRUE
    <3>1. a \in Given(p, d)  BY <2>2
    <3>2. Meant(p, d) = SetTo(d, ValueAt(p, a))  BY <2>2 DEF Meant
    <3> HIDE DEF a
    <3>3. a \in Places(p) /\ KeyAt(p, a) = d  BY <3>1 DEF Given
    <3>4. q[d] = SetTo(d, ValueAt(p, a)) /\ (d \in Numbers => Num[ValueAt(p, a)] >= 0)
      BY <1>1, <2>1, <3>3 DEF Filled
    <3>5. d \in {"backlog", "port"} => q[d] # Unset
      BY <3>4 DEF SetTo, Strings, Numbers, Unset
    <3>6. Default(q)[d] = q[d]  BY <2>1, <3>5, DefaultAt
    <3>7. QED  BY <3>2, <3>4, <3>6
  <2>3. CASE Given(p, d) = {}
    <3>1. \A a \in Places(p) : KeyAt(p, a) # d  BY <2>3 DEF Given
    <3>2. q[d] = IF d \in Strings THEN None ELSE Unset  BY <1>1, <3>1 DEF Filled
    <3>3. Meant(p, d) = CASE d \in Strings -> None
                          [] d = "backlog" -> 512
                          [] d = "port" -> 5432
                          [] OTHER -> Unset
      BY <2>3 DEF Meant
    <3>4. QED  BY <2>1, <3>2, <3>3, DefaultAt DEF Strings
  <2>4. QED  BY <2>2, <2>3
<1>4. QED  BY <1>2, <1>3 DEF Means

-----------------------------------------------------------------------------
(* qsort loses no pool and doubles none *)

Permutes(o, n) ==
  /\ o \in [1 .. n -> 1 .. n]
  /\ \A i, j \in 1 .. n : o[i] = o[j] => i = j
  /\ \A j \in 1 .. n : \E i \in 1 .. n : o[i] = j

LEMMA SortedPermutes ==
  ASSUME NEW ps, Ready(ps), NEW f, NEW q \in Sorted(ps, f)
  PROVE  \E o : Permutes(o, Len(ps)) /\ \A i \in 1 .. Len(ps) : q[i] = ps[o[i]]
<1>1. DOMAIN ps = 1 .. Len(ps) /\ Len(ps) \in Nat  BY LenProperties DEF Ready
<1> DEFINE n == Len(ps)
           S == 1 .. n
<1>2. PICK o \in [S -> S] : IsInjective(o) /\ q = [i \in S |-> ps[o[i]]]
  BY <1>1 DEF Sorted
<1>3. \A i \in S : q[i] = ps[o[i]]  BY <1>2
<1>4. \A i, j \in S : o[i] = o[j] => i = j  BY <1>2 DEF IsInjective
<1>5. \A j \in S : \E i \in S : o[i] = j
  <2>1. IsFiniteSet(S)
    <3>1. n \in Int /\ 1 \in Int  BY <1>1
    <3> HIDE DEF n
    <3>2. QED  BY <3>1, FS_Interval
  <2>2. o \in Injection(S, S)  BY <1>2 DEF Injection, IsInjective
  <2> HIDE DEF S
  <2>3. o \in Surjection(S, S)  BY <2>1, <2>2, FS_Injection
  <2>4. QED  BY <2>3 DEF Surjection
<1>6. QED  BY <1>2, <1>3, <1>4, <1>5 DEF Permutes

LEMMA PermutesTwice ==
  ASSUME NEW n, NEW o, NEW r, Permutes(o, n), Permutes(r, n)
  PROVE  Permutes([i \in 1 .. n |-> o[r[i]]], n)
<1> DEFINE t == [i \in 1 .. n |-> o[r[i]]]
<1>1. t \in [1 .. n -> 1 .. n]  BY DEF Permutes
<1>2. \A i, j \in 1 .. n : t[i] = t[j] => i = j  BY DEF Permutes
<1>3. ASSUME NEW j \in 1 .. n
      PROVE  \E i \in 1 .. n : t[i] = j
  <2>1. PICK k \in 1 .. n : o[k] = j  BY DEF Permutes
  <2>2. PICK i \in 1 .. n : r[i] = k  BY DEF Permutes
  <2>3. QED  BY <2>1, <2>2
<1> HIDE DEF t
<1>4. QED  BY <1>1, <1>2, <1>3 DEF Permutes, t

-----------------------------------------------------------------------------
(* The structure check of a file with pools *)

LEMMA FitsAt ==
  ASSUME NEW c, NEW n, Fits(c, n)
  PROVE  /\ n = <<>> => Counts(c, 0, 0, {0, 2}, {FALSE})
         /\ n = <<EvenMap>> => Counts(c, 1, 0, {0, 2}, {FALSE})
         /\ n = <<OddMap>> => Counts(c, 1, 1, {0, 2}, {FALSE})
         /\ n = <<EvenMap, EvenMap>> => Counts(c, 2, 1, {0, 2}, BOOLEAN)
         /\ n = <<EvenMap, OddMap>> => Counts(c, 2, 1, {1}, BOOLEAN)
         /\ n = <<EvenMap, EvenMap, InSeq>> => Counts(c, 2, 1, {1, 2}, {TRUE})
BY ShapesDiffer DEF Fits

LEMMA DeepPlaces ==
  /\ <<EvenMap, EvenMap>> \in Deep /\ <<EvenMap, OddMap>> \in Deep
  /\ <<EvenMap, EvenMap, InSeq>> \in Deep
BY DEF Deep

LEMMA ListsAt ==
  ASSUME NEW ps, NEW r, NEW n, NEW s, ListsSeen(ps, r, n, s)
  PROVE  /\ \A i \in 1 .. r.pool - 1 : Single(ps[i])
         /\ n \in {<<>>, <<EvenMap>>} => (r.pool # 0 => Single(ps[r.pool]))
         /\ n \in Deep /\ s = TRUE => \E j \in Begun(ps[r.pool], r.line, n) :
                                  Begun(ps[r.pool], r.line, n) = {j}
         /\ n \in Deep /\ s = FALSE => Begun(ps[r.pool], r.line, n) = {}
BY ShapesDiffer, Zenon DEF ListsSeen, Deep

(* The lists of a pool that were begun, event by event. *)
LEMMA BegunFacts ==
  ASSUME NEW p \in Wanted, NEW line \in Nat
  PROVE  /\ Begun(p, 0, <<EvenMap, EvenMap>>) = {}
         /\ Begun(p, line + 1, <<EvenMap, OddMap>>) = Begun(p, line, <<EvenMap, EvenMap>>)
         /\ Begun(p, line, <<EvenMap, EvenMap, InSeq>>) = Begun(p, line, <<EvenMap, EvenMap>>)
         /\ line \notin Lists(p) =>
              Begun(p, line, <<EvenMap, EvenMap>>) = Begun(p, line, <<EvenMap, OddMap>>)
         /\ line \in Lists(p) =>
              /\ line \notin Begun(p, line, <<EvenMap, OddMap>>)
              /\ Begun(p, line, <<EvenMap, EvenMap>>)
                   = Begun(p, line, <<EvenMap, OddMap>>) \cup {line}
         /\ line = Len(p.lines) => Begun(p, line, <<EvenMap, EvenMap>>) = Lists(p)
         /\ \A n : Begun(p, line, n) \subseteq Lists(p)
<1> DEFINE even == <<EvenMap, EvenMap>>
           odd  == <<EvenMap, OddMap>>
           list == <<EvenMap, EvenMap, InSeq>>
<1>1. even # odd /\ list # odd  BY ShapesDiffer
<1>2. \A j \in Lists(p) : j \in Nat /\ j # 0 /\ j <= Len(p.lines)
  <2>1. DOMAIN p.lines = 1 .. Len(p.lines) /\ Len(p.lines) \in Nat
    BY LenProperties DEF Wanted
  <2>2. QED  BY <2>1 DEF Lists
<1> HIDE DEF even, odd, list
<1>3. \A k : Begun(p, k, even) = {j \in Lists(p) : j < k \/ j = k}
  BY <1>1 DEF Begun, odd
<1>4. \A k : Begun(p, k, list) = {j \in Lists(p) : j < k \/ j = k}
  BY <1>1 DEF Begun, odd
<1>5. \A k : Begun(p, k, odd) = {j \in Lists(p) : j < k}
  BY <1>1 DEF Begun, odd
<1>6. Begun(p, 0, even) = {}  BY <1>2, <1>3
<1>7. Begun(p, line + 1, odd) = Begun(p, line, even)
  <2>1. \A j \in Lists(p) : j < line + 1 <=> j < line \/ j = line  BY <1>2
  <2>2. Begun(p, line + 1, odd) = {j \in Lists(p) : j < line + 1}  BY <1>5
  <2>3. Begun(p, line, even) = {j \in Lists(p) : j < line \/ j = line}  BY <1>3
  <2>4. QED  BY <2>1, <2>2, <2>3
<1>8. Begun(p, line, list) = Begun(p, line, even)  BY <1>3, <1>4, Zenon
<1>9. line \notin Lists(p) => Begun(p, line, even) = Begun(p, line, odd)  BY <1>3, <1>5
<1>10. line \in Lists(p) => /\ line \notin Begun(p, line, odd)
                            /\ Begun(p, line, even) = Begun(p, line, odd) \cup {line}
  BY <1>3, <1>5
<1>11. line = Len(p.lines) => Begun(p, line, even) = Lists(p)
  <2>1. ASSUME line = Len(p.lines), NEW j \in Lists(p)
        PROVE  j < line \/ j = line
    <3> DEFINE k == Len(p.lines)
    <3>1. k = line /\ j \in Nat /\ j <= k  BY <1>2, <2>1
    <3> HIDE DEF k
    <3>2. QED  BY <3>1
  <2>2. Begun(p, line, even) = {j \in Lists(p) : j < line \/ j = line}  BY <1>3
  <2>3. QED  BY <2>1, <2>2
<1>12. \A n : Begun(p, line, n) \subseteq Lists(p)  BY DEF Begun
<1>13. QED
  BY <1>6, <1>7, <1>8, <1>9, <1>10, <1>11, <1>12, Zenon DEF even, odd, list

(* Whether the line is a list is what follows its key. *)
LEMMA IsList ==
  ASSUME NEW p \in Wanted, NEW i \in 1 .. Len(p.lines)
  PROVE  i \in Lists(p) <=> p.lines[i].list
BY LenProperties DEF Lists, Wanted

LEMMA ListsFollow ==
  ASSUME NEW ps \in Seq(Wanted), NEW r, NEW n, NEW e, NEW m, Bounds(ps, r, n), Turn(n, e, m),
         Says(ps, n, r, e), ListsSeen(ps, r, n, check.seq), check \in Checks, Fits(check, n),
         ~Misplaced(e)
  PROVE  ListsSeen(ps, More(n, e, r), m, Checked(e).seq)
<1> DEFINE p == ps[r.pool]
           t == More(n, e, r)
           s == check.seq
<1>1. /\ r.pool \in 0 .. Len(ps) /\ r.line \in Nat /\ Len(ps) \in Nat
      /\ r.pool # 0 => p \in Wanted
  <2>1. r.pool \in 0 .. Len(ps) /\ r.line \in Nat /\ Len(ps) \in Nat
    BY BoundsAt, LenProperties
  <2>2. r.pool # 0 => r.pool \in 1 .. Len(ps)  BY <2>1
  <2>3. QED  BY <2>1, <2>2, WantedFacts
<1>2. \A i \in 1 .. r.pool - 1 : Single(ps[i])  BY ListsAt
<1>0. n \in Deep => IF check.seq THEN \E j \in Begun(p, r.line, n) : Begun(p, r.line, n) = {j}
                        ELSE Begun(p, r.line, n) = {}
  <2>1. n \in Deep /\ check.seq => \E j \in Begun(p, r.line, n) : Begun(p, r.line, n) = {j}
    <3>1. n \in Deep /\ check.seq = TRUE =>
            \E j \in Begun(p, r.line, n) : Begun(p, r.line, n) = {j}
      BY ListsAt, Zenon
    <3>2. QED  BY <3>1 DEF Checks
  <2>2. n \in Deep /\ ~check.seq => Begun(p, r.line, n) = {}
    <3>1. n \in Deep /\ check.seq = FALSE => Begun(ps[r.pool], r.line, n) = {}
      BY ListsAt, Zenon
    <3>2. QED  BY <3>1 DEF Checks
  <2>3. QED  BY <2>1, <2>2
<1>3. CASE /\ m \in {<<>>, <<EvenMap>>} /\ n \in {<<>>, <<EvenMap>>}
           /\ e.type \in Outer \cup {"map+", "map-"}
  <2>1. t = r  BY <1>3, MoreFacts DEF Outer
  <2>2. r.pool # 0 => Single(p)  BY <1>3, ListsAt
  <2> HIDE DEF t, p
  <2>3. QED  BY <1>2, <1>3, <2>1, <2>2 DEF ListsSeen, t, p
<1>4. CASE n = <<EvenMap>> /\ e.type = "scalar" /\ m = <<OddMap>>
  <2>1. t = [pool |-> r.pool + 1, line |-> 0, value |-> 0]  BY <1>4, MoreFacts
  <2>2. t.pool - 1 = r.pool  BY <1>1, <2>1
  <2>3. r.pool # 0 => Single(p)  BY <1>4, ListsAt
  <2>4. \A i \in 1 .. r.pool : i \in 1 .. r.pool - 1 \/ (i = r.pool /\ r.pool # 0)  BY <1>1
  <2>5. \A i \in 1 .. t.pool - 1 : Single(ps[i])  BY <1>2, <2>2, <2>3, <2>4
  <2> HIDE DEF t
  <2>6. QED  BY <1>4, <2>5 DEF ListsSeen, t
<1>5. CASE n = <<OddMap>> /\ e.type = "map+" /\ m = <<EvenMap, EvenMap>>
  <2>1. t = r  BY <1>5, MoreFacts
  <2>2. r.pool # 0 /\ r.line = 0  BY <1>5, BoundsAt
  <2>3. check.seq = FALSE  BY <1>5, FitsAt DEF Counts
  <2>4. Checked(e).seq = FALSE  BY <1>5, <2>3, CheckedFacts
  <2>5. Begun(p, r.line, m) = {}  BY <1>1, <1>5, <2>2, BegunFacts
  <2> HIDE DEF t, p
  <2>6. QED  BY <1>2, <1>5, <2>1, <2>4, <2>5 DEF ListsSeen, Deep, t, p
<1>6. CASE n = <<EvenMap, EvenMap>> /\ e.type = "scalar" /\ m = <<EvenMap, OddMap>>
  <2>1. t = [pool |-> r.pool, line |-> r.line + 1, value |-> 0]  BY <1>6, MoreFacts
  <2>2. r.pool # 0  BY <1>6, BoundsAt
  <2>3. Checked(e).seq = s  BY <1>6, CheckedFacts
  <2>4. Begun(p, r.line + 1, m) = Begun(p, r.line, n)  BY <1>1, <1>6, <2>2, BegunFacts
  <2>5. IF s THEN \E j \in Begun(p, r.line, n) : Begun(p, r.line, n) = {j}
             ELSE Begun(p, r.line, n) = {}
    <3>1. n \in Deep  BY <1>6, DeepPlaces
    <3>2. QED  BY <1>0, <3>1
  <2> HIDE DEF t
  <2>6. t.pool = r.pool /\ t.line = r.line + 1  BY <2>1
  <2> HIDE DEF p, s
  <2>7. QED  BY <1>2, <1>6, <2>3, <2>4, <2>5, <2>6 DEF ListsSeen, Deep, t, p
<1>7. CASE n = <<EvenMap, EvenMap>> /\ e.type = "map-" /\ m = <<EvenMap>>
  <2>1. t = r  BY <1>7, MoreFacts
  <2>2. r.pool # 0  BY <1>7, BoundsAt
  <2>3. r.line = Len(p.lines)  BY <1>7, SaysAt
  <2>4. check.depth = 2  BY <1>7, FitsAt DEF Counts
  <2>5. check.seq  BY <1>7, <2>4 DEF Misplaced, PoolWithoutList, MAX_DEPTH
  <2>6. \E j \in Begun(p, r.line, n) : Begun(p, r.line, n) = {j}
    <3>1. n \in Deep  BY <1>7, DeepPlaces
    <3>2. QED  BY <1>0, <2>5, <3>1
  <2>7. Begun(p, r.line, n) = Lists(p)  BY <1>1, <1>7, <2>2, <2>3, BegunFacts
  <2>8. Single(p)  BY <2>6, <2>7 DEF Single
  <2> HIDE DEF t, p
  <2>9. QED  BY <1>2, <1>7, <2>1, <2>8 DEF ListsSeen, t, p
<1>8. CASE n = <<EvenMap, OddMap>> /\ e.type = "scalar" /\ m = <<EvenMap, EvenMap>>
  <2>1. t = [pool |-> r.pool, line |-> r.line, value |-> r.value + 1]  BY <1>8, MoreFacts
  <2>2. r.pool # 0 /\ r.line \in 1 .. Len(p.lines)  BY <1>8, BoundsAt
  <2>3. Checked(e).seq = s  BY <1>8, CheckedFacts
  <2>4. ~p.lines[r.line].list  BY <1>8, SaysAt
  <2>5. Begun(p, r.line, m) = Begun(p, r.line, n)
    BY <1>1, <1>8, <2>2, <2>4, IsList, BegunFacts
  <2>6. IF s THEN \E j \in Begun(p, r.line, n) : Begun(p, r.line, n) = {j}
             ELSE Begun(p, r.line, n) = {}
    <3>1. n \in Deep  BY <1>8, DeepPlaces
    <3>2. QED  BY <1>0, <3>1
  <2> HIDE DEF t
  <2>7. t.pool = r.pool /\ t.line = r.line  BY <2>1
  <2> HIDE DEF p, s
  <2>8. QED  BY <1>2, <1>8, <2>3, <2>5, <2>6, <2>7 DEF ListsSeen, Deep, t, p
<1>9. CASE n = <<EvenMap, OddMap>> /\ e.type = "seq+" /\ m = <<EvenMap, EvenMap, InSeq>>
  <2>1. t = r  BY <1>9, MoreFacts
  <2>2. r.pool # 0 /\ r.line \in 1 .. Len(p.lines)  BY <1>9, BoundsAt
  <2>3. Checked(e).seq = TRUE  BY <1>9, CheckedFacts
  <2>4. p.lines[r.line].list  BY <1>9, SaysAt
  <2>5. ~check.seq  BY <1>9 DEF Misplaced, SequenceMisplaced
  <2>6. Begun(p, r.line, n) = {}
    <3>1. n \in Deep  BY <1>9, DeepPlaces
    <3>2. QED  BY <1>0, <2>5, <3>1
  <2>7. Begun(p, r.line, m) = {r.line}
    <3>1. p \in Wanted /\ r.line \in Lists(p)  BY <1>1, <2>2, <2>4, IsList
    <3> HIDE DEF p
    <3>2. Begun(p, r.line, <<EvenMap, OddMap>>) = {}  BY <1>9, <2>6
    <3>3. Begun(p, r.line, <<EvenMap, EvenMap>>) = {r.line}
      <4>1. Begun(p, r.line, <<EvenMap, EvenMap>>)
              = Begun(p, r.line, <<EvenMap, OddMap>>) \cup {r.line}
        BY <1>1, <3>1, BegunFacts
      <4>2. QED  BY <3>2, <4>1, Zenon
    <3>4. Begun(p, r.line, <<EvenMap, EvenMap, InSeq>>) = Begun(p, r.line, <<EvenMap, EvenMap>>)
      BY <1>1, <3>1, BegunFacts
    <3>5. QED  BY <1>9, <3>3, <3>4
  <2> HIDE DEF t, p
  <2>8. QED  BY <1>2, <1>9, <2>1, <2>3, <2>7 DEF ListsSeen, Deep, t, p
<1>10. CASE /\ n = <<EvenMap, EvenMap, InSeq>> /\ e.type \in {"scalar", "seq-"}
            /\ m \in {n, <<EvenMap, EvenMap>>}
  <2>1. t.pool = r.pool /\ t.line = r.line
    <3>1. t = r \/ t = [pool |-> r.pool, line |-> r.line, value |-> r.value + 1]
      BY <1>10, MoreFacts
    <3> HIDE DEF t
    <3>2. QED  BY <3>1
  <2>2. r.pool # 0  BY <1>10, BoundsAt
  <2>3. Checked(e).seq = s  BY <1>10, CheckedFacts
  <2>4. Begun(p, r.line, m) = Begun(p, r.line, n)
    <3>1. Begun(p, r.line, <<EvenMap, EvenMap, InSeq>>) = Begun(p, r.line, <<EvenMap, EvenMap>>)
      BY <1>1, <2>2, BegunFacts
    <3> HIDE DEF p
    <3>2. QED  BY <1>10, <3>1
  <2>5. IF s THEN \E j \in Begun(p, r.line, n) : Begun(p, r.line, n) = {j}
             ELSE Begun(p, r.line, n) = {}
    <3>1. n \in Deep  BY <1>10, DeepPlaces
    <3>2. QED  BY <1>0, <3>1
  <2> HIDE DEF t, p, s
  <2>6. m \in Deep  BY <1>10 DEF Deep
  <2>7. QED  BY <1>2, <2>1, <2>3, <2>4, <2>5, <2>6 DEF ListsSeen, t, p
<1>11. CASE n = <<OddMap>> /\ e.type = "scalar"
  <2>1. check.depth = 1 /\ check.count[1] = 1  BY <1>11, FitsAt DEF Counts
  <2>2. Misplaced(e)  BY <1>11, <2>1 DEF Misplaced, ScalarMisplaced, ROOT_DEPTH
  <2>3. QED  BY <2>2
<1>12. QED
  BY <1>3, <1>4, <1>5, <1>6, <1>7, <1>8, <1>9, <1>10, <1>11 DEF Turn

(* What the check turns down is a pool that is ill formed. *)
LEMMA MisplacedIll ==
  ASSUME NEW ps \in Seq(Wanted), NEW r, NEW n, NEW e, NEW m, Bounds(ps, r, n), Turn(n, e, m),
         Says(ps, n, r, e), ListsSeen(ps, r, n, check.seq), check \in Checks, Fits(check, n),
         Misplaced(e), multilevel
  PROVE  r.pool \in 1 .. Len(ps) /\ Ill(ps[r.pool])
<1> USE DEF MAX_DEPTH, ROOT_DEPTH
<1> DEFINE p == ps[r.pool]
<1>1. r.pool \in 0 .. Len(ps) /\ r.line \in Nat /\ Len(ps) \in Nat
  BY BoundsAt, LenProperties
<1>2. r.pool # 0 => r.pool \in 1 .. Len(ps) /\ p \in Wanted
  <2>1. r.pool # 0 => r.pool \in 1 .. Len(ps)  BY <1>1
  <2>2. QED  BY <2>1, WantedFacts
<1>0. n \in Deep => IF check.seq THEN \E j \in Begun(p, r.line, n) : Begun(p, r.line, n) = {j}
                        ELSE Begun(p, r.line, n) = {}
  <2>1. n \in Deep /\ check.seq => \E j \in Begun(p, r.line, n) : Begun(p, r.line, n) = {j}
    <3>1. n \in Deep /\ check.seq = TRUE =>
            \E j \in Begun(p, r.line, n) : Begun(p, r.line, n) = {j}
      BY ListsAt, Zenon
    <3>2. QED  BY <3>1 DEF Checks
  <2>2. n \in Deep /\ ~check.seq => Begun(p, r.line, n) = {}
    <3>1. n \in Deep /\ check.seq = FALSE => Begun(ps[r.pool], r.line, n) = {}
      BY ListsAt, Zenon
    <3>2. QED  BY <3>1 DEF Checks
  <2>3. QED  BY <2>1, <2>2
<1>3. CASE n = <<OddMap>> /\ e.type = "scalar"
  <2>1. r.pool # 0 /\ p.lines = <<>>  BY <1>3, BoundsAt, SaysAt
  <2>2. QED  BY <1>2, <2>1 DEF Ill
<1>4. CASE n = <<EvenMap, EvenMap>> /\ e.type = "map-"
  <2>1. check.depth = 2  BY <1>4, FitsAt DEF Counts
  <2>2. ~check.seq
    BY <1>4, <2>1 DEF Misplaced, PoolWithoutList, MappingMisplaced, SequenceMisplaced,
                      ScalarMisplaced
  <2>3. Begun(p, r.line, n) = {}
    <3>1. n \in Deep  BY <1>4, DeepPlaces
    <3>2. QED  BY <1>0, <2>2, <3>1
  <2>4. r.pool # 0 /\ r.line = Len(p.lines)  BY <1>4, BoundsAt, SaysAt
  <2>5. Lists(p) = {}  BY <1>1, <1>2, <1>4, <2>3, <2>4, BegunFacts
  <2>6. QED  BY <1>2, <2>4, <2>5 DEF Ill
<1>5. CASE n = <<EvenMap, OddMap>> /\ e.type = "seq+"
  <2>1. check.depth = 2 /\ check.count[2] = 1  BY <1>5, FitsAt DEF Counts
  <2>2. check.seq
    BY <1>5, <2>1 DEF Misplaced, PoolWithoutList, MappingMisplaced, SequenceMisplaced,
                      ScalarMisplaced
  <2>3. PICK j \in Begun(p, r.line, n) : TRUE
    <3>1. n \in Deep  BY <1>5, DeepPlaces
    <3>2. QED  BY <1>0, <2>2, <3>1
  <2>4. r.pool # 0 /\ r.line \in 1 .. Len(p.lines) /\ p.lines[r.line].list
    BY <1>5, BoundsAt, SaysAt
  <2>5. r.line \in Lists(p) /\ j \in Lists(p) /\ j # r.line
    <3>1. p \in Wanted /\ r.line \in Lists(p)  BY <1>2, <2>4, IsList
    <3> HIDE DEF p
    <3>2. r.line \notin Begun(p, r.line, <<EvenMap, OddMap>>)  BY <1>1, <3>1, BegunFacts
    <3>3. Begun(p, r.line, n) \subseteq Lists(p)  BY <1>1, <3>1, BegunFacts
    <3>4. j # r.line  BY <1>5, <2>3, <3>2
    <3>5. QED  BY <2>3, <3>1, <3>3, <3>4
  <2>6. QED  BY <1>2, <2>4, <2>5 DEF Ill
<1>6. CASE ~\/ n = <<OddMap>> /\ e.type = "scalar"
            \/ n = <<EvenMap, EvenMap>> /\ e.type = "map-"
            \/ n = <<EvenMap, OddMap>> /\ e.type = "seq+"
  <2>1. ~MappingMisplaced(e)
    <3>1. n = <<>> => check.depth = 0  BY FitsAt DEF Counts
    <3>2. n = <<OddMap>> => check.depth = 1 /\ check.count[1] = 1  BY FitsAt DEF Counts
    <3>3. e.type = "map+" => n = <<>> \/ n = <<OddMap>>  BY DEF Turn, Outer
    <3>4. QED  BY <3>1, <3>2, <3>3 DEF MappingMisplaced
  <2>2. ~PoolWithoutList(e)
    <3>1. n = <<EvenMap>> => check.depth = 1  BY FitsAt DEF Counts
    <3>2. e.type = "map-" => n = <<EvenMap>>  BY <1>6 DEF Turn, Outer
    <3>3. QED  BY <3>1, <3>2 DEF PoolWithoutList
  <2>3. ~SequenceMisplaced(e)
    <3>1. e.type # "seq+"  BY <1>6 DEF Turn, Outer
    <3>2. QED  BY <3>1 DEF SequenceMisplaced
  <2>4. ~ScalarMisplaced(e)
    <3>1. n = <<EvenMap>> => check.depth = 1 /\ check.count[1] = 0  BY FitsAt DEF Counts
    <3>2. n \in Deep => check.depth = 2  BY FitsAt DEF Counts, Deep
    <3>3. e.type = "scalar" => n = <<EvenMap>> \/ n \in Deep  BY <1>6 DEF Turn, Outer, Deep
    <3>4. QED  BY <3>1, <3>2, <3>3 DEF ScalarMisplaced
  <2>5. QED  BY <2>1, <2>2, <2>3, <2>4 DEF Misplaced
<1>7. QED  BY <1>3, <1>4, <1>5, <1>6

-----------------------------------------------------------------------------
(* From pass to pass, in a file with pools *)

LEMMA SamePools ==
  ASSUME UNCHANGED call
  PROVE  /\ Ps' = Ps /\ Read' = Read /\ Asked' = Asked /\ Nest' = Nest
         /\ \A p, q : Clash(p, q)' = Clash(p, q)
         /\ \A p : Ill(p)' = Ill(p)
         /\ file' = file /\ multilevel' = multilevel
BY DEF call, Ps, Read, Asked, Nest, Clash, Ill, Meant

(* Between the passes, and at the end, there is nothing to keep. *)
LEMMA NothingToRead ==
  ASSUME pc' \in PCs \ {"structure", "begin", "parse", "end", "post", "accepted", "destroy"}
  PROVE  WrittenInv'
BY DEF WrittenInv, Faithful, Justified

LEMMA StillReading ==
  ASSUME UNCHANGED call, pc' \in {"structure", "begin", "parse", "end", "post"},
         pc' \in {"end", "post"} => DocumentCount(file) = 1,
         Asked => /\ pc' = "structure" => StructureRead'
                  /\ pc' = "begin" => R' = NothingRead /\ SinglesInv'
                  /\ pc' = "parse" => PoolsRead' /\ SinglesInv'
                  /\ pc' = "end" => AllRead' /\ SinglesInv'
                  /\ pc' = "post" => AllRead' /\ SinglesInv' /\ ~validParser'
  PROVE  WrittenInv'
<1>1. DocumentCount(file') = DocumentCount(file)  BY SamePools
<1>2. Faithful' /\ Justified'  BY DEF Faithful, Justified
<1>3. QED  BY <1>1, <1>2, SamePools DEF WrittenInv

(* What there may be to be said against a file. *)
Excuse ==
  \/ file.broken \/ file.banned
  \/ \E i \in 1 .. Len(Ps) : Ill(Ps[i]) \/ Given(Ps[i], "max_slots") # {}
  \/ \E i, j \in 1 .. Len(Ps) : i < j /\ Clash(Ps[i], Ps[j])

LEMMA RefusedWell ==
  ASSUME Types, UNCHANGED call, pc' = "destroy", Asked => Excuse
  PROVE  WrittenInv'
<1>1. DOMAIN Ps = 1 .. Len(Ps)  BY PoolsFacts, LenProperties
<1>2. Asked =>
        \/ file.broken \/ file.banned \/ Faulty(file.pools)
        \/ \E p \in Range(file.pools) : Given(p, "max_slots") # {}
  <2>1. SUFFICES ASSUME Asked, ~file.broken, ~file.banned
                 PROVE  \/ Faulty(Ps) \/ \E p \in Range(Ps) : Given(p, "max_slots") # {}
    BY DEF Ps
  <2>2. CASE \E i \in 1 .. Len(Ps) : Ill(Ps[i]) \/ Given(Ps[i], "max_slots") # {}
    <3>1. PICK i \in 1 .. Len(Ps) : Ill(Ps[i]) \/ Given(Ps[i], "max_slots") # {}  BY <2>2
    <3>2. Ps[i] \in Range(Ps)  BY <1>1 DEF Range
    <3>3. QED  BY <3>1, <3>2 DEF Faulty
  <2>3. CASE \E i, j \in 1 .. Len(Ps) : i < j /\ Clash(Ps[i], Ps[j])
    BY <1>1, <2>3, Zenon DEF Faulty
  <2>4. QED  BY <2>1, <2>2, <2>3 DEF Excuse
<1>3. Faulty(file.pools)' = Faulty(file.pools)  BY SamePools DEF Faulty
<1>4. Justified'
  <2>1. SUFFICES ASSUME Ps # <<>>
                 PROVE  \/ file.broken \/ file.banned \/ DocumentCount(file) # 1
                        \/ Faulty(file.pools)
                        \/ \E p \in Range(file.pools) : Given(p, "max_slots") # {}
    BY <1>3, SamePools DEF Justified, Ps
  <2>2. QED  BY <1>2, <2>1 DEF Asked
<1>5. QED  BY <1>4 DEF WrittenInv, Faithful

LEMMA WrittenStutters ==
  ASSUME WrittenInv, UNCHANGED vars
  PROVE  WrittenInv'
<1>1. /\ file' = file /\ multilevel' = multilevel /\ pc' = pc /\ pos' = pos /\ check' = check
      /\ arg' = arg /\ pool' = pool /\ validParser' = validParser /\ UNCHANGED call
  BY DEF vars, parsing, call
<1>2. At' = At /\ R' = R /\ Ps' = Ps /\ Asked' = Asked  BY <1>1, SamePools DEF At, R
<1>3. StructureRead' = StructureRead  BY <1>1, <1>2 DEF StructureRead
<1>4. PoolsRead' = PoolsRead /\ AllRead' = AllRead  BY <1>1, <1>2 DEF PoolsRead, AllRead
<1>5. SinglesInv' = SinglesInv  BY <1>1, <1>2 DEF SinglesInv
<1>6. Faithful' = Faithful
  <2>1. \A p : Ill(p)' = Ill(p)  BY <1>1, SamePools
  <2>2. QED  BY <1>1, <2>1 DEF Faithful
<1>7. Justified' = Justified
  <2>1. Faulty(file.pools)' = Faulty(file.pools)  BY <1>1, SamePools DEF Faulty
  <2>2. QED  BY <1>1, <2>1 DEF Justified
<1>8. QED  BY <1>1, <1>2, <1>3, <1>4, <1>5, <1>6, <1>7 DEF WrittenInv

LEMMA AtStart ==
  ASSUME Types, UNCHANGED call, pos' = 1
  PROVE  At' = <<>> /\ R' = NothingRead
<1>1. Nest[1] = <<>>  BY FileFacts DEF Nested
<1>2. Read[1] = NothingRead  BY PoolsFacts DEF Counting
<1>3. QED  BY <1>1, <1>2, SamePools DEF At, R

LEMMA StartsUnread ==
  ASSUME NEW ps \in Seq(Wanted)
  PROVE  /\ Bounds(ps, NothingRead, <<>>) /\ Bounds(ps, NothingRead, <<EvenMap>>)
         /\ ListsSeen(ps, NothingRead, <<>>, FALSE)
<1>1. NothingRead.pool = 0 /\ NothingRead.line = 0 /\ NothingRead.value = 0  BY DEF NothingRead
<1>2. 0 \in 0 .. Len(ps)
  <2>1. Len(ps) \in Nat  BY LenProperties
  <2>2. QED  BY <2>1
<1>3. QED  BY <1>1, <1>2 DEF Bounds, ListsSeen

LEMMA WrittenDocument ==
  ASSUME ConfInv, WrittenInv, ValidateDocument
  PROVE  WrittenInv'
<1>1. CASE file.broken \/ DocumentCount(file) # 1
  <2>1. pc' = "destroy" /\ UNCHANGED call  BY <1>1 DEF ValidateDocument, Leave
  <2>2. Asked => Excuse  BY <1>1 DEF Asked, Excuse
  <2>3. QED  BY <2>1, <2>2, RefusedWell DEF ConfInv
<1>2. CASE ~(file.broken \/ DocumentCount(file) # 1)
  <2>1. pc' = "tokens"  BY <1>2 DEF ValidateDocument, Enter
  <2>2. QED  BY <2>1, NothingToRead DEF PCs
<1>3. QED  BY <1>1, <1>2

LEMMA WrittenTokens ==
  ASSUME ConfInv, WrittenInv, ValidateTokens
  PROVE  WrittenInv'
<1>1. Types  BY DEF ConfInv
<1>2. CASE file.banned
  <2>1. pc' = "destroy" /\ UNCHANGED call  BY <1>2 DEF ValidateTokens, Leave
  <2>2. Asked => Excuse  BY <1>2 DEF Excuse
  <2>3. QED  BY <1>1, <2>1, <2>2, RefusedWell
<1>3. CASE ~file.banned
  <2>1. /\ pos' = 1 /\ check' = NoCheck /\ UNCHANGED call
        /\ pc' = IF multilevel THEN "structure" ELSE "begin"
    BY <1>3 DEF ValidateTokens, Enter
  <2>2. At' = <<>> /\ R' = NothingRead  BY <1>1, <2>1, AtStart
  <2>3. StructureRead'
    <3>1. Ps \in Seq(Wanted)  BY <1>1, PoolsFacts
    <3>2. Bounds(Ps, NothingRead, <<>>) /\ ListsSeen(Ps, NothingRead, <<>>, FALSE)
      BY <3>1, StartsUnread
    <3>3. check'.seq = FALSE  BY <2>1 DEF NoCheck
    <3>4. Ps' = Ps  BY <2>1, SamePools
    <3>5. Bounds(Ps', R', At') /\ ListsSeen(Ps', R', At', check'.seq)
      BY <2>2, <3>2, <3>3, <3>4
    <3>6. QED  BY <3>5 DEF StructureRead
  <2>4. pc' = "begin" => SinglesInv'  BY <2>1, SamePools DEF SinglesInv
  <2>5. pc' \in {"structure", "begin"}  BY <2>1
  <2>6. QED  BY <2>1, <2>2, <2>3, <2>4, <2>5, StillReading
<1>4. QED  BY <1>2, <1>3

(* A pass goes on to the next event. *)
LEMMA ReadOn ==
  ASSUME Types, Asked, pos <= Len(file.events), UNCHANGED call, pos' = pos + 1
  PROVE  /\ Ps' = Ps /\ Asked' /\ At' = Nest[pos + 1] /\ R' = More(At, Event, R)
         /\ Bounds(Ps, R, At) => Bounds(Ps', R', At')
<1>1. Ps' = Ps /\ Asked' /\ Nest' = Nest /\ Read' = Read  BY SamePools
<1>2. At' = Nest[pos + 1] /\ R' = More(At, Event, R)  BY <1>1, SaysHere DEF At, R
<1>3. Bounds(Ps, R, At) => Bounds(Ps, More(At, Event, R), Nest[pos + 1])
  <2>1. Ps \in Seq(Wanted)  BY PoolsFacts
  <2>2. Says(Ps, At, R, Event) /\ Turn(At, Event, Nest[pos + 1])  BY SaysHere
  <2>3. QED  BY <2>1, <2>2, BoundsFollow
<1>4. QED  BY <1>1, <1>2, <1>3

LEMMA WrittenStructure ==
  ASSUME ConfInv, WrittenInv, ValidateStructure
  PROVE  WrittenInv'
<1>1. /\ pc = "structure" /\ Types /\ check \in Checks /\ Fits(check, At) /\ multilevel
      /\ pos <= Len(file.events)
  BY DEF ConfInv, Types, StructureInv, ValidateStructure
<1>2. ASSUME Asked
      PROVE  /\ Ps \in Seq(Wanted) /\ Bounds(Ps, R, At) /\ ListsSeen(Ps, R, At, check.seq)
             /\ Turn(At, Event, Nest[pos + 1]) /\ Says(Ps, At, R, Event)
  <2>1. StructureRead  BY <1>1, <1>2 DEF WrittenInv
  <2>2. QED  BY <1>1, <1>2, <2>1, PoolsFacts, SaysHere DEF StructureRead
<1>3. CASE Misplaced(Event)
  <2>1. pc' = "destroy" /\ UNCHANGED call  BY <1>3 DEF ValidateStructure, Leave
  <2>2. ASSUME Asked
        PROVE  Excuse
    <3>1. R.pool \in 1 .. Len(Ps) /\ Ill(Ps[R.pool])
      BY <1>1, <1>2, <1>3, <2>2, MisplacedIll
    <3>2. QED  BY <3>1 DEF Excuse
  <2>3. QED  BY <1>1, <2>1, <2>2, RefusedWell
<1>4. CASE ~Misplaced(Event) /\ Event.type = "stream-"
  <2>1. pc' = "begin" /\ pos' = 1 /\ UNCHANGED call  BY <1>4 DEF ValidateStructure, Enter
  <2>2. R' = NothingRead  BY <1>1, <2>1, AtStart
  <2>3. ASSUME Asked, NEW i \in 1 .. Len(Ps)
        PROVE  Single(Ps[i])
    <3>1. R.pool = Len(Ps)  BY <1>2, <1>4, <2>3, SaysAt
    <3>2. At = <<>>
      <4>1. MayFollow(At, Event)  BY <1>1, Here
      <4>2. QED  BY <1>4, <4>1 DEF MayFollow, Outer
    <3>3. Len(Ps) \in Nat  BY <1>1, PoolsFacts
    <3>4. i \in 1 .. R.pool - 1 \/ (i = R.pool /\ R.pool # 0)  BY <3>1, <3>3
    <3>5. \A k \in 1 .. R.pool - 1 : Single(Ps[k])  BY <1>2, <2>3, ListsAt
    <3>6. R.pool # 0 => Single(Ps[R.pool])  BY <1>2, <2>3, <3>2, ListsAt
    <3>7. QED  BY <3>4, <3>5, <3>6
  <2>4. Asked => SinglesInv'  BY <2>1, <2>3, SamePools DEF SinglesInv
  <2>5. QED  BY <2>1, <2>2, <2>4, StillReading
<1>5. CASE ~Misplaced(Event) /\ Event.type # "stream-"
  <2>1. pc' = "structure" /\ pos' = pos + 1 /\ check' = Checked(Event) /\ UNCHANGED call
    BY <1>1, <1>5 DEF ValidateStructure, Step
  <2>2. ASSUME Asked
        PROVE  StructureRead'
    <3>1. /\ Ps' = Ps /\ At' = Nest[pos + 1] /\ R' = More(At, Event, R) /\ Bounds(Ps', R', At')
      BY <1>1, <1>2, <2>1, <2>2, ReadOn
    <3>2. ListsSeen(Ps, More(At, Event, R), Nest[pos + 1], Checked(Event).seq)
      BY <1>1, <1>2, <1>5, <2>2, ListsFollow
    <3>3. ListsSeen(Ps', R', At', check'.seq)  BY <2>1, <3>1, <3>2
    <3>4. QED  BY <3>1, <3>3 DEF StructureRead
  <2>3. QED  BY <2>1, <2>2, StillReading
<1>6. QED  BY <1>3, <1>4, <1>5

LEMMA WrittenBegin ==
  ASSUME ConfInv, WrittenInv, BeginParse
  PROVE  WrittenInv'
<1>1. pc = "begin" /\ Types /\ pool = <<>>  BY DEF BeginParse, ConfInv, Types, Early
<1>2. CASE Event.type = "none"
  <2>1. UNCHANGED vars  BY <1>2 DEF BeginParse
  <2>2. QED  BY <2>1, WrittenStutters
<1>3. CASE Event.type # "none"
  <2>1. /\ pos' = pos + 1 /\ UNCHANGED call /\ pool' = <<>>
        /\ pc' = IF Event.type = "map+" THEN "parse" ELSE "begin"
    BY <1>1, <1>3 DEF BeginParse
  <2>2. pos <= Len(file.events)  BY <1>1, <1>3, Within
  <2>3. ASSUME Asked
        PROVE  /\ R' = NothingRead /\ SinglesInv'
               /\ Event.type = "map+" => PoolsRead'
    <3>1. R = NothingRead /\ SinglesInv  BY <1>1, <2>3 DEF WrittenInv
    <3>2. At = <<>>  BY <1>1, <2>3, AskedShaped DEF ConfInv, ParseInv
    <3>3. Ps' = Ps /\ At' = Nest[pos + 1] /\ R' = More(At, Event, R)
      BY <1>1, <2>1, <2>2, <2>3, ReadOn
    <3>4. R' = NothingRead  BY <3>1, <3>2, <3>3, MoreFacts
    <3>5. SinglesInv'  BY <2>1, <3>1, <3>3, SamePools DEF SinglesInv
    <3>6. ASSUME Event.type = "map+"
          PROVE  PoolsRead'
      <4>1. At' = <<EvenMap>>
        <5>1. Turn(At, Event, Nest[pos + 1])  BY <1>1, <2>2, <2>3, SaysHere
        <5>2. QED  BY <3>2, <3>3, <3>6, <5>1, ShapesDiffer DEF Turn, Outer
      <4>2. Ps \in Seq(Wanted)  BY <1>1, PoolsFacts
      <4>3. Bounds(Ps', R', At')  BY <3>3, <3>4, <4>1, <4>2, StartsUnread
      <4>4. R'.pool = 0 /\ Len(pool') = 0  BY <2>1, <3>4 DEF NothingRead
      <4>5. At' \notin {<<EvenMap, OddMap>>, <<EvenMap, EvenMap, InSeq>>}
        BY <4>1, ShapesDiffer
      <4>6. QED  BY <4>3, <4>4, <4>5 DEF PoolsRead
    <3>7. QED  BY <3>4, <3>5, <3>6
  <2>4. pc' \in {"begin", "parse"} /\ (pc' = "parse" => Event.type = "map+")  BY <2>1
  <2>5. QED  BY <2>1, <2>3, <2>4, StillReading
<1>4. QED  BY <1>2, <1>3

-----------------------------------------------------------------------------
(* The parser on a file with pools *)

LEMMA Reading ==
  ASSUME ConfInv, WrittenInv, Asked, pc = "parse"
  PROVE  /\ Types /\ Aligned /\ NoRaw /\ pos <= Len(file.events)
         /\ Trusted(file, multilevel) /\ Ps \in Seq(Wanted) /\ Len(Ps) \in Nat
         /\ Says(Ps, At, R, Event) /\ Turn(At, Event, Nest[pos + 1])
         /\ PoolsRead /\ SinglesInv /\ Bounds(Ps, R, At)
         /\ pool \in Seq(PoolType) /\ DOMAIN pool = 1 .. R.pool
         /\ R.pool \in 0 .. Len(Ps) /\ R.line \in Nat /\ R.value \in Nat
         /\ R.pool # 0 => /\ R.pool \in 1 .. Len(Ps) /\ Ps[R.pool] \in Wanted
                          /\ pool[R.pool] \in PoolType /\ pool[R.pool] # Raw
<1>1. Types /\ PoolsRead /\ SinglesInv  BY DEF ConfInv, WrittenInv
<1>2. Trusted(file, multilevel)  BY <1>1, AskedShaped
<1>3. Aligned /\ NoRaw /\ Turn(At, Event, Nest[pos + 1])  BY <1>2, ParseTurn
<1>4. pos <= Len(file.events)
  <2>1. At # <<>>  BY <1>3, AlignedAt
  <2>2. file.events # <<>>  BY <1>1, FileFacts DEF Nested
  <2>3. pos # Len(file.events) + 1  BY <1>1, <2>1, <2>2, NoneOpen
  <2>4. QED  BY <1>1, <2>3, FileFacts DEF Types
<1>5. Says(Ps, At, R, Event)  BY <1>1, <1>4, SaysHere
<1>6. Bounds(Ps, R, At) /\ Len(pool) = R.pool  BY <1>1 DEF PoolsRead
<1>7. Ps \in Seq(Wanted) /\ Len(Ps) \in Nat  BY <1>1, PoolsFacts
<1>8. R.pool \in 0 .. Len(Ps) /\ R.line \in Nat /\ R.value \in Nat  BY <1>6, BoundsAt
<1>9. pool \in Seq(PoolType)  BY <1>1 DEF Types
<1>10. DOMAIN pool = 1 .. R.pool  BY <1>6, <1>9, LenProperties
<1>11. ASSUME R.pool # 0
       PROVE  /\ R.pool \in 1 .. Len(Ps) /\ Ps[R.pool] \in Wanted
              /\ pool[R.pool] \in PoolType /\ pool[R.pool] # Raw
  <2>1. R.pool \in 1 .. Len(Ps) /\ R.pool \in 1 .. R.pool  BY <1>7, <1>8, <1>11
  <2>2. Ps[R.pool] \in Wanted  BY <1>7, <2>1, WantedFacts
  <2>3. pool[R.pool] \in PoolType  BY <1>6, <1>9, <2>1, ElementOfSeq
  <2>4. pool[R.pool] # Raw  BY <1>3, <1>10, <2>1 DEF NoRaw
  <2>5. QED  BY <2>1, <2>2, <2>3, <2>4
<1>12. QED
  BY <1>1, <1>2, <1>3, <1>4, <1>5, <1>6, <1>7, <1>8, <1>9, <1>10, <1>11

(* What a step of the parser has to leave behind. *)
LEMMA ParsesOn ==
  ASSUME ConfInv, WrittenInv, pc = "parse", pc' = "parse", pos' = pos + 1, UNCHANGED call,
         Asked => PoolsRead'
  PROVE  WrittenInv'
<1>1. ASSUME Asked
      PROVE  SinglesInv'
  <2>1. SinglesInv  BY <1>1 DEF WrittenInv
  <2>2. QED  BY <2>1, SamePools DEF SinglesInv
<1>2. QED  BY <1>1, StillReading

(* The pool last begun, when all of its lines were read, is complete. *)
LEMMA LinesOverComplete ==
  ASSUME ConfInv, WrittenInv, Asked, pc = "parse", At = <<EvenMap>>,
         NEW i \in 1 .. R.pool
  PROVE  Complete(pool[i], Ps[i])
<1>1. /\ PoolsRead /\ Bounds(Ps, R, At) /\ R.pool \in 0 .. Len(Ps) /\ Len(Ps) \in Nat
      /\ R.line \in Nat /\ R.value \in Nat
      /\ R.pool # 0 => Ps[R.pool] \in Wanted
  BY Reading
<1>2. CASE i # R.pool
  <2>1. i \in 1 .. R.pool - 1  BY <1>1, <1>2
  <2>2. QED  BY <1>1, <2>1 DEF PoolsRead
<1>3. CASE i = R.pool
  <2> DEFINE p == Ps[R.pool]
  <2>1. R.pool # 0  BY <1>1, <1>3
  <2>2. LinesOver(p, R)  BY <1>1, <2>1, BoundsAt
  <2>3. R.line = Len(p.lines) /\ (R.line # 0 => R.value = Len(p.lines[R.line].vals))
    BY <2>2 DEF LinesOver, ValuesOver
  <2>4. Filled(pool[R.pool], p, R.line, Reached(p, R.line, R.value)) /\ p.lines # <<>>
    BY <1>1, <2>1, ShapesDiffer DEF PoolsRead
  <2>5. p \in Wanted  BY <1>1, <2>1
  <2> HIDE DEF p
  <2>6. Reached(p, R.line, R.value) = Places(p)  BY <1>1, <2>3, <2>5, ReachedFacts
  <2>7. QED  BY <1>3, <2>3, <2>4, <2>6 DEF Complete, p
<1>4. QED  BY <1>2, <1>3

(* A step that sets nothing, at a place of which nothing more is read. *)
LEMMA NothingSet ==
  ASSUME ConfInv, WrittenInv, Asked, pc = "parse", UNCHANGED call, pos' = pos + 1,
         pool' = pool, Event.type # "scalar",
         At' \in {<<EvenMap, OddMap>>, <<EvenMap, EvenMap, InSeq>>} =>
           arg'[2] = Ps[R.pool].lines[R.line].key,
         R.pool # 0 /\ At' # <<OddMap>> => Ps[R.pool].lines # <<>>
  PROVE  PoolsRead'
<1>1. Types /\ PoolsRead /\ Bounds(Ps, R, At) /\ pos <= Len(file.events)  BY Reading
<1>2. Ps' = Ps /\ R' = More(At, Event, R) /\ Bounds(Ps', R', At')  BY <1>1, ReadOn
<1>3. R' = R  BY <1>2, MoreFacts
<1>4. QED  BY <1>1, <1>2, <1>3 DEF PoolsRead

LEMMA WrittenMappingEnd ==
  ASSUME ConfInv, WrittenInv, MappingEnd
  PROVE  WrittenInv'
<1>1. /\ pc = "parse" /\ Event.type = "map-" /\ Types
      /\ arg' = (IF depth = 2 THEN Front(arg) ELSE arg)
      /\ pc' = IF depth = 1 THEN "end" ELSE pc
      /\ pos' = pos + 1 /\ UNCHANGED call /\ pool' = pool
  BY DEF MappingEnd, ConfInv
<1>2. DocumentCount(file) = 1  BY <1>1 DEF ConfInv, PassedInv
<1>3. ASSUME Asked
      PROVE  \/ At = <<EvenMap>> /\ Stacked(1, FALSE, 0)
             \/ At = <<EvenMap, EvenMap>> /\ Stacked(2, FALSE, 1) /\ At' = <<EvenMap>>
  <2>1. Aligned /\ Turn(At, Event, Nest[pos + 1]) /\ pos <= Len(file.events)
    BY <1>1, <1>3, Reading
  <2>2. At' = Nest[pos + 1]  BY <1>1, <1>3, <2>1, ReadOn
  <2>3. At = <<EvenMap>> \/ (At = <<EvenMap, EvenMap>> /\ At' = <<EvenMap>>)
    BY <1>1, <2>1, <2>2 DEF Turn, Outer
  <2>4. QED  BY <2>1, <2>3, AlignedAt
<1>4. CASE depth = 1
  <2>1. ASSUME Asked
        PROVE  AllRead' /\ SinglesInv'
    <3>1. At = <<EvenMap>> /\ Len(arg) = 0  BY <1>3, <1>4, <2>1 DEF Stacked
    <3>2. PoolsRead /\ SinglesInv /\ Says(Ps, At, R, Event)  BY <1>1, <2>1, Reading
    <3>3. R.pool = Len(Ps)  BY <1>1, <3>1, <3>2, SaysAt
    <3>4. \A i \in 1 .. Len(Ps) : Complete(pool[i], Ps[i])
      BY <1>1, <2>1, <3>1, <3>3, LinesOverComplete
    <3>5. arg' = <<>>  BY <1>1, <1>4, <3>1, ArgFacts
    <3>6. AllRead'  BY <1>1, <3>2, <3>3, <3>4, <3>5, SamePools DEF AllRead, PoolsRead
    <3>7. SinglesInv'  BY <1>1, <3>2, SamePools DEF SinglesInv
    <3>8. QED  BY <3>6, <3>7
  <2>2. pc' = "end"  BY <1>1, <1>4
  <2>3. QED  BY <1>1, <1>2, <2>1, <2>2, StillReading
<1>5. CASE depth # 1
  <2>1. ASSUME Asked
        PROVE  PoolsRead'
    <3>1. At = <<EvenMap, EvenMap>> /\ At' = <<EvenMap>>  BY <1>3, <1>5, <2>1 DEF Stacked
    <3>2. PoolsRead  BY <1>1, <2>1, Reading
    <3>3. R.pool # 0 => Ps[R.pool].lines # <<>>  BY <3>1, <3>2, ShapesDiffer DEF PoolsRead
    <3>4. At' \notin {<<EvenMap, OddMap>>, <<EvenMap, EvenMap, InSeq>>}
      BY <3>1, ShapesDiffer
    <3>5. QED  BY <1>1, <2>1, <3>3, <3>4, NothingSet
  <2>2. QED  BY <1>1, <1>5, <2>1, ParsesOn
<1>6. QED  BY <1>4, <1>5

LEMMA WrittenMappingStart ==
  ASSUME ConfInv, WrittenInv, MappingStart
  PROVE  WrittenInv'
<1>1. /\ pc = "parse" /\ Event.type = "map+" /\ Types /\ pool' = pool
      /\ pc' = "parse" /\ pos' = pos + 1 /\ UNCHANGED call
  BY DEF MappingStart, ConfInv, Step
<1>2. ASSUME Asked
      PROVE  PoolsRead'
  <2>1. /\ Aligned /\ Turn(At, Event, Nest[pos + 1]) /\ pos <= Len(file.events)
        /\ Says(Ps, At, R, Event)
    BY <1>1, <1>2, Reading
  <2>2. At' = Nest[pos + 1]  BY <1>1, <1>2, <2>1, ReadOn
  <2>3. At = <<OddMap>> /\ At' = <<EvenMap, EvenMap>>
    BY <1>1, <2>1, <2>2, AlignedAt DEF Turn, Outer
  <2>4. Ps[R.pool].lines # <<>>  BY <1>1, <2>1, <2>3, SaysAt
  <2>5. At' \notin {<<EvenMap, OddMap>>, <<EvenMap, EvenMap, InSeq>>}
    BY <2>3, ShapesDiffer
  <2>6. QED  BY <1>1, <1>2, <2>4, <2>5, NothingSet
<1>3. QED  BY <1>1, <1>2, ParsesOn

LEMMA WrittenSequenceStart ==
  ASSUME ConfInv, WrittenInv, SequenceStart
  PROVE  WrittenInv'
<1>1. /\ pc = "parse" /\ Event.type = "seq+" /\ Types /\ pool' = pool /\ arg' = arg
      /\ pc' = "parse" /\ pos' = pos + 1 /\ UNCHANGED call
  BY DEF SequenceStart, ConfInv, Step
<1>2. ASSUME Asked
      PROVE  PoolsRead'
  <2>1. Turn(At, Event, Nest[pos + 1]) /\ PoolsRead  BY <1>1, <1>2, Reading
  <2>2. At = <<EvenMap, OddMap>>  BY <1>1, <2>1 DEF Turn, Outer
  <2>3. arg[2] = Ps[R.pool].lines[R.line].key  BY <2>1, <2>2 DEF PoolsRead
  <2>4. R.pool # 0 => Ps[R.pool].lines # <<>>  BY <2>1, <2>2, ShapesDiffer DEF PoolsRead
  <2>5. QED  BY <1>1, <1>2, <2>3, <2>4, NothingSet
<1>3. QED  BY <1>1, <1>2, ParsesOn

LEMMA WrittenSequenceEnd ==
  ASSUME ConfInv, WrittenInv, SequenceEnd
  PROVE  WrittenInv'
<1>1. /\ pc = "parse" /\ Event.type = "seq-" /\ Types /\ pool' = pool
      /\ pc' = "parse" /\ pos' = pos + 1 /\ UNCHANGED call
  BY DEF SequenceEnd, ConfInv, Step
<1>2. ASSUME Asked
      PROVE  PoolsRead'
  <2>1. /\ Aligned /\ Turn(At, Event, Nest[pos + 1]) /\ PoolsRead /\ pos <= Len(file.events)
    BY <1>1, <1>2, Reading
  <2>2. At' = Nest[pos + 1]  BY <1>1, <1>2, <2>1, ReadOn
  <2>3. At = <<EvenMap, EvenMap, InSeq>> /\ At' = <<EvenMap, EvenMap>>
    BY <1>1, <2>1, <2>2, AlignedAt DEF Turn, Outer
  <2>4. R.pool # 0 => Ps[R.pool].lines # <<>>  BY <2>1, <2>3, ShapesDiffer DEF PoolsRead
  <2>5. At' \notin {<<EvenMap, OddMap>>, <<EvenMap, EvenMap, InSeq>>}
    BY <2>3, ShapesDiffer
  <2>6. QED  BY <1>1, <1>2, <2>4, <2>5, NothingSet
<1>3. QED  BY <1>1, <1>2, ParsesOn

(* The place of a scalar that is pushed says what becomes of it. *)
LEMMA ScalarPlaces ==
  ASSUME ConfInv, WrittenInv, Asked, AtScalar, Event.value # None
  PROVE  \/ At = <<EvenMap>> /\ Nest[pos + 1] = <<OddMap>> /\ IsPool /\ ~IsLeaf
         \/ At = <<EvenMap, EvenMap>> /\ Nest[pos + 1] = <<EvenMap, OddMap>> /\ ~IsPool /\ ~IsLeaf
         \/ At = <<EvenMap, OddMap>> /\ Nest[pos + 1] = <<EvenMap, EvenMap>> /\ ~IsPool /\ IsLeaf
         \/ /\ At = <<EvenMap, EvenMap, InSeq>> /\ Nest[pos + 1] = <<EvenMap, EvenMap, InSeq>>
            /\ ~IsPool /\ IsLeaf
<1> USE DEF ROOT_DEPTH
<1>1. Aligned /\ Types /\ Trusted(file, multilevel)  BY Reading DEF AtScalar
<1>2. Len(Pushed) = Len(arg) + 1  BY <1>1, PushedFacts
<1>3. At = <<EvenMap>> => IsPool /\ ~IsLeaf  BY <1>1, AlignedAt DEF Stacked, IsPool, IsLeaf
<1>4. At = <<EvenMap, EvenMap>> => ~IsPool /\ ~IsLeaf
  <2>1. ASSUME At = <<EvenMap, EvenMap>>
        PROVE  depth = 2 /\ seq = FALSE /\ Len(arg) = 1
    BY <1>1, <2>1, AlignedAt DEF Stacked
  <2>2. depth = 2 /\ seq = FALSE /\ Len(Pushed) # depth + 1 => ~IsPool /\ ~IsLeaf
    BY DEF IsPool, IsLeaf
  <2>3. ASSUME At = <<EvenMap, EvenMap>>
        PROVE  Len(Pushed) # depth + 1
    <3>1. depth = 2 /\ Len(arg) = 1  BY <2>1, <2>3
    <3>2. Len(Pushed) = 2  BY <1>2, <3>1
    <3>3. QED  BY <3>1, <3>2
  <2>4. QED  BY <2>1, <2>2, <2>3, Zenon
<1>5. At = <<EvenMap, OddMap>> => ~IsPool /\ IsLeaf
  <2>1. ASSUME At = <<EvenMap, OddMap>>
        PROVE  depth = 2 /\ Len(arg) = 2
    BY <1>1, <2>1, AlignedAt DEF Stacked
  <2>2. depth = 2 /\ Len(Pushed) = depth + 1 => ~IsPool /\ IsLeaf  BY DEF IsPool, IsLeaf
  <2>3. QED  BY <1>2, <2>1, <2>2
<1>6. At = <<EvenMap, EvenMap, InSeq>> => ~IsPool /\ IsLeaf
  BY <1>1, AlignedAt DEF Stacked, IsPool, IsLeaf
<1>7. QED  BY <1>1, <1>3, <1>4, <1>5, <1>6, ScalarTurn

LEMMA WrittenKey ==
  ASSUME ConfInv, WrittenInv, KeyScalar
  PROVE  WrittenInv'
<1>1. /\ pc = "parse" /\ AtScalar /\ Event.value # None /\ ~IsLeaf /\ ~IsPool /\ Types
      /\ pool' = pool /\ arg' = Pushed /\ pc' = "parse" /\ pos' = pos + 1 /\ UNCHANGED call
      /\ Event.type = "scalar"
  BY DEF KeyScalar, ConfInv, Step, AtScalar
<1>2. ASSUME Asked
      PROVE  PoolsRead'
  <2> DEFINE p == Ps[R.pool]
  <2>1. At = <<EvenMap, EvenMap>>  BY <1>1, <1>2, ScalarPlaces
  <2>2. /\ Says(Ps, At, R, Event) /\ PoolsRead /\ Bounds(Ps, R, At) /\ Aligned
        /\ pos <= Len(file.events) /\ R.line \in Nat /\ R.value \in Nat
    BY <1>1, <1>2, Reading
  <2>3. /\ R.pool # 0 /\ ValuesOver(p, R)  BY <2>1, <2>2, BoundsAt
  <2>4. p \in Wanted  BY <1>1, <1>2, <2>3, Reading
  <2>5. Event.value = p.lines[R.line + 1].key  BY <1>1, <2>1, <2>2, SaysAt
  <2>6. Ps' = Ps /\ R' = More(At, Event, R) /\ Bounds(Ps', R', At')
    BY <1>1, <1>2, <2>2, ReadOn
  <2>7. R' = [pool |-> R.pool, line |-> R.line + 1, value |-> 0]
    BY <1>1, <2>1, <2>6, MoreFacts
  <2>8. arg'[2] = Event.value
    <3>1. Len(arg) = 1  BY <2>1, <2>2, AlignedAt DEF Stacked
    <3>2. QED  BY <1>1, <3>1, PushedFacts
  <2>9. Filled(pool[R.pool], p, R.line, Reached(p, R.line, R.value)) /\ p.lines # <<>>
    BY <2>1, <2>2, <2>3, ShapesDiffer DEF PoolsRead
  <2>10. \A i \in 1 .. R.pool - 1 : Complete(pool[i], Ps[i])  BY <2>2 DEF PoolsRead
  <2>11. Len(pool) = R.pool  BY <2>2 DEF PoolsRead
  <2> HIDE DEF p
  <2>12. Reached(p, R.line + 1, 0) = Reached(p, R.line, R.value)
    BY <2>2, <2>3, <2>4, ReachedFacts DEF ValuesOver
  <2>13. Filled(pool[R.pool], p, R.line + 1, Reached(p, R.line + 1, 0))
    BY <1>1, <2>2, <2>5, <2>9, <2>12, FilledKey
  <2>14. R'.pool = R.pool /\ R'.line = R.line + 1 /\ R'.value = 0  BY <2>7
  <2>15. QED
    BY <1>1, <2>5, <2>6, <2>8, <2>9, <2>10, <2>11, <2>13, <2>14 DEF PoolsRead, p
<1>3. QED  BY <1>1, <1>2, ParsesOn

(* A scalar of no characters is a name, a key, a value or a pool left out. *)
LEMMA WrittenEmpty ==
  ASSUME ConfInv, WrittenInv, EmptyScalar
  PROVE  WrittenInv'
<1>1. /\ pc = "parse" /\ Event.type = "scalar" /\ Event.value = None /\ Types
      /\ pc' = "destroy" /\ UNCHANGED call
  BY DEF EmptyScalar, AtScalar, ConfInv
<1>2. ASSUME Asked
      PROVE  Excuse
  <2>1. /\ Ps \in Seq(Wanted) /\ Len(Ps) \in Nat /\ Says(Ps, At, R, Event) /\ Aligned
        /\ Turn(At, Event, Nest[pos + 1]) /\ Bounds(Ps, R, At)
        /\ R.pool \in 0 .. Len(Ps) /\ R.line \in Nat /\ R.value \in Nat
        /\ R.pool # 0 => R.pool \in 1 .. Len(Ps) /\ Ps[R.pool] \in Wanted
    BY <1>1, <1>2, Reading
  <2> DEFINE p == Ps[R.pool]
  <2>2. R.pool # 0 => /\ Len(p.lines) \in Nat /\ DOMAIN p.lines = 1 .. Len(p.lines)
    BY <2>1, LenProperties DEF Wanted
  <2>3. CASE At = <<EvenMap>>
    <3>1. R.pool < Len(Ps) /\ Ps[R.pool + 1].name = None  BY <1>1, <2>1, <2>3, SaysAt
    <3>2. R.pool + 1 \in 1 .. Len(Ps)  BY <2>1, <3>1
    <3>3. Ill(Ps[R.pool + 1])  BY <3>1 DEF Ill, Texts
    <3>4. QED  BY <3>2, <3>3 DEF Excuse
  <2>4. CASE At = <<OddMap>>
    <3>1. R.pool # 0 /\ p.lines = <<>>  BY <1>1, <2>1, <2>4, BoundsAt, SaysAt
    <3>2. QED  BY <2>1, <3>1 DEF Excuse, Ill
  <2>5. CASE At = <<EvenMap, EvenMap>>
    <3>1. /\ R.pool # 0 /\ R.line < Len(p.lines) /\ p.lines[R.line + 1].key = None
      BY <1>1, <2>1, <2>5, BoundsAt, SaysAt
    <3>2. R.line + 1 \in DOMAIN p.lines  BY <2>1, <2>2, <3>1
    <3>3. p.lines[R.line + 1] \in Range(p.lines)  BY <3>2 DEF Range
    <3>4. None \in Texts(p)  BY <3>1, <3>3 DEF Texts
    <3>5. QED  BY <2>1, <3>1, <3>4 DEF Excuse, Ill
  <2>6. CASE At \in {<<EvenMap, OddMap>>, <<EvenMap, EvenMap, InSeq>>}
    <3>1. R.pool # 0 /\ R.line \in 1 .. Len(p.lines)  BY <2>1, <2>6, BoundsAt
    <3> DEFINE l == p.lines[R.line]
    <3>2. l \in Range(p.lines)  BY <2>2, <3>1 DEF Range
    <3>3. None \in Range(l.vals)
      <4>1. CASE At = <<EvenMap, OddMap>>
        <5>1. l.vals = <<Event.value>>
          <6>1. Says(Ps, At, R, Event)  BY <2>1
          <6>2. Ps[R.pool].lines[R.line].vals = <<Event.value>>
            BY <1>1, <4>1, <6>1, SaysAt
          <6>3. QED  BY <6>2
        <5>2. QED  BY <1>1, <5>1 DEF Range
      <4>2. CASE At = <<EvenMap, EvenMap, InSeq>>
        <5>1. R.value < Len(l.vals) /\ Event.value = l.vals[R.value + 1]
          <6>1. Says(Ps, At, R, Event)  BY <2>1
          <6>2. /\ R.value < Len(Ps[R.pool].lines[R.line].vals)
                /\ Event.value = Ps[R.pool].lines[R.line].vals[R.value + 1]
            BY <1>1, <4>2, <6>1, SaysAt, SMTT(20)
          <6>3. QED  BY <6>2
        <5>2. l.vals \in Seq(DOMAIN Rank)  BY <2>1, <3>1, WantedFacts
        <5>3. Len(l.vals) \in Nat /\ DOMAIN l.vals = 1 .. Len(l.vals)
          BY <5>2, LenProperties
        <5> DEFINE vals == l.vals
                   k == Len(vals)
        <5>4. R.value < k /\ k \in Nat /\ DOMAIN vals = 1 .. k /\ vals[R.value + 1] = None
          BY <1>1, <5>1, <5>3
        <5> HIDE DEF l, vals, k
        <5>5. R.value + 1 \in DOMAIN vals  BY <2>1, <5>4
        <5>6. None \in Range(vals)  BY <5>4, <5>5 DEF Range
        <5>7. QED  BY <5>6 DEF vals
      <4>3. QED  BY <2>6, <4>1, <4>2
    <3>4. None \in Texts(p)  BY <3>2, <3>3 DEF Texts
    <3>5. QED  BY <2>1, <3>1, <3>4 DEF Excuse, Ill
  <2>7. At \in {<<EvenMap>>, <<OddMap>>, <<EvenMap, EvenMap>>, <<EvenMap, OddMap>>,
                <<EvenMap, EvenMap, InSeq>>}
    BY <1>1, <2>1, AlignedAt DEF Turn, Outer
  <2>8. QED  BY <2>3, <2>4, <2>5, <2>6, <2>7
<1>3. QED  BY <1>1, <1>2, RefusedWell

(* An answer, or a first look at the file: no pool is being read. *)
LEMMA WrittenElsewhere ==
  ASSUME ConfInv, WrittenInv,
         \/ Open \/ OpenFails \/ Fail \/ PoolScalarFails \/ LeafScalarFails
         \/ Destroy \/ Close
  PROVE  WrittenInv'
<1>1. pc' \in {"document", "rejected", "failed", "closed"}
  BY DEF Open, OpenFails, Fail, PoolScalarFails, LeafScalarFails, HandleFails, Destroy,
         Close, Enter, Leave, GiveUp
<1>2. QED  BY <1>1, NothingToRead DEF PCs

(* conf_end_parse *)
LEMMA WrittenEnd ==
  ASSUME ConfInv, WrittenInv, EndParse
  PROVE  WrittenInv'
<1>1. /\ pc = "end" /\ pc' = "post" /\ validParser' = FALSE /\ UNCHANGED call
      /\ arg' = arg /\ pool' = pool
  BY DEF EndParse, Leave, parsing
<1>2. DocumentCount(file) = 1 /\ (Asked => AllRead /\ SinglesInv)  BY <1>1 DEF WrittenInv
<1>3. Asked => AllRead'  BY <1>1, <1>2, SamePools DEF AllRead
<1>4. Asked => SinglesInv'  BY <1>1, <1>2, SamePools DEF SinglesInv
<1>5. QED  BY <1>1, <1>2, <1>3, <1>4, StillReading

(* The name of a pool: those before it are complete, it has no line yet. *)
LEMMA WrittenPool ==
  ASSUME ConfInv, WrittenInv, PoolScalar
  PROVE  WrittenInv'
<1> DEFINE ps == Append(pool, Raw)
           d == Len(pool) + 1
<1>1. /\ pc = "parse" /\ AtScalar /\ Event.value # None /\ IsPool /\ Types
      /\ Event.type = "scalar" /\ pool \in Seq(PoolType)
      /\ pos' = pos + 1 /\ UNCHANGED call
  BY DEF PoolScalar, Handle, AtScalar, ConfInv, Types
<1>2. PICK left \in MaxSlotsLeft :
        /\ pool' = Handler(ps, Pushed, d, left).pool
        /\ pc' = IF Handler(ps, Pushed, d, left).ok THEN pc ELSE "destroy"
  BY DEF PoolScalar, Handle
<1>3. CASE ~Asked
  <2>1. pc' \in {"parse", "destroy"}  BY <1>1, <1>2
  <2>2. QED  BY <1>1, <1>3, <2>1, ParsesOn, RefusedWell
<1>4. CASE Asked
  <2>1. /\ Types /\ Aligned /\ pos <= Len(file.events) /\ Ps \in Seq(Wanted)
        /\ Len(Ps) \in Nat /\ Says(Ps, At, R, Event) /\ PoolsRead /\ Bounds(Ps, R, At)
        /\ R.pool \in 0 .. Len(Ps)
    BY <1>1, <1>4, Reading
  <2>2. At = <<EvenMap>> /\ Nest[pos + 1] = <<OddMap>>  BY <1>1, <1>4, ScalarPlaces
  <2>3. R.pool < Len(Ps) /\ Event.value = Ps[R.pool + 1].name
    BY <1>1, <2>1, <2>2, SaysAt
  <2>4. Len(arg) = 0  BY <2>1, <2>2, AlignedAt DEF Stacked
  <2>5. Len(Pushed) = 1 /\ Pushed[1] = Event.value  BY <1>1, <2>1, <2>4, PushedFacts
  <2> DEFINE new == NewPool(Event.value, left)
  <2>6. Handler(ps, Pushed, d, left) = [ok |-> TRUE, pool |-> [ps EXCEPT ![d] = new]]
    BY <2>5 DEF Handler
  <2>7. pool' = [ps EXCEPT ![d] = new] /\ pc' = "parse"  BY <1>1, <1>2, <2>6
  <2>8. Len(pool) = R.pool /\ d = R.pool + 1  BY <2>1 DEF PoolsRead
  <2>9. Event.value \in DOMAIN Rank  BY <1>4, <2>1, SaysHere
  <2>10. new \in PoolType  BY <2>9, NewPoolFacts
  <2>11. /\ ps \in Seq(PoolType) /\ Len(ps) = d /\ d \in Nat \ {0}
         /\ \A i \in 1 .. Len(pool) : ps[i] = pool[i]
    <3>1. Raw \in PoolType  BY DEF PoolType
    <3>2. Len(pool) \in Nat  BY <1>1, LenProperties, Zenon
    <3>3. QED  BY <1>1, <3>1, <3>2, AppendFacts
  <2> HIDE DEF ps, new
  <2>12. /\ Len(pool') = Len(ps)
         /\ \A i \in 1 .. Len(ps) : pool'[i] = IF i = d THEN new ELSE ps[i]
    <3> HIDE DEF d
    <3>1. d \in 1 .. Len(ps)  BY <2>11
    <3>2. QED  BY <2>7, <2>10, <2>11, <3>1, ExceptSeq
  <2> HIDE DEF d
  <2>13. Len(pool') = R.pool + 1 /\ pool'[R.pool + 1] = new
         /\ \A i \in 1 .. R.pool : pool'[i] = pool[i]
    <3>1. Len(pool') = R.pool + 1  BY <2>8, <2>11, <2>12
    <3>2. \A i \in 1 .. R.pool + 1 : pool'[i] = IF i = R.pool + 1 THEN new ELSE ps[i]
      BY <2>8, <2>11, <2>12
    <3>3. \A i \in 1 .. R.pool : ps[i] = pool[i]  BY <2>8, <2>11
    <3>4. R.pool \in Nat  BY <2>1
    <3> DEFINE n == R.pool
    <3> HIDE DEF n
    <3>5. \A i \in 1 .. n : i \in 1 .. n + 1 /\ i # n + 1  BY <3>4 DEF n
    <3>6. n + 1 \in 1 .. n + 1  BY <3>4 DEF n
    <3>7. QED  BY <3>1, <3>2, <3>3, <3>5, <3>6 DEF n
  <2>14. /\ Ps' = Ps /\ At' = <<OddMap>> /\ R' = More(At, Event, R)
         /\ Bounds(Ps', R', At')
    BY <1>1, <1>4, <2>1, <2>2, ReadOn
  <2>15. R'.pool = R.pool + 1 /\ R'.line = 0 /\ R'.value = 0
    <3>1. R' = [pool |-> R.pool + 1, line |-> 0, value |-> 0]
      BY <1>1, <2>2, <2>14, MoreFacts
    <3>2. QED  BY <3>1
  <2>16. \A i \in 1 .. R.pool : Complete(pool'[i], Ps[i])
    BY <1>1, <1>4, <2>2, <2>13, LinesOverComplete
  <2>17. Filled(new, Ps[R.pool + 1], 0, {}) /\ Reached(Ps[R.pool + 1], 0, 0) = {}
    <3>1. R.pool + 1 \in 1 .. Len(Ps)  BY <2>1, <2>3
    <3>2. Ps[R.pool + 1] \in Wanted  BY <2>1, <3>1, WantedFacts
    <3>3. Reached(Ps[R.pool + 1], 0, 0) = {}  BY <3>2, ReachedFacts
    <3>4. Filled(new, Ps[R.pool + 1], 0, {})  BY <1>1, <2>3, <3>2, FilledNew DEF new
    <3>5. QED  BY <3>3, <3>4
  <2>18. PoolsRead'
    <3>1. At' \notin {<<EvenMap, OddMap>>, <<EvenMap, EvenMap, InSeq>>}
      BY <2>14, ShapesDiffer
    <3>2. 1 .. R'.pool - 1 = 1 .. R.pool  BY <2>1, <2>15
    <3>3. Filled(pool'[R'.pool], Ps'[R'.pool], R'.line, Reached(Ps'[R'.pool], R'.line, R'.value))
      BY <2>13, <2>14, <2>15, <2>17
    <3>4. \A i \in 1 .. R'.pool - 1 : Complete(pool'[i], Ps'[i])  BY <2>14, <2>16, <3>2
    <3>5. QED  BY <2>13, <2>14, <2>15, <3>1, <3>3, <3>4 DEF PoolsRead
  <2>19. QED  BY <1>1, <2>7, <2>18, ParsesOn
<1>5. QED  BY <1>3, <1>4

LEMMA ReachedNext ==
  ASSUME NEW p \in Wanted, NEW r, r.line \in 1 .. Len(p.lines), r.value \in Nat,
         r.value < Len(p.lines[r.line].vals)
  PROVE  /\ <<r.line, r.value + 1>> \in Places(p)
         /\ <<r.line, r.value + 1>> \notin Reached(p, r.line, r.value)
         /\ Reached(p, r.line, r.value + 1)
              = Reached(p, r.line, r.value) \cup {<<r.line, r.value + 1>>}
BY ReachedMore

(* A value and its key, on the stack and in the file. *)
LEMMA LeafPlace ==
  ASSUME ConfInv, WrittenInv, Asked, AtScalar, Event.value # None, IsLeaf,
         NEW p, p = Ps[R.pool], NEW a, a = <<R.line, R.value + 1>>
  PROVE  /\ R.pool \in 1 .. Len(Ps) /\ p \in Wanted /\ data = R.pool
         /\ Len(Pushed) = 3 /\ Pushed[2] = KeyAt(p, a) /\ Pushed[2] = p.lines[R.line].key
         /\ Last(Pushed) = ValueAt(p, a) /\ ValueAt(p, a) # None
         /\ a \in Places(p) /\ a \notin Reached(p, R.line, R.value)
         /\ Reached(p, R.line, R.value + 1) = Reached(p, R.line, R.value) \cup {a}
         /\ Filled(pool[R.pool], p, R.line, Reached(p, R.line, R.value)) /\ p.lines # <<>>
         /\ More(At, Event, R) = [pool |-> R.pool, line |-> R.line, value |-> R.value + 1]
         /\ \/ Nest[pos + 1] = <<EvenMap, EvenMap>>
            \/ Nest[pos + 1] = <<EvenMap, EvenMap, InSeq>> /\ seq = TRUE
<1>1. pc = "parse" /\ Event.type = "scalar"  BY DEF AtScalar
<1>2. /\ Types /\ Aligned /\ PoolsRead /\ Bounds(Ps, R, At) /\ Says(Ps, At, R, Event)
      /\ R.value \in Nat /\ (R.pool # 0 => R.pool \in 1 .. Len(Ps) /\ Ps[R.pool] \in Wanted)
  BY <1>1, Reading
<1>3. \/ At = <<EvenMap, OddMap>> /\ Nest[pos + 1] = <<EvenMap, EvenMap>>
      \/ At = <<EvenMap, EvenMap, InSeq>> /\ Nest[pos + 1] = <<EvenMap, EvenMap, InSeq>>
  BY ScalarPlaces
<1>4. R.pool # 0 /\ R.line \in 1 .. Len(p.lines)  BY <1>2, <1>3, BoundsAt
<1>5. R.pool \in 1 .. Len(Ps) /\ p \in Wanted  BY <1>2, <1>4
<1>6. Len(arg) = 2 /\ Named /\ (At = <<EvenMap, EvenMap, InSeq>> => seq = TRUE)
  <2>1. At = <<EvenMap, OddMap>> => Len(arg) = 2 /\ Named
    BY <1>2, AlignedAt DEF Stacked
  <2>2. At = <<EvenMap, EvenMap, InSeq>> => Len(arg) = 2 /\ Named /\ seq = TRUE
    BY <1>2, AlignedAt DEF Stacked
  <2>3. QED  BY <1>3, <2>1, <2>2
<1>7. data = R.pool  BY <1>2, <1>6 DEF Named, PoolsRead
<1>8. arg[2] = p.lines[R.line].key  BY <1>2, <1>3 DEF PoolsRead
<1>9. Len(Pushed) = 3 /\ Pushed[2] = arg[2] /\ Last(Pushed) = Event.value
  BY <1>2, <1>6, PushedFacts
<1> DEFINE vals == p.lines[R.line].vals
<1>10. R.value < Len(vals) /\ Event.value = vals[R.value + 1]
  <2>1. CASE At = <<EvenMap, OddMap>>
    <3>1. R.value = 0  BY <1>2, <2>1, BoundsAt
    <3>2. vals = <<Event.value>>  BY <1>1, <1>2, <2>1, SaysAt
    <3> HIDE DEF vals
    <3>3. QED  BY <3>1, <3>2
  <2>2. CASE At = <<EvenMap, EvenMap, InSeq>>
    <3>1. Says(Ps, At, R, Event)  BY <1>2
    <3>2. /\ R.value < Len(Ps[R.pool].lines[R.line].vals)
          /\ Event.value = Ps[R.pool].lines[R.line].vals[R.value + 1]
      BY <1>1, <2>2, <3>1, SaysAt
    <3>3. QED  BY <3>2
  <2>3. QED  BY <1>3, <2>1, <2>2
<1>11. /\ a \in Places(p) /\ a \notin Reached(p, R.line, R.value)
       /\ Reached(p, R.line, R.value + 1) = Reached(p, R.line, R.value) \cup {a}
  <2>1. R.value < Len(p.lines[R.line].vals)  BY <1>10
  <2>2. p \in Wanted /\ R.line \in 1 .. Len(p.lines) /\ R.value \in Nat  BY <1>2, <1>4, <1>5
  <2>3. /\ <<R.line, R.value + 1>> \in Places(p)
        /\ <<R.line, R.value + 1>> \notin Reached(p, R.line, R.value)
        /\ Reached(p, R.line, R.value + 1)
             = Reached(p, R.line, R.value) \cup {<<R.line, R.value + 1>>}
    BY <2>1, <2>2, ReachedNext
  <2>4. QED  BY <2>3
<1>12. KeyAt(p, a) = p.lines[R.line].key /\ ValueAt(p, a) = Event.value
  <2>1. a[1] = R.line /\ a[2] = R.value + 1  OBVIOUS
  <2>2. QED  BY <1>10, <2>1 DEF KeyAt, ValueAt
<1>13. Filled(pool[R.pool], p, R.line, Reached(p, R.line, R.value)) /\ p.lines # <<>>
  <2>1. At # <<OddMap>>  BY <1>3, ShapesDiffer
  <2>2. QED  BY <1>2, <1>4, <2>1 DEF PoolsRead
<1>14. More(At, Event, R) = [pool |-> R.pool, line |-> R.line, value |-> R.value + 1]
  BY <1>1, <1>3, MoreFacts
<1>15. QED
  BY <1>3, <1>5, <1>6, <1>7, <1>8, <1>9, <1>11, <1>12, <1>13, <1>14

(* The value was kept, or ignored, and the parser goes on. *)
LEMMA ValueKept ==
  ASSUME ConfInv, WrittenInv, Asked, AtScalar, Event.value # None, IsLeaf,
         pos' = pos + 1, UNCHANGED call, arg' = (IF seq THEN arg ELSE Front(arg)),
         Len(pool') = Len(pool), \A i \in 1 .. R.pool - 1 : pool'[i] = pool[i],
         Filled(pool'[R.pool], Ps[R.pool], R.line,
                Reached(Ps[R.pool], R.line, R.value) \cup {<<R.line, R.value + 1>>})
  PROVE  PoolsRead'
<1> DEFINE p == Ps[R.pool]
           a == <<R.line, R.value + 1>>
<1>1. pc = "parse"  BY DEF AtScalar
<1>2. Types /\ PoolsRead /\ Bounds(Ps, R, At) /\ pos <= Len(file.events)  BY <1>1, Reading
<1>3. /\ Reached(p, R.line, R.value + 1) = Reached(p, R.line, R.value) \cup {a}
      /\ p.lines # <<>>
      /\ More(At, Event, R) = [pool |-> R.pool, line |-> R.line, value |-> R.value + 1]
      /\ \/ Nest[pos + 1] = <<EvenMap, EvenMap>>
         \/ Nest[pos + 1] = <<EvenMap, EvenMap, InSeq>> /\ seq = TRUE
      /\ Pushed[2] = p.lines[R.line].key /\ Len(Pushed) = 3
  BY LeafPlace
<1>4. Ps' = Ps /\ At' = Nest[pos + 1] /\ R' = More(At, Event, R) /\ Bounds(Ps', R', At')
  BY <1>2, ReadOn
<1>5. R'.pool = R.pool /\ R'.line = R.line /\ R'.value = R.value + 1  BY <1>3, <1>4
<1>6. At' \in {<<EvenMap, OddMap>>, <<EvenMap, EvenMap, InSeq>>} => arg'[2] = p.lines[R.line].key
  <2>1. At' # <<EvenMap, OddMap>>  BY <1>3, <1>4, ShapesDiffer
  <2>2. At' = <<EvenMap, EvenMap, InSeq>> => seq = TRUE  BY <1>3, <1>4, ShapesDiffer
  <2>3. Pushed[2] = arg[2]
    <3>1. /\ Len(Pushed) = Len(arg) + 1 /\ Len(arg) \in Nat
          /\ \A i \in 1 .. Len(arg) : Pushed[i] = arg[i]
      BY <1>2, PushedFacts, ArgFacts
    <3>2. Len(arg) = 2
      <4> DEFINE n == Len(arg)
      <4>1. n \in Nat /\ 3 = n + 1  BY <1>3, <3>1
      <4> HIDE DEF n
      <4>2. n = 2  BY <4>1
      <4>3. QED  BY <4>2 DEF n
    <3>3. QED  BY <3>1, <3>2
  <2>4. QED  BY <1>3, <2>1, <2>2, <2>3
<1>7. Len(pool) = R.pool /\ \A i \in 1 .. R.pool - 1 : Complete(pool[i], Ps[i])
  BY <1>2 DEF PoolsRead
<1>8. Filled(pool'[R.pool], p, R.line, Reached(p, R.line, R.value + 1))
  BY <1>3
<1>9. QED  BY <1>3, <1>4, <1>5, <1>6, <1>7, <1>8 DEF PoolsRead

LEMMA WrittenLeaf ==
  ASSUME ConfInv, WrittenInv, LeafScalar
  PROVE  WrittenInv'
<1>1. /\ pc = "parse" /\ AtScalar /\ Event.value # None /\ IsLeaf /\ Types
      /\ Event.type = "scalar" /\ pool \in Seq(PoolType)
      /\ pos' = pos + 1 /\ UNCHANGED call /\ arg' = (IF seq THEN arg ELSE Front(arg))
  BY DEF LeafScalar, Handle, AtScalar, ConfInv, Types
<1>2. PICK left \in MaxSlotsLeft :
        /\ pool' = Handler(pool, Pushed, data, left).pool
        /\ pc' = IF Handler(pool, Pushed, data, left).ok THEN pc ELSE "destroy"
  BY DEF LeafScalar, Handle
<1>3. CASE ~Asked
  <2>1. pc' \in {"parse", "destroy"}  BY <1>1, <1>2
  <2>2. QED  BY <1>1, <1>3, <2>1, ParsesOn, RefusedWell
<1>4. CASE Asked
  <2> DEFINE p == Ps[R.pool]
             a == <<R.line, R.value + 1>>
             q == pool[R.pool]
             T == Reached(p, R.line, R.value)
             k == Pushed[2]
             v == Last(Pushed)
  <2>1. /\ R.pool \in 1 .. Len(Ps) /\ p \in Wanted /\ data = R.pool
        /\ Len(Pushed) = 3 /\ k = KeyAt(p, a) /\ v = ValueAt(p, a) /\ v # None
        /\ a \in Places(p) /\ a \notin T /\ Filled(q, p, R.line, T)
    BY <1>1, <1>4, LeafPlace
  <2>2. q \in PoolType /\ q # Raw /\ Len(pool) = R.pool
    <3>1. R.pool # 0  BY <2>1
    <3>2. q \in PoolType /\ q # Raw  BY <1>1, <1>4, <3>1, Reading
    <3>3. PoolsRead  BY <1>1, <1>4, Reading
    <3>4. QED  BY <3>2, <3>3 DEF PoolsRead
  <2>3. Len(Pushed) - 1 = 2 /\ Len(Pushed) # 1  BY <2>1
  <2>4. Directive(Pushed) <=> k \in Directives  BY <2>3 DEF Directive, Directives
  <2>5. T \in SUBSET Places(p)  BY DEF Reached
  <2>6. ASSUME pc' = "parse", Len(pool') = Len(pool),
               \A i \in 1 .. R.pool - 1 : pool'[i] = pool[i],
               Filled(pool'[R.pool], p, R.line, T \cup {a})
        PROVE  WrittenInv'
    <3>1. PoolsRead'  BY <1>1, <1>4, <2>6, ValueKept
    <3>2. QED  BY <1>1, <2>6, <3>1, ParsesOn
  <2>7. CASE ~Directive(Pushed)
    <3>1. Handler(pool, Pushed, data, left) = [ok |-> TRUE, pool |-> pool]
      BY <2>3, <2>7 DEF Handler
    <3>2. pool' = pool /\ pc' = "parse"  BY <1>1, <1>2, <3>1
    <3>3. Filled(q, p, R.line, T \cup {a})
      <4>1. KeyAt(p, a) \notin Directives /\ ValueAt(p, a) # None  BY <2>1, <2>4, <2>7
      <4>2. QED  BY <2>1, <4>1, FilledOther
    <3>4. QED  BY <2>6, <3>2, <3>3
  <2>8. CASE Directive(Pushed) /\ MaySet(q, k, v)
    <3> DEFINE new == [q EXCEPT ![k] = SetTo(k, v)]
    <3>1. Handler(pool, Pushed, data, left) = [ok |-> TRUE, pool |-> [pool EXCEPT ![data] = new]]
      BY <2>1, <2>3, <2>8 DEF Handler
    <3>2. pool' = [pool EXCEPT ![R.pool] = new] /\ pc' = "parse"  BY <1>1, <1>2, <2>1, <3>1
    <3>3. Filled(new, p, R.line, T \cup {a})
      <4>1. KeyAt(p, a) \in Directives /\ MaySet(q, KeyAt(p, a), ValueAt(p, a))
            /\ ValueAt(p, a) # None
        BY <2>1, <2>4, <2>8
      <4>2. Filled([q EXCEPT ![KeyAt(p, a)] = SetTo(KeyAt(p, a), ValueAt(p, a))], p, R.line,
                   T \cup {a})
        BY <2>1, <2>2, <4>1, FilledMore
      <4>3. QED  BY <2>1, <4>2
    <3>4. new \in PoolType
      <4>1. k \in Strings \cup Numbers /\ v \in DOMAIN Rank
        BY <2>1, <2>4, <2>8, PlaceOf DEF Directives
      <4>2. QED  BY <2>2, <4>1, SetPoolFacts
    <3> HIDE DEF new, p, a, q, T
    <3>5. /\ Len(pool') = Len(pool)
          /\ \A i \in 1 .. Len(pool) : pool'[i] = IF i = R.pool THEN new ELSE pool[i]
      <4>1. R.pool \in 1 .. Len(pool)
        <5>1. R.pool \in Nat /\ R.pool # 0
          <6>1. Len(Ps) \in Nat  BY <1>1, PoolsFacts
          <6>2. QED  BY <2>1, <6>1
        <5>2. R.pool \in 1 .. R.pool  BY <5>1
        <5>3. QED  BY <2>2, <5>2
      <4>2. QED  BY <1>1, <3>2, <3>4, <4>1, ExceptSeq
    <3>6. pool'[R.pool] = new /\ \A i \in 1 .. R.pool - 1 : pool'[i] = pool[i]
      <4>1. Len(Ps) \in Nat  BY <1>1, PoolsFacts
      <4>2. R.pool \in Nat /\ R.pool # 0  BY <2>1, <4>1
      <4>3. R.pool \in 1 .. R.pool
            /\ \A i \in 1 .. R.pool - 1 : i \in 1 .. R.pool /\ i # R.pool
        BY <4>2
      <4>4. QED  BY <2>2, <3>5, <4>3
    <3>7. QED  BY <2>6, <3>2, <3>3, <3>5, <3>6
  <2>9. CASE Directive(Pushed) /\ ~MaySet(q, k, v)
    <3>1. Handler(pool, Pushed, data, left) = [ok |-> FALSE, pool |-> pool]
      BY <2>1, <2>3, <2>9 DEF Handler
    <3>2. pc' = "destroy"  BY <1>2, <3>1
    <3>3. KeyAt(p, a) \in Directives /\ ~MaySet(q, KeyAt(p, a), ValueAt(p, a))
      BY <2>1, <2>4, <2>9
    <3>4. Ill(p) \/ Given(p, "max_slots") # {}  BY <2>1, <2>5, <3>3, RefusedIll
    <3>5. Excuse  BY <2>1, <3>4 DEF Excuse
    <3>6. QED  BY <1>1, <3>2, <3>5, RefusedWell
  <2>10. QED  BY <2>7, <2>8, <2>9
<1>5. QED  BY <1>3, <1>4

-----------------------------------------------------------------------------
(* The comparison of the pools of a file with pools *)

LEMMA Neighbours ==
  ASSUME NEW n \in Nat, NEW i \in 1 .. n - 1
  PROVE  i \in 1 .. n /\ i + 1 \in 1 .. n /\ i # i + 1
OBVIOUS

(* Neighbours that clash are two of the pools written, wherever sorting has put
   them. *)
LEMMA ClashFound ==
  ASSUME NEW ps, NEW q, NEW o, NEW n \in Nat, Permutes(o, n), Len(q) = n,
         \A i \in 1 .. n : Means(q[i], ps[o[i]]), ListenClash(q) \/ NameClash(q)
  PROVE  \E i, j \in 1 .. n : i < j /\ Clash(ps[i], ps[j])
<1>1. PICK i \in 1 .. n - 1 : \/ q[i]["name"] = q[i + 1]["name"]
                              \/ \A f \in {"addr", "port"} : q[i][f] = q[i + 1][f]
  BY DEF ListenClash, NameClash
<1>2. i \in 1 .. n /\ i + 1 \in 1 .. n /\ i # i + 1  BY Neighbours
<1> DEFINE j == o[i]
           k == o[i + 1]
<1>3. j \in 1 .. n /\ k \in 1 .. n /\ j # k  BY <1>2 DEF Permutes
<1>4. Means(q[i], ps[j]) /\ Means(q[i + 1], ps[k])  BY <1>2
<1> HIDE DEF j, k
<1>5. {"addr", "port"} \subseteq Settings  BY DEF Settings, Strings, Numbers
<1>6. Clash(ps[j], ps[k])  BY <1>1, <1>4, <1>5 DEF Means, Clash
<1>7. Clash(ps[k], ps[j])  BY <1>6 DEF Clash
<1>8. j < k \/ k < j  BY <1>3
<1>9. QED  BY <1>3, <1>6, <1>7, <1>8

LEMMA WrittenPost ==
  ASSUME ConfInv, WrittenInv, PostValidate
  PROVE  WrittenInv'
<1>1. /\ pc = "post" /\ Types /\ pool \in Seq(PoolType) /\ DocumentCount(file) = 1
      /\ UNCHANGED call /\ arg' = arg /\ validParser' = validParser
      /\ \A i \in DOMAIN pool : pool[i] # Raw
      /\ Asked => AllRead /\ SinglesInv /\ ~validParser
  BY DEF PostValidate, ConfInv, Types, WrittenInv
<1>2. DOMAIN pool = 1 .. Len(pool) /\ Len(pool) \in Nat  BY <1>1, LenProperties
<1>3. Ready(pool)  BY <1>1, <1>2 DEF Ready
<1>4. Ps \in Seq(Wanted) /\ (Asked => Len(Ps) = Len(pool))
  BY <1>1, PoolsFacts DEF AllRead
<1>5. CASE pool = <<>>
  <2>1. pc' = "destroy"  BY <1>5 DEF PostValidate, Reject
  <2>2. ~Asked
    <3>1. SUFFICES ASSUME Asked
                   PROVE  FALSE
      OBVIOUS
    <3>2. Len(Ps) = 0  BY <1>4, <1>5, <3>1
    <3>3. Ps = <<>>  BY <1>4, <3>2, EmptySeq
    <3>4. QED  BY <3>1, <3>3 DEF Asked
  <2>3. QED  BY <1>1, <2>1, <2>2, RefusedWell
<1>6. CASE pool # <<>>
  <2> DEFINE given == Each(pool, Default)
             n == Len(pool)
  <2>1. PICK byAddr \in Sorted(given, "addr") :
           IF ListenClash(byAddr) THEN Reject(byAddr)
           ELSE \E byName \in Sorted(byAddr, "name") :
                  IF NameClash(byName) THEN Reject(byName)
                  ELSE pc' = "accepted" /\ pool' = byName
    BY <1>6 DEF PostValidate
  <2>2. /\ Ready(given) /\ Len(given) = n
        /\ \A i \in 1 .. n : given[i] = Default(pool[i])
    BY <1>2, <1>3, EachDefault DEF Each
  <2> HIDE DEF given
  <2>3. ASSUME Asked, NEW i \in 1 .. n
        PROVE  /\ Ps[i] \in Wanted /\ ~Ill(Ps[i]) /\ Means(given[i], Ps[i])
    <3>1. i \in 1 .. Len(Ps)  BY <1>4, <2>3
    <3>2. Ps[i] \in Wanted  BY <1>4, <3>1, WantedFacts
    <3>3. Complete(pool[i], Ps[i]) /\ (multilevel => Single(Ps[i]))
      BY <1>1, <2>3, <3>1 DEF AllRead, SinglesInv
    <3>4. pool[i] \in PoolType /\ pool[i] # Raw  BY <1>3, <2>3, ElementOfSeq DEF Ready
    <3>5. ~Ill(Ps[i])  BY <3>2, <3>3, CompleteSound
    <3>6. Means(Default(pool[i]), Ps[i])  BY <3>2, <3>3, <3>4, CompleteMeans
    <3>7. QED  BY <2>2, <3>2, <3>5, <3>6
  <2>4. PICK o : Permutes(o, n) /\ \A i \in 1 .. n : byAddr[i] = given[o[i]]
    BY <2>2, SortedPermutes
  <2>5. Ready(byAddr) /\ Len(byAddr) = n  BY <2>2, SortedFacts
  <2>6. Asked => \A i \in 1 .. n : Means(byAddr[i], Ps[o[i]])
    BY <2>3, <2>4 DEF Permutes
  <2>7. ASSUME NEW q, NEW r, Asked, Permutes(r, n), Len(q) = n,
               \A i \in 1 .. n : Means(q[i], Ps[r[i]]), ListenClash(q) \/ NameClash(q)
        PROVE  Excuse
    <3>1. \E i, j \in 1 .. n : i < j /\ Clash(Ps[i], Ps[j])
      <4>1. n \in Nat  BY <1>2
      <4> HIDE DEF n
      <4>2. QED  BY <2>7, <4>1, ClashFound
    <3>2. n = Len(Ps)  BY <1>4, <2>7
    <3>3. QED  BY <3>1, <3>2 DEF Excuse
  <2>8. CASE ListenClash(byAddr)
    <3>1. pc' = "destroy"  BY <2>1, <2>8 DEF Reject
    <3>2. Asked => Excuse  BY <2>4, <2>5, <2>6, <2>7, <2>8
    <3>3. QED  BY <1>1, <3>1, <3>2, RefusedWell
  <2>9. CASE ~ListenClash(byAddr)
    <3>1. PICK byName \in Sorted(byAddr, "name") :
             IF NameClash(byName) THEN Reject(byName)
             ELSE pc' = "accepted" /\ pool' = byName
      BY <2>1, <2>9
    <3>2. PICK r : Permutes(r, n) /\ \A i \in 1 .. n : byName[i] = byAddr[r[i]]
      BY <2>5, SortedPermutes
    <3> DEFINE t == [i \in 1 .. n |-> o[r[i]]]
    <3>3. Permutes(t, n)  BY <2>4, <3>2, PermutesTwice
    <3>4. Len(byName) = n  BY <2>5, SortedFacts
    <3>5. Asked => \A i \in 1 .. n : Means(byName[i], Ps[t[i]])
      BY <2>6, <3>2 DEF Permutes
    <3> HIDE DEF t
    <3>6. CASE NameClash(byName)
      <4>1. pc' = "destroy"  BY <3>1, <3>6 DEF Reject
      <4>2. Asked => Excuse  BY <2>7, <3>3, <3>4, <3>5, <3>6
      <4>3. QED  BY <1>1, <4>1, <4>2, RefusedWell
    <3>7. CASE ~NameClash(byName)
      <4>1. pc' = "accepted" /\ pool' = byName  BY <3>1, <3>7
      <4>2. ASSUME Asked
            PROVE  /\ \A p \in Range(Ps) : ~Ill(p)
                   /\ arg' = <<>> /\ ~validParser'
                   /\ Len(pool') = Len(Ps)
                   /\ \A p \in Range(Ps) : \E i \in DOMAIN pool' : Means(pool'[i], p)
        <5>1. arg' = <<>> /\ ~validParser' /\ Len(pool') = Len(Ps)
          BY <1>1, <1>4, <3>4, <4>1, <4>2 DEF AllRead
        <5>2. ASSUME NEW p \in Range(Ps)
              PROVE  ~Ill(p) /\ \E i \in DOMAIN pool' : Means(pool'[i], p)
          <6>1. DOMAIN Ps = 1 .. n  BY <1>4, <4>2, LenProperties
          <6>2. PICK j \in 1 .. n : p = Ps[j]  BY <6>1 DEF Range
          <6>3. PICK i \in 1 .. n : t[i] = j  BY <3>3 DEF Permutes
          <6>4. Means(byName[i], Ps[j])  BY <3>5, <4>2, <6>3
          <6>5. i \in DOMAIN byName
            <7>1. Ready(byName)  BY <2>5, SortedFacts
            <7>2. DOMAIN byName = 1 .. n  BY <3>4, <7>1, LenProperties DEF Ready
            <7>3. QED  BY <7>2
          <6>6. QED  BY <2>3, <4>1, <4>2, <6>2, <6>4, <6>5
        <5>3. QED  BY <5>1, <5>2
      <4>3. /\ Faithful' /\ Justified' /\ DocumentCount(file') = 1
        <5>1. \A p : Ill(p)' = Ill(p)  BY <1>1, SamePools
        <5>2. file' = file /\ Ps = file.pools  BY <1>1, SamePools DEF Ps
        <5>3. file.pools # <<>> => Asked  BY <1>1 DEF Asked, Ps
        <5>4. Faithful'  BY <4>2, <5>1, <5>2, <5>3 DEF Faithful
        <5>5. QED  BY <1>1, <4>1, <5>2, <5>4 DEF Justified
      <4>4. QED  BY <4>1, <4>3 DEF WrittenInv
    <3>8. QED  BY <3>6, <3>7
  <2>10. QED  BY <2>8, <2>9
<1>7. QED  BY <1>5, <1>6

-----------------------------------------------------------------------------
(* The theorems *)

LEMMA WrittenStarts ==
  ASSUME Init
  PROVE  WrittenInv
BY DEF Init, WrittenInv, Faithful, Justified

LEMMA WrittenKeeps ==
  ASSUME ConfInv, WrittenInv, [Next]_vars
  PROVE  WrittenInv'
<1>1. CASE ValidateDocument  BY <1>1, WrittenDocument
<1>2. CASE ValidateTokens  BY <1>2, WrittenTokens
<1>3. CASE ValidateStructure  BY <1>3, WrittenStructure
<1>4. CASE BeginParse  BY <1>4, WrittenBegin
<1>5. CASE MappingEnd  BY <1>5, WrittenMappingEnd
<1>6. CASE MappingStart  BY <1>6, WrittenMappingStart
<1>7. CASE SequenceStart  BY <1>7, WrittenSequenceStart
<1>8. CASE SequenceEnd  BY <1>8, WrittenSequenceEnd
<1>9. CASE EmptyScalar  BY <1>9, WrittenEmpty
<1>10. CASE KeyScalar  BY <1>10, WrittenKey
<1>11. CASE PoolScalar  BY <1>11, WrittenPool
<1>12. CASE LeafScalar  BY <1>12, WrittenLeaf
<1>13. CASE EndParse  BY <1>13, WrittenEnd
<1>14. CASE PostValidate  BY <1>14, WrittenPost
<1>15. CASE \/ Open \/ OpenFails \/ Fail \/ PoolScalarFails \/ LeafScalarFails
            \/ Destroy \/ Close
  BY <1>15, WrittenElsewhere
<1>16. CASE UNCHANGED vars  BY <1>16, WrittenStutters
<1>17. QED
  BY <1>1, <1>2, <1>3, <1>4, <1>5, <1>6, <1>7, <1>8, <1>9, <1>10, <1>11, <1>12, <1>13,
     <1>14, <1>15, <1>16
  DEF Next, Work

(* Whatever pools are written and however a read fails: while conf_parse works
   on them, the pools made so far are, place by place, what was read of those
   written (conf.c:341-456), one list was seen in each pool the structure check
   has passed (conf.c:722), and Faithful and Justified hold. *)
THEOREM WrittenInvariant == Spec => []WrittenInv
<1>1. Init => ConfInv /\ WrittenInv  BY ConfStarts, WrittenStarts
<1>2. ConfInv /\ WrittenInv /\ [Next]_vars => ConfInv' /\ WrittenInv'
  BY ConfKeeps, WrittenKeeps
<1>3. QED  BY <1>1, <1>2, PTL DEF Spec

(* The pools of an accepted file are those its author wrote, each with its own
   directives and the defaults of the ones left out, however qsort breaks ties;
   none is ill formed, the stack is empty and the parser given up
   (conf.c:952, 1028). *)
THEOREM FaithfulAlways == Spec => []Faithful
BY WrittenInvariant, PTL DEF WrittenInv

(* A file of the documented shape is refused only for a fault in a pool, a
   clash of two, a setting of max_slots, or what libyaml and the token check
   found (conf.c:545, 599, 722, 931, 952). *)
THEOREM JustifiedAlways == Spec => []Justified
BY WrittenInvariant, PTL DEF WrittenInv
=============================================================================
