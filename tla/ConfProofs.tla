----------------------------- MODULE ConfProofs ------------------------------
(***************************************************************************)
(* The safety of Conf, for any files whose events are nested as libyaml    *)
(* nests them: what the two passes that count mappings, sequences and      *)
(* scalars, the structure check and the parser, know of where they stand.  *)
(***************************************************************************)
EXTENDS Conf, SequenceTheorems, WellFoundedInduction, TLAPS

Nest == NestOf(file.events)
At   == Nest[pos]

-----------------------------------------------------------------------------
(* The inductive invariant *)

Checks   == [depth : 0 .. MAX_DEPTH, count : [0 .. MAX_DEPTH -> Nat], seq : BOOLEAN]
PoolType == {Raw} \cup {p \in [Fields -> Values] : p["name"] \in DOMAIN Rank}
Early    == {"open", "document", "tokens", "structure", "begin"}

Types ==
  /\ \E c \in Calls : file = c.file /\ multilevel = c.multilevel
  /\ pc \in PCs /\ pos \in 1 .. Len(file.events) + 1
  /\ check \in Checks /\ validParser \in BOOLEAN
  /\ depth \in Nat /\ (pc = "parse" => depth >= 1)
  /\ seq \in BOOLEAN /\ arg \in Seq(DOMAIN Rank \ {None})
  /\ pool \in Seq(PoolType) /\ data \in 0 .. Len(pool)
  /\ pc \in Early => depth = 0 /\ seq = FALSE /\ arg = <<>> /\ pool = <<>> /\ data = 0

(* What depth, count[] and seq of the structure check say of the collections
   open. *)
Counts(c, d, one, two, s) ==
  /\ c.depth = d /\ c.count[0] = 0 /\ c.count[1] = one
  /\ c.count[2] \in two /\ c.seq \in s
Fits(c, n) ==
  \/ n = <<>> /\ Counts(c, 0, 0, {0, 2}, {FALSE})
  \/ n = <<EvenMap>> /\ Counts(c, 1, 0, {0, 2}, {FALSE})
  \/ n = <<OddMap>> /\ Counts(c, 1, 1, {0, 2}, {FALSE})
  \/ n = <<EvenMap, EvenMap>> /\ Counts(c, 2, 1, {0, 2}, BOOLEAN)
  \/ n = <<EvenMap, OddMap>> /\ Counts(c, 2, 1, {1}, BOOLEAN)
  \/ n = <<EvenMap, EvenMap, InSeq>> /\ Counts(c, 2, 1, {1, 2}, {TRUE})

(* So far the structure check has let pass the documented shape alone. *)
StructureInv ==
  pc = "structure" => /\ multilevel /\ pos <= Len(file.events) /\ Fits(check, At)
                      /\ \A i \in 1 .. pos - 1 : InShape(Nest[i], file.events[i])

(* What depth, seq and the stack of scalars say of the collections open. *)
Named == /\ data = Len(pool) /\ data # 0 /\ pool[data]["name"] = arg[1]
Stacked(d, s, n) == depth = d /\ seq = s /\ Len(arg) = n /\ (n # 0 => Named)
Aligned ==
  \/ At = <<EvenMap>> /\ Stacked(1, FALSE, 0)
  \/ At = <<OddMap>> /\ Stacked(1, FALSE, 1)
  \/ At = <<EvenMap, EvenMap>> /\ Stacked(2, FALSE, 1)
  \/ At = <<EvenMap, OddMap>> /\ Stacked(2, FALSE, 2)
  \/ At = <<EvenMap, EvenMap, InSeq>> /\ Stacked(2, TRUE, 2)

NoRaw == \A i \in DOMAIN pool : pool[i] # Raw

PassedInv ==
  /\ pc \in {"tokens", "structure", "begin", "parse"} =>
       ~file.broken /\ DocumentCount(file) = 1
  /\ pc \in {"structure", "begin", "parse"} => ~file.banned
  /\ pc \in {"begin", "parse"} /\ multilevel => Shaped(file)

ParseInv ==
  Trusted(file, multilevel) => /\ NoRaw
                               /\ pc = "begin" => At = <<>>
                               /\ pc = "parse" => Aligned

ConfInv == Types /\ StructureInv /\ PassedInv /\ ParseInv /\ Sound

-----------------------------------------------------------------------------
(* What is open around an event, and after it *)

EventType == [type : EventTypes, value : DOMAIN Rank]

LEMMA FileFacts ==
  ASSUME Types
  PROVE  /\ file.events \in Seq(EventType) /\ Len(file.events) \in Nat /\ pos \in Nat
         /\ Nested(file.events, Nest)
<1>1. PICK c \in Calls : file = c.file  BY DEF Types
<1>2. file.events \in Seq(EventType)  BY <1>1, FilesAssumption DEF EventType
<1>3. Nested(file.events, Nest)  BY <1>1, FilesAssumption DEF Nest
<1>4. Len(file.events) \in Nat  BY <1>2
<1>5. QED  BY <1>2, <1>3, <1>4 DEF Types

LEMMA Within ==
  ASSUME Types, Event.type # "none"
  PROVE  pos <= Len(file.events)
BY DEF Event, EventAt, E

(* The event a pass is at, and what is open after it. *)
LEMMA Here ==
  ASSUME Types, pos <= Len(file.events)
  PROVE  /\ Event \in EventType /\ Event = file.events[pos]
         /\ MayFollow(At, Event) /\ Nest[pos + 1] = After(At, Event)
         /\ Event.type = "stream-" <=> pos = Len(file.events)
<1>1. pos \in DOMAIN file.events  BY FileFacts DEF Types
<1>2. Event = file.events[pos]  BY DEF Event, EventAt
<1>3. QED  BY <1>1, <1>2, FileFacts DEF Nested, At

(* Everything is closed when the stream is over. *)
LEMMA NoneOpen ==
  ASSUME Types, pos = Len(file.events) + 1, file.events # <<>>
  PROVE  At = <<>>
<1> DEFINE last == Len(file.events)
<1>1. last \in DOMAIN file.events  BY FileFacts
<1>2. /\ Nest[last + 1] = After(Nest[last], file.events[last])
      /\ MayFollow(Nest[last], file.events[last])
      /\ file.events[last].type = "stream-"
  BY <1>1, FileFacts DEF Nested
<1>3. Nest[last] = <<>>  BY <1>2 DEF MayFollow, Outer
<1>4. QED  BY <1>2, <1>3 DEF After, At

(* Every step from place to place in a file of the documented shape. *)
Turn(n, e, m) ==
  \/ n = <<>> /\ e.type \in Outer /\ m = <<>>
  \/ n = <<>> /\ e.type = "map+" /\ m = <<EvenMap>>
  \/ n = <<EvenMap>> /\ e.type = "scalar" /\ m = <<OddMap>>
  \/ n = <<EvenMap>> /\ e.type = "map-" /\ m = <<>>
  \/ n = <<OddMap>> /\ e.type = "map+" /\ m = <<EvenMap, EvenMap>>
  \/ n = <<OddMap>> /\ e.type = "scalar" /\ e.value = None /\ m = <<EvenMap>>
  \/ n = <<EvenMap, EvenMap>> /\ e.type = "scalar" /\ m = <<EvenMap, OddMap>>
  \/ n = <<EvenMap, EvenMap>> /\ e.type = "map-" /\ m = <<EvenMap>>
  \/ n = <<EvenMap, OddMap>> /\ e.type = "scalar" /\ m = <<EvenMap, EvenMap>>
  \/ n = <<EvenMap, OddMap>> /\ e.type = "seq+" /\ m = <<EvenMap, EvenMap, InSeq>>
  \/ n = <<EvenMap, EvenMap, InSeq>> /\ e.type = "scalar" /\ m = n
  \/ n = <<EvenMap, EvenMap, InSeq>> /\ e.type = "seq-" /\ m = <<EvenMap, EvenMap>>

LEMMA KindsDiffer == EvenMap # OddMap /\ EvenMap # InSeq /\ OddMap # InSeq
<1>1. EvenMap.odd # OddMap.odd  BY DEF EvenMap, OddMap
<1>2. EvenMap.kind # InSeq.kind /\ OddMap.kind # InSeq.kind  BY DEF EvenMap, OddMap, InSeq
<1>3. QED  BY <1>1, <1>2

LEMMA AppendFacts ==
  ASSUME NEW S, NEW s \in Seq(S), NEW e \in S
  PROVE  /\ Append(s, e) \in Seq(S) /\ Len(Append(s, e)) = Len(s) + 1
         /\ \A i \in 1 .. Len(s) : Append(s, e)[i] = s[i]
         /\ Append(s, e)[Len(s) + 1] = e
<1>1. Append(s, e) \in Seq(S)  OBVIOUS
<1>2. Len(Append(s, e)) = Len(s) + 1  OBVIOUS
<1>3. \A i \in 1 .. Len(s) : Append(s, e)[i] = s[i]  OBVIOUS
<1>4. Append(s, e)[Len(s) + 1] = e  OBVIOUS
<1>5. QED  BY <1>1, <1>2, <1>3, <1>4

LEMMA FrontFacts ==
  ASSUME NEW S, NEW s \in Seq(S), s # <<>>
  PROVE  /\ Front(s) \in Seq(S) /\ Len(Front(s)) = Len(s) - 1
         /\ \A i \in 1 .. Len(s) - 1 : Front(s)[i] = s[i]
<1>1. Len(s) \in Nat \ {0}  BY EmptySeq
<1>2. \A i \in 1 .. Len(s) - 1 : s[i] \in S  BY <1>1, ElementOfSeq
<1> DEFINE n == Len(s) - 1
<1>3. n \in Nat  BY <1>1
<1>4. /\ SubSeq(s, 1, n) \in Seq(S)
      /\ Len(SubSeq(s, 1, n)) = IF 1 <= n THEN n - 1 + 1 ELSE 0
      /\ \A i \in 1 .. n - 1 + 1 : SubSeq(s, 1, n)[i] = s[1 + i - 1]
  <2> HIDE DEF n
  <2>1. \A i \in 1 .. n : s[i] \in S  BY <1>2 DEF n
  <2>2. n \in Int /\ 1 \in Int  BY <1>3
  <2>3. QED  BY <2>1, <2>2, SubSeqProperties
<1>5. Len(SubSeq(s, 1, n)) = n /\ \A i \in 1 .. n : SubSeq(s, 1, n)[i] = s[i]
  <2> HIDE DEF n
  <2>1. QED  BY <1>3, <1>4
<1>6. QED  BY <1>4, <1>5, Zenon DEF Front

(* The last of a short sequence, and the rest. *)
LEMMA ShortEnds ==
  ASSUME NEW a, NEW b, NEW c
  PROVE  /\ Last(<<a>>) = a /\ Front(<<a>>) = <<>>
         /\ Last(<<a, b>>) = b /\ Front(<<a, b>>) = <<a>>
         /\ Last(<<a, b, c>>) = c /\ Front(<<a, b, c>>) = <<a, b>>
         /\ Append(<<>>, a) = <<a>> /\ Append(<<a>>, b) = <<a, b>>
         /\ Append(<<a, b>>, c) = <<a, b, c>>
         /\ <<a>> # <<>> /\ <<a, b>> # <<>> /\ <<a, b, c>> # <<>>
<1>1. Last(<<a>>) = a /\ Last(<<a, b>>) = b /\ Last(<<a, b, c>>) = c  BY DEF Last
<1>2. Front(<<a>>) = <<>>  BY DEF Front
<1> DEFINE S == {a, b, c}
<1>3. Front(<<a, b>>) = <<a>>
  <2> DEFINE s == <<a, b>>
             t == Front(s)
  <2>1. s \in Seq(S) /\ s # <<>> /\ Len(s) = 2 /\ s[1] = a  OBVIOUS
  <2>2. t \in Seq(S) /\ Len(t) = 1 /\ t[1] = a
    <3> HIDE DEF s, S
    <3>1. /\ Front(s) \in Seq(S) /\ Len(Front(s)) = Len(s) - 1
          /\ \A i \in 1 .. Len(s) - 1 : Front(s)[i] = s[i]
      BY <2>1, FrontFacts
    <3>2. QED  BY <2>1, <3>1
  <2>3. <<a>> \in Seq(S) /\ Len(<<a>>) = 1 /\ <<a>>[1] = a  OBVIOUS
  <2>4. \A i \in 1 .. Len(t) : t[i] = <<a>>[i]  BY <2>2, <2>3
  <2> HIDE DEF t, S
  <2>5. QED  BY <2>2, <2>3, <2>4, SeqEqual DEF t
<1>4. Front(<<a, b, c>>) = <<a, b>>
  <2> DEFINE s == <<a, b, c>>
             t == Front(s)
  <2>1. s \in Seq(S) /\ s # <<>> /\ Len(s) = 3 /\ s[1] = a /\ s[2] = b  OBVIOUS
  <2>2. t \in Seq(S) /\ Len(t) = 2 /\ t[1] = a /\ t[2] = b
    <3> HIDE DEF s, S
    <3>1. /\ Front(s) \in Seq(S) /\ Len(Front(s)) = Len(s) - 1
          /\ \A i \in 1 .. Len(s) - 1 : Front(s)[i] = s[i]
      BY <2>1, FrontFacts
    <3>2. QED  BY <2>1, <3>1
  <2>3. <<a, b>> \in Seq(S) /\ Len(<<a, b>>) = 2 /\ <<a, b>>[1] = a /\ <<a, b>>[2] = b
    OBVIOUS
  <2>4. \A i \in 1 .. Len(t) : t[i] = <<a, b>>[i]  BY <2>2, <2>3
  <2> HIDE DEF t, S
  <2>5. QED  BY <2>2, <2>3, <2>4, SeqEqual DEF t
<1>5. /\ Append(<<>>, a) = <<a>> /\ Append(<<a>>, b) = <<a, b>>
      /\ Append(<<a, b>>, c) = <<a, b, c>>
  <2>1. Append(<<>>, a) = <<a>>  OBVIOUS
  <2>2. Append(<<a>>, b) = <<a, b>>
    <3> DEFINE s == <<a>>
               t == Append(s, b)
    <3>1. s \in Seq(S) /\ b \in S /\ Len(s) = 1 /\ s[1] = a  OBVIOUS
    <3>2. t \in Seq(S) /\ Len(t) = 2 /\ t[1] = a /\ t[2] = b
      <4> HIDE DEF s, S
      <4>1. /\ Append(s, b) \in Seq(S) /\ Len(Append(s, b)) = Len(s) + 1
            /\ \A i \in 1 .. Len(s) : Append(s, b)[i] = s[i]
            /\ Append(s, b)[Len(s) + 1] = b
        BY <3>1, AppendFacts, Zenon
      <4>2. QED  BY <3>1, <4>1
    <3>3. <<a, b>> \in Seq(S) /\ Len(<<a, b>>) = 2 /\ <<a, b>>[1] = a /\ <<a, b>>[2] = b
      OBVIOUS
    <3>4. \A i \in 1 .. Len(t) : t[i] = <<a, b>>[i]  BY <3>2, <3>3
    <3> HIDE DEF t, S
    <3>5. QED  BY <3>2, <3>3, <3>4, SeqEqual DEF t
  <2>3. Append(<<a, b>>, c) = <<a, b, c>>
    <3> DEFINE s == <<a, b>>
               t == Append(s, c)
    <3>1. s \in Seq(S) /\ c \in S /\ Len(s) = 2 /\ s[1] = a /\ s[2] = b  OBVIOUS
    <3>2. t \in Seq(S) /\ Len(t) = 3 /\ t[1] = a /\ t[2] = b /\ t[3] = c
      <4> HIDE DEF s, S
      <4>1. /\ Append(s, c) \in Seq(S) /\ Len(Append(s, c)) = Len(s) + 1
            /\ \A i \in 1 .. Len(s) : Append(s, c)[i] = s[i]
            /\ Append(s, c)[Len(s) + 1] = c
        BY <3>1, AppendFacts, Zenon
      <4>2. QED  BY <3>1, <4>1
    <3>3. /\ <<a, b, c>> \in Seq(S) /\ Len(<<a, b, c>>) = 3
          /\ <<a, b, c>>[1] = a /\ <<a, b, c>>[2] = b /\ <<a, b, c>>[3] = c
      OBVIOUS
    <3>4. \A i \in 1 .. Len(t) : t[i] = <<a, b, c>>[i]  BY <3>2, <3>3
    <3> HIDE DEF t, S
    <3>5. QED  BY <3>2, <3>3, <3>4, SeqEqual DEF t
  <2>4. QED  BY <2>1, <2>2, <2>3
<1>6. <<a>> # <<>> /\ <<a, b>> # <<>> /\ <<a, b, c>> # <<>>  OBVIOUS
<1>7. QED  BY <1>1, <1>2, <1>3, <1>4, <1>5, <1>6

LEMMA CountedEnds ==
  ASSUME NEW n, n # <<>>
  PROVE  /\ Last(n) = EvenMap => Counted(n) = Append(Front(n), OddMap)
         /\ Last(n) = OddMap => Counted(n) = Append(Front(n), EvenMap)
         /\ Last(n) = InSeq => Counted(n) = n
<1>1. Last(n) = EvenMap => Counted(n) = Append(Front(n), OddMap)  BY Zenon DEF Counted
<1>2. Last(n) = OddMap => Counted(n) = Append(Front(n), EvenMap)
  BY KindsDiffer, Zenon DEF Counted
<1>3. Last(n) = InSeq => Counted(n) = n  BY KindsDiffer, Zenon DEF Counted
<1>4. QED  BY <1>1, <1>2, <1>3

LEMMA CountedShort ==
  /\ Counted(<<>>) = <<>> /\ Counted(<<EvenMap>>) = <<OddMap>>
  /\ Counted(<<OddMap>>) = <<EvenMap>>
  /\ Counted(<<EvenMap, EvenMap>>) = <<EvenMap, OddMap>>
  /\ Counted(<<EvenMap, OddMap>>) = <<EvenMap, EvenMap>>
  /\ Counted(<<EvenMap, EvenMap, InSeq>>) = <<EvenMap, EvenMap, InSeq>>
<1>1. Counted(<<>>) = <<>>  BY DEF Counted
<1>2. ASSUME NEW a
      PROVE  /\ a = EvenMap => Counted(<<a>>) = <<OddMap>>
             /\ a = OddMap => Counted(<<a>>) = <<EvenMap>>
  <2>1. <<a>> # <<>> /\ Last(<<a>>) = a /\ Front(<<a>>) = <<>>  BY ShortEnds
  <2>2. Append(<<>>, OddMap) = <<OddMap>> /\ Append(<<>>, EvenMap) = <<EvenMap>>
    BY ShortEnds
  <2>3. QED  BY <2>1, <2>2, CountedEnds
<1>3. ASSUME NEW a, NEW b
      PROVE  /\ b = EvenMap => Counted(<<a, b>>) = <<a, OddMap>>
             /\ b = OddMap => Counted(<<a, b>>) = <<a, EvenMap>>
  <2>1. <<a, b>> # <<>> /\ Last(<<a, b>>) = b /\ Front(<<a, b>>) = <<a>>  BY ShortEnds
  <2>2. Append(<<a>>, OddMap) = <<a, OddMap>> /\ Append(<<a>>, EvenMap) = <<a, EvenMap>>
    BY ShortEnds
  <2>3. QED  BY <2>1, <2>2, CountedEnds
<1>4. ASSUME NEW a, NEW b, NEW c
      PROVE  c = InSeq => Counted(<<a, b, c>>) = <<a, b, c>>
  <2>1. Last(<<a, b, c>>) = c  BY DEF Last
  <2>2. <<a, b, c>> # <<>>  OBVIOUS
  <2>3. QED  BY <2>1, <2>2, CountedEnds
<1>5. QED  BY <1>1, <1>2, <1>3, <1>4

(* The six places of the documented shape are six. *)
LEMMA ShapesDiffer ==
  ASSUME NEW n
  PROVE  /\ n = <<>> => n \notin {<<EvenMap>>, <<OddMap>>, <<EvenMap, EvenMap>>,
                                  <<EvenMap, OddMap>>, <<EvenMap, EvenMap, InSeq>>}
         /\ n = <<EvenMap>> => n \notin {<<OddMap>>, <<EvenMap, EvenMap>>,
                                  <<EvenMap, OddMap>>, <<EvenMap, EvenMap, InSeq>>}
         /\ n = <<OddMap>> => n \notin {<<EvenMap, EvenMap>>, <<EvenMap, OddMap>>,
                                  <<EvenMap, EvenMap, InSeq>>}
         /\ n = <<EvenMap, EvenMap>> => n \notin {<<EvenMap, OddMap>>,
                                  <<EvenMap, EvenMap, InSeq>>}
         /\ n = <<EvenMap, OddMap>> => n # <<EvenMap, EvenMap, InSeq>>
<1>1. \A a, b, c : <<a>> # <<b, c>>  OBVIOUS
<1>2. \A a, b, c, d : <<a>> # <<b, c, d>>  OBVIOUS
<1>3. \A a, b, c, d, f : <<a, b>> # <<c, d, f>>  OBVIOUS
<1>4. \A a : <<a>> # <<>>  OBVIOUS
<1>5. \A a, b : <<a, b>> # <<>>  OBVIOUS
<1>6. \A a, b, c : <<a, b, c>> # <<>>  OBVIOUS
<1>7. \A a, b : <<a>> = <<b>> => a = b  OBVIOUS
<1>8. \A a, b, c : <<a, b>> = <<a, c>> => b = c  OBVIOUS
<1>9. QED  BY <1>1, <1>2, <1>3, <1>4, <1>5, <1>6, <1>7, <1>8, KindsDiffer, Zenon

LEMMA Turns ==
  ASSUME NEW n, NEW e, InShape(n, e), MayFollow(n, e)
  PROVE  Turn(n, e, After(n, e))
<1>1. CASE n = <<>> /\ e.type \in Outer \cup {"map+"}
  BY <1>1, CountedShort, ShortEnds DEF After, Turn, Outer
<1>2. CASE n = <<EvenMap>> /\ e.type \in {"scalar", "map-"}
  BY <1>2, CountedShort, ShortEnds DEF After, Turn
<1>3. CASE n = <<OddMap>> /\ (e.type = "map+" \/ e = Scalar(""))
  <2>1. CASE e.type = "map+"
    <3>1. After(n, e) = Append(Counted(n), EvenMap)  BY <2>1 DEF After
    <3>2. After(n, e) = Append(<<EvenMap>>, EvenMap)  BY <1>3, <3>1, CountedShort
    <3>3. After(n, e) = <<EvenMap, EvenMap>>  BY <3>2, ShortEnds
    <3>4. QED  BY <1>3, <2>1, <3>3 DEF Turn
  <2>2. CASE e = Scalar("")
    <3>1. e.type = "scalar" /\ e.value = None  BY <2>2 DEF Scalar, None
    <3>2. QED  BY <1>3, <3>1, CountedShort DEF After, Turn
  <2>3. QED  BY <1>3, <2>1, <2>2
<1>4. CASE n = <<EvenMap, EvenMap>> /\ e.type \in {"scalar", "map-"}
  BY <1>4, CountedShort, ShortEnds DEF After, Turn
<1>5. CASE n = <<EvenMap, OddMap>> /\ e.type \in {"scalar", "seq+"}
  BY <1>5, CountedShort, ShortEnds DEF After, Turn
<1>6. CASE n = <<EvenMap, EvenMap, InSeq>> /\ e.type \in {"scalar", "seq-"}
  BY <1>6, CountedShort, ShortEnds DEF After, Turn
<1>7. QED  BY <1>1, <1>2, <1>3, <1>4, <1>5, <1>6 DEF InShape

-----------------------------------------------------------------------------
(* The structure check *)

(* The check only lets pass what stands where the documented shape has it. *)
LEMMA PassedInShape ==
  ASSUME NEW n, NEW e \in EventType, check \in Checks, Fits(check, n),
         MayFollow(n, e), ~Misplaced(e)
  PROVE  InShape(n, e)
<1> USE DEF MAX_DEPTH, ROOT_DEPTH
<1>1. /\ ~MappingMisplaced(e) /\ ~PoolWithoutList(e)
      /\ ~SequenceMisplaced(e) /\ ~ScalarMisplaced(e)
  BY DEF Misplaced
<1>2. e.type \in EventTypes  BY DEF EventType
<1>3. CASE n = <<>> /\ Counts(check, 0, 0, {0, 2}, {FALSE})
  <2>1. e.type \notin {"scalar", "seq+", "map-", "seq-"}
    BY <1>1, <1>3 DEF Counts, ScalarMisplaced, SequenceMisplaced, MayFollow
  <2>2. QED  BY <1>2, <1>3, <2>1 DEF EventTypes, InShape
<1>4. CASE n = <<EvenMap>> /\ Counts(check, 1, 0, {0, 2}, {FALSE})
  <2>1. n # <<>> /\ Last(n) = EvenMap  BY <1>4, ShortEnds
  <2>2. e.type \notin Outer \cup {"seq-"}  BY <2>1, KindsDiffer DEF MayFollow
  <2>3. e.type \notin Outer \cup {"map+", "seq+", "seq-"}
    BY <1>1, <1>4, <2>2 DEF Counts, MappingMisplaced, SequenceMisplaced
  <2>4. QED  BY <1>2, <1>4, <2>3 DEF EventTypes, InShape
<1>5. CASE n = <<OddMap>> /\ Counts(check, 1, 1, {0, 2}, {FALSE})
  <2>1. n # <<>> /\ Last(n) = OddMap  BY <1>5, ShortEnds
  <2>2. e.type \notin Outer \cup {"map-", "seq-"}  BY <2>1, KindsDiffer DEF MayFollow
  <2>3. e.type \notin Outer \cup {"scalar", "map-", "seq+", "seq-"}
    BY <1>1, <1>5, <2>2 DEF Counts, ScalarMisplaced, SequenceMisplaced
  <2>4. QED  BY <1>2, <1>5, <2>3 DEF EventTypes, InShape
<1>6. CASE n = <<EvenMap, EvenMap>> /\ Counts(check, 2, 1, {0, 2}, BOOLEAN)
  <2>1. n # <<>> /\ Last(n) = EvenMap  BY <1>6, ShortEnds
  <2>2. e.type \notin Outer \cup {"seq-"}  BY <2>1, KindsDiffer DEF MayFollow
  <2>3. e.type \notin Outer \cup {"map+", "seq+", "seq-"}
    BY <1>1, <1>6, <2>2 DEF Counts, MappingMisplaced, SequenceMisplaced
  <2>4. QED  BY <1>2, <1>6, <2>3 DEF EventTypes, InShape
<1>7. CASE n = <<EvenMap, OddMap>> /\ Counts(check, 2, 1, {1}, BOOLEAN)
  <2>1. n # <<>> /\ Last(n) = OddMap  BY <1>7, ShortEnds
  <2>2. e.type \notin Outer \cup {"map-", "seq-"}  BY <2>1, KindsDiffer DEF MayFollow
  <2>3. e.type \notin Outer \cup {"map+", "map-", "seq-"}
    BY <1>1, <1>7, <2>2 DEF Counts, MappingMisplaced
  <2>4. QED  BY <1>2, <1>7, <2>3 DEF EventTypes, InShape
<1>8. CASE n = <<EvenMap, EvenMap, InSeq>> /\ Counts(check, 2, 1, {1, 2}, {TRUE})
  <2> DEFINE listed == <<EvenMap, EvenMap, InSeq>>
  <2>0. listed # <<>> /\ Last(listed) = InSeq  BY DEF Last
  <2>1. n # <<>> /\ Last(n) = InSeq  BY <1>8, <2>0, Zenon
  <2>2. e.type \notin Outer \cup {"map-"}  BY <2>1, KindsDiffer DEF MayFollow
  <2>3. e.type \notin Outer \cup {"map+", "map-", "seq+"}
    <3>1. check.depth = 2 /\ check.seq = TRUE  BY <1>8 DEF Counts
    <3>2. e.type # "map+"  BY <1>1, <3>1 DEF MappingMisplaced
    <3>3. e.type # "seq+"  BY <1>1, <3>1 DEF SequenceMisplaced
    <3>4. QED  BY <2>2, <3>2, <3>3
  <2>4. QED  BY <1>2, <1>8, <2>3 DEF EventTypes, InShape
<1>9. QED  BY <1>3, <1>4, <1>5, <1>6, <1>7, <1>8 DEF Fits

(* What the counters are after each kind of event. *)
LEMMA CheckedFacts ==
  ASSUME NEW e, check \in Checks
  PROVE  /\ e.type = "map+" =>
              Checked(e) = [depth |-> check.depth + 1, count |-> check.count, seq |-> check.seq]
         /\ e.type = "map-" =>
              Checked(e) = [depth |-> check.depth - 1,
                            count |-> [check.count EXCEPT ![check.depth - 1] = 0],
                            seq |-> check.seq /\ check.depth # MAX_DEPTH]
         /\ e.type = "seq+" =>
              Checked(e) = [depth |-> check.depth, count |-> check.count, seq |-> TRUE]
         /\ e.type = "seq-" =>
              Checked(e) = [depth |-> check.depth, seq |-> check.seq,
                            count |-> [check.count EXCEPT ![check.depth] = 0]]
         /\ e.type = "scalar" =>
              Checked(e) = [depth |-> check.depth, seq |-> check.seq,
                            count |-> [check.count EXCEPT ![check.depth] =
                              IF check.depth = MAX_DEPTH /\ @ = 2 THEN 1 ELSE @ + 1]]
         /\ e.type \in Outer => Checked(e) = check
<1>1. CASE e.type = "map+"  BY <1>1 DEF Checked, Outer, Checks
<1>2. CASE e.type = "map-"  BY <1>2 DEF Checked, Outer, Checks
<1>3. CASE e.type = "seq+"  BY <1>3 DEF Checked, Outer, Checks
<1>4. CASE e.type = "seq-"  BY <1>4 DEF Checked, Outer, Checks
<1>5. CASE e.type = "scalar"  BY <1>5 DEF Checked, Outer, Checks
<1>6. CASE e.type \in Outer  BY <1>6 DEF Checked, Outer
<1>7. QED  BY <1>1, <1>2, <1>3, <1>4, <1>5, <1>6

LEMMA Tally ==
  ASSUME NEW d \in 0 .. 2, NEW f \in [0 .. 2 -> Nat], NEW s \in BOOLEAN,
         NEW one, NEW two, f[0] = 0, f[1] = one, f[2] \in two
  PROVE  /\ [depth |-> d, count |-> f, seq |-> s] \in Checks
         /\ Counts([depth |-> d, count |-> f, seq |-> s], d, one, two, {s})
<1>1. [depth |-> d, count |-> f, seq |-> s] \in Checks  BY DEF Checks, MAX_DEPTH
<1> DEFINE c == [depth |-> d, count |-> f, seq |-> s]
<1>2. c.depth = d /\ c.count = f /\ c.seq = s  OBVIOUS
<1> HIDE DEF c
<1>3. c.seq \in {s}  BY <1>2, Zenon
<1>4. Counts(c, d, one, two, {s})  BY <1>2, <1>3 DEF Counts
<1>5. QED  BY <1>1, <1>4 DEF c

(* A seat for every node: with each event the counters go where the nesting
   goes. *)
LEMMA CheckedFits ==
  ASSUME NEW n, NEW e, NEW m, check \in Checks, Fits(check, n), Turn(n, e, m),
         ~Misplaced(e)
  PROVE  Checked(e) \in Checks /\ Fits(Checked(e), m)
<1> USE DEF MAX_DEPTH
<1>1. /\ check.depth \in 0 .. 2 /\ check.seq \in BOOLEAN
      /\ check.count \in [0 .. 2 -> Nat]
  BY DEF Checks
<1>2. ASSUME NEW t
      PROVE  Fits(check, t) =>
               /\ t = <<>> => Counts(check, 0, 0, {0, 2}, {FALSE})
               /\ t = <<EvenMap>> => Counts(check, 1, 0, {0, 2}, {FALSE})
               /\ t = <<OddMap>> => Counts(check, 1, 1, {0, 2}, {FALSE})
               /\ t = <<EvenMap, EvenMap>> => Counts(check, 2, 1, {0, 2}, BOOLEAN)
               /\ t = <<EvenMap, OddMap>> => Counts(check, 2, 1, {1}, BOOLEAN)
               /\ t = <<EvenMap, EvenMap, InSeq>> => Counts(check, 2, 1, {1, 2}, {TRUE})
  BY ShapesDiffer DEF Fits
<1>3. CASE n = <<>> /\ e.type = "map+" /\ m = <<EvenMap>>
  <2>1. Counts(check, 0, 0, {0, 2}, {FALSE})  BY <1>3, <1>2
  <2> DEFINE count == check.count
  <2>2. /\ count \in [0 .. 2 -> Nat] /\ count[0] = 0 /\ count[1] = 0
        /\ count[2] \in {0, 2}
    BY <1>1, <2>1 DEF Counts
  <2>3. Checked(e) = [depth |-> 1, count |-> count, seq |-> FALSE]
    <3>1. check.seq = FALSE /\ check.depth = 0  BY <2>1, Zenon DEF Counts
    <3>2. Checked(e) = [depth |-> 1, count |-> count, seq |-> check.seq]
      BY <1>3, <1>1, <2>1, <3>1, CheckedFacts DEF Counts
    <3>3. QED  BY <3>1, <3>2, Zenon
  <2> HIDE DEF count
  <2>4. 1 \in 0 .. 2 /\ FALSE \in BOOLEAN  OBVIOUS
  <2> DEFINE new == [depth |-> 1, count |-> count, seq |-> FALSE]
  <2>5. new \in Checks /\ Counts(new, 1, 0, {0, 2}, {FALSE})  BY <2>2, <2>4, Tally, Zenon
  <2>6. QED  BY <1>3, <2>3, <2>5 DEF Fits
<1>4. CASE n = <<EvenMap>> /\ e.type = "scalar" /\ m = <<OddMap>>
  <2>1. Counts(check, 1, 0, {0, 2}, {FALSE})  BY <1>4, <1>2
  <2> DEFINE count == [check.count EXCEPT ![1] = 1]
  <2>2. /\ count \in [0 .. 2 -> Nat] /\ count[0] = 0 /\ count[1] = 1
        /\ count[2] \in {0, 2}
    BY <1>1, <2>1 DEF Counts
  <2>3. Checked(e) = [depth |-> 1, count |-> count, seq |-> FALSE]
    <3>1. check.seq = FALSE /\ check.depth = 1  BY <2>1, Zenon DEF Counts
    <3>2. Checked(e) = [depth |-> 1, count |-> count, seq |-> check.seq]
      BY <1>4, <1>1, <2>1, <3>1, CheckedFacts DEF Counts
    <3>3. QED  BY <3>1, <3>2, Zenon
  <2> HIDE DEF count
  <2>4. 1 \in 0 .. 2 /\ FALSE \in BOOLEAN  OBVIOUS
  <2> DEFINE new == [depth |-> 1, count |-> count, seq |-> FALSE]
  <2>5. new \in Checks /\ Counts(new, 1, 1, {0, 2}, {FALSE})  BY <2>2, <2>4, Tally, Zenon
  <2>6. QED  BY <1>4, <2>3, <2>5 DEF Fits
<1>5. CASE n = <<EvenMap>> /\ e.type = "map-" /\ m = <<>>
  <2>1. Counts(check, 1, 0, {0, 2}, {FALSE})  BY <1>5, <1>2
  <2> DEFINE count == [check.count EXCEPT ![0] = 0]
  <2>2. /\ count \in [0 .. 2 -> Nat] /\ count[0] = 0 /\ count[1] = 0
        /\ count[2] \in {0, 2}
    BY <1>1, <2>1 DEF Counts
  <2>3. Checked(e) = [depth |-> 0, count |-> count, seq |-> FALSE]
    <3>1. check.seq = FALSE /\ check.depth = 1  BY <2>1, Zenon DEF Counts
    <3>2. Checked(e) = [depth |-> 0, count |-> count, seq |-> check.seq]
      BY <1>5, <1>1, <2>1, <3>1, CheckedFacts DEF Counts
    <3>3. QED  BY <3>1, <3>2, Zenon
  <2> HIDE DEF count
  <2>4. 0 \in 0 .. 2 /\ FALSE \in BOOLEAN  OBVIOUS
  <2> DEFINE new == [depth |-> 0, count |-> count, seq |-> FALSE]
  <2>5. new \in Checks /\ Counts(new, 0, 0, {0, 2}, {FALSE})  BY <2>2, <2>4, Tally, Zenon
  <2>6. QED  BY <1>5, <2>3, <2>5 DEF Fits
<1>6. CASE n = <<OddMap>> /\ e.type = "map+" /\ m = <<EvenMap, EvenMap>>
  <2>1. Counts(check, 1, 1, {0, 2}, {FALSE})  BY <1>6, <1>2
  <2>2. Checked(e) \in Checks /\ Counts(Checked(e), 2, 1, {0, 2}, BOOLEAN)
    BY <1>6, <1>1, <2>1, CheckedFacts DEF Counts, Checks
  <2>3. QED  BY <1>6, <2>2 DEF Fits
<1>7. CASE n = <<EvenMap, EvenMap>> /\ e.type = "scalar" /\ m = <<EvenMap, OddMap>>
  <2>1. Counts(check, 2, 1, {0, 2}, BOOLEAN)  BY <1>7, <1>2
  <2>2. Checked(e) \in Checks /\ Counts(Checked(e), 2, 1, {1}, BOOLEAN)
    BY <1>7, <1>1, <2>1, CheckedFacts DEF Counts, Checks
  <2>3. QED  BY <1>7, <2>2 DEF Fits
<1>8. CASE n = <<EvenMap, EvenMap>> /\ e.type = "map-" /\ m = <<EvenMap>>
  <2>1. Counts(check, 2, 1, {0, 2}, BOOLEAN)  BY <1>8, <1>2
  <2> DEFINE count == [check.count EXCEPT ![1] = 0]
  <2>2. /\ count \in [0 .. 2 -> Nat] /\ count[0] = 0 /\ count[1] = 0
        /\ count[2] \in {0, 2}
    BY <1>1, <2>1 DEF Counts
  <2>3. Checked(e) = [depth |-> 1, count |-> count, seq |-> FALSE]
    <3>1. (check.seq /\ check.depth # MAX_DEPTH) = FALSE  BY <2>1 DEF Counts
    <3>2. Checked(e) = [depth |-> 1, count |-> count,
                        seq |-> check.seq /\ check.depth # MAX_DEPTH]
      BY <1>8, <1>1, <2>1, CheckedFacts DEF Counts
    <3>3. QED  BY <3>1, <3>2, Zenon
  <2> HIDE DEF count
  <2>4. 1 \in 0 .. 2 /\ FALSE \in BOOLEAN  OBVIOUS
  <2> DEFINE new == [depth |-> 1, count |-> count, seq |-> FALSE]
  <2>5. new \in Checks /\ Counts(new, 1, 0, {0, 2}, {FALSE})  BY <2>2, <2>4, Tally, Zenon
  <2>6. QED  BY <1>8, <2>3, <2>5 DEF Fits
<1>9. CASE n = <<EvenMap, OddMap>> /\ e.type = "scalar" /\ m = <<EvenMap, EvenMap>>
  <2>1. Counts(check, 2, 1, {1}, BOOLEAN)  BY <1>9, <1>2
  <2>2. Checked(e) \in Checks /\ Counts(Checked(e), 2, 1, {0, 2}, BOOLEAN)
    BY <1>9, <1>1, <2>1, CheckedFacts DEF Counts, Checks
  <2>3. QED  BY <1>9, <2>2 DEF Fits
<1>10. CASE n = <<EvenMap, OddMap>> /\ e.type = "seq+" /\ m = <<EvenMap, EvenMap, InSeq>>
  <2>1. Counts(check, 2, 1, {1}, BOOLEAN)  BY <1>10, <1>2
  <2> DEFINE count == check.count
  <2>2. /\ count \in [0 .. 2 -> Nat] /\ count[0] = 0 /\ count[1] = 1
        /\ count[2] \in {1, 2}
    BY <1>1, <2>1 DEF Counts
  <2>3. Checked(e) = [depth |-> 2, count |-> count, seq |-> TRUE]
    BY <1>10, <2>1, CheckedFacts DEF Counts
  <2> HIDE DEF count
  <2>4. 2 \in 0 .. 2 /\ TRUE \in BOOLEAN  OBVIOUS
  <2> DEFINE new == [depth |-> 2, count |-> count, seq |-> TRUE]
  <2>5. new \in Checks /\ Counts(new, 2, 1, {1, 2}, {TRUE})  BY <2>2, <2>4, Tally, Zenon
  <2>6. QED  BY <1>10, <2>3, <2>5 DEF Fits
<1>11. CASE n = <<EvenMap, EvenMap, InSeq>> /\ e.type = "scalar" /\ m = <<EvenMap, EvenMap, InSeq>>
  <2>1. Counts(check, 2, 1, {1, 2}, {TRUE})  BY <1>11, <1>2
  <2> DEFINE count == [check.count EXCEPT ![2] = IF @ = 2 THEN 1 ELSE 2]
  <2>2. /\ count \in [0 .. 2 -> Nat] /\ count[0] = 0 /\ count[1] = 1
        /\ count[2] \in {1, 2}
    BY <1>1, <2>1 DEF Counts
  <2>3. Checked(e) = [depth |-> 2, count |-> count, seq |-> TRUE]
    <3>1. check.seq = TRUE /\ check.depth = 2  BY <2>1, Zenon DEF Counts
    <3>2. Checked(e) = [depth |-> 2, count |-> count, seq |-> check.seq]
      BY <1>11, <1>1, <2>1, <3>1, CheckedFacts DEF Counts
    <3>3. QED  BY <3>1, <3>2, Zenon
  <2> HIDE DEF count
  <2>4. 2 \in 0 .. 2 /\ TRUE \in BOOLEAN  OBVIOUS
  <2> DEFINE new == [depth |-> 2, count |-> count, seq |-> TRUE]
  <2>5. new \in Checks /\ Counts(new, 2, 1, {1, 2}, {TRUE})  BY <2>2, <2>4, Tally, Zenon
  <2>6. QED  BY <1>11, <2>3, <2>5 DEF Fits
<1>12. CASE n = <<EvenMap, EvenMap, InSeq>> /\ e.type = "seq-" /\ m = <<EvenMap, EvenMap>>
  <2>1. Counts(check, 2, 1, {1, 2}, {TRUE})  BY <1>12, <1>2
  <2>2. Checked(e) \in Checks /\ Counts(Checked(e), 2, 1, {0, 2}, BOOLEAN)
    BY <1>12, <1>1, <2>1, CheckedFacts DEF Counts, Checks
  <2>3. QED  BY <1>12, <2>2 DEF Fits
<1>13. CASE n = <<>> /\ e.type \in Outer /\ m = <<>>
  BY <1>13, CheckedFacts
<1>14. CASE n = <<OddMap>> /\ e.type = "scalar" /\ e.value = None /\ m = <<EvenMap>>
  BY <1>14, <1>2 DEF Counts, Misplaced, ScalarMisplaced, ROOT_DEPTH
<1>15. QED
  BY <1>3, <1>4, <1>5, <1>6, <1>7, <1>8, <1>9, <1>10, <1>11, <1>12, <1>13, <1>14 DEF Turn

-----------------------------------------------------------------------------
(* From pass to pass *)

LEMMA Undisturbed ==
  ASSUME UNCHANGED call
  PROVE  /\ file' = file /\ multilevel' = multilevel /\ Nest' = Nest
         /\ Trusted(file, multilevel)' = Trusted(file, multilevel)
         /\ DocumentCount(file') = DocumentCount(file) /\ Shaped(file') = Shaped(file)
BY DEF call, Nest, Trusted

LEMMA Stuttering ==
  ASSUME ConfInv, UNCHANGED vars
  PROVE  ConfInv'
<1>1. /\ UNCHANGED call /\ pc' = pc /\ pos' = pos /\ check' = check /\ depth' = depth
      /\ seq' = seq /\ arg' = arg /\ pool' = pool /\ data' = data
      /\ validParser' = validParser
  BY DEF vars, parsing
<1>2. At' = At  BY <1>1, Undisturbed DEF At
<1>3. Types'  BY <1>1, Undisturbed DEF ConfInv, Types
<1>4. StructureInv'  BY <1>1, <1>2, Undisturbed DEF ConfInv, StructureInv
<1>5. PassedInv'  BY <1>1, Undisturbed DEF ConfInv, PassedInv
<1>6. ParseInv'
  BY <1>1, <1>2, Undisturbed DEF ConfInv, ParseInv, NoRaw, Aligned, Stacked, Named
<1>7. Sound'  BY <1>1 DEF ConfInv, Sound
<1>8. QED  BY <1>3, <1>4, <1>5, <1>6, <1>7 DEF ConfInv

LEMMA BooleanMode ==
  ASSUME Types
  PROVE  multilevel \in BOOLEAN
BY ModeAssumption DEF Types

(* What a step that ends the passes has to leave behind. *)
LEMMA OverKeeps ==
  ASSUME ConfInv, pc' \in PCs \ (Early \cup {"parse"}),
         UNCHANGED call, pos' = pos, check' = check, depth' = depth, seq' = seq,
         validParser' \in BOOLEAN, arg' \in Seq(DOMAIN Rank \ {None}),
         pool' \in Seq(PoolType), data' \in 0 .. Len(pool'), NoRaw => NoRaw', Sound'
  PROVE  ConfInv'
<1>1. Types'
  <2>1. (\E c \in Calls : file = c.file /\ multilevel = c.multilevel)'
    BY Undisturbed DEF ConfInv, Types
  <2>2. QED  BY <2>1, Undisturbed DEF ConfInv, Types
<1>2. pc' \notin {"tokens", "structure", "begin", "parse"}  BY DEF Early
<1>3. StructureInv' /\ PassedInv'  BY <1>2 DEF StructureInv, PassedInv
<1>4. ParseInv'  BY <1>2, Undisturbed DEF ConfInv, ParseInv
<1>5. QED  BY <1>1, <1>3, <1>4 DEF ConfInv

LEMMA LeaveKeeps ==
  ASSUME ConfInv, NEW p \in {"destroy", "rejected", "post"}, Leave(p)
  PROVE  ConfInv'
<1>1. /\ pc' = p /\ UNCHANGED call /\ pos' = pos /\ check' = check
      /\ depth' = depth /\ seq' = seq /\ arg' = arg /\ pool' = pool /\ data' = data
      /\ validParser' = FALSE
  BY DEF Leave, parsing
<1>2. p \in PCs \ (Early \cup {"parse"})  BY DEF PCs, Early
<1>3. NoRaw => NoRaw'  BY <1>1 DEF NoRaw
<1>4. Sound'  BY <1>1 DEF Sound
<1>5. QED  BY <1>1, <1>2, <1>3, <1>4, OverKeeps DEF ConfInv, Types

(* A pass starts at the first event, outside of everything. *)
LEMMA EnterKeeps ==
  ASSUME ConfInv, pc \in Early, NEW p \in Early \ {"open"}, Enter(p), PassedInv',
         p = "structure" => multilevel
  PROVE  ConfInv'
<1>1. /\ pc' = p /\ pos' = 1 /\ check' = NoCheck /\ validParser' = TRUE /\ UNCHANGED call
      /\ depth' = depth /\ seq' = seq /\ arg' = arg /\ pool' = pool /\ data' = data
  BY DEF Enter, parsing
<1>2. /\ Types
      /\ depth = 0 /\ seq = FALSE /\ arg = <<>> /\ pool = <<>> /\ data = 0
  BY DEF ConfInv, Types
<1>3. NoCheck \in Checks /\ Counts(NoCheck, 0, 0, {0, 2}, {FALSE})
  BY DEF NoCheck, Checks, Counts, MAX_DEPTH
<1>4. /\ Len(file.events) \in Nat \ {0} /\ Nest[1] = <<>>
  <2>1. file.events # <<>> /\ Nest[1] = <<>>  BY <1>2, FileFacts DEF Nested
  <2>2. QED  BY <1>2, <2>1, FileFacts, EmptySeq
<1>5. At' = <<>>  BY <1>1, <1>4, Undisturbed DEF At
<1>6. Types'
  <2>1. (\E c \in Calls : file = c.file /\ multilevel = c.multilevel)'
    BY <1>1, <1>2, Undisturbed DEF Types
  <2>2. p \in PCs \ {"parse"}  BY DEF PCs, Early
  <2>3. pos' \in 1 .. Len(file'.events) + 1  BY <1>1, <1>4, Undisturbed
  <2>4. QED  BY <1>1, <1>2, <1>3, <2>1, <2>2, <2>3 DEF Types
<1>7. StructureInv'
  <2>1. SUFFICES ASSUME p = "structure"
                 PROVE  (/\ multilevel /\ pos <= Len(file.events) /\ Fits(check, At)
                         /\ \A i \in 1 .. pos - 1 : InShape(Nest[i], file.events[i]))'
    BY <1>1 DEF StructureInv
  <2>2. multilevel' /\ pos' <= Len(file'.events)  BY <1>1, <1>4, <2>1, Undisturbed
  <2>3. Fits(check', At')  BY <1>1, <1>3, <1>5 DEF Fits
  <2>4. \A i \in 1 .. pos' - 1 : InShape(Nest'[i], file'.events[i])  BY <1>1
  <2>5. QED  BY <2>2, <2>3, <2>4
<1>8. ParseInv'  BY <1>1, <1>2, <1>5 DEF ParseInv, NoRaw, Early
<1>9. Sound'  BY <1>1 DEF Sound, Early
<1>10. QED  BY <1>6, <1>7, <1>8, <1>9 DEF ConfInv

LEMMA OpenKeeps ==
  ASSUME ConfInv, Open
  PROVE  ConfInv'
<1>1. pc = "open" /\ pc' = "document" /\ Enter("document")  BY DEF Open, Enter
<1>2. PassedInv'  BY <1>1 DEF PassedInv
<1>3. QED  BY <1>1, <1>2, EnterKeeps DEF Early

LEMMA OpenFailsKeeps ==
  ASSUME ConfInv, OpenFails
  PROVE  ConfInv'
BY LeaveKeeps DEF OpenFails

LEMMA ValidateDocumentKeeps ==
  ASSUME ConfInv, ValidateDocument
  PROVE  ConfInv'
<1>1. CASE file.broken \/ DocumentCount(file) # 1
  BY <1>1, LeaveKeeps DEF ValidateDocument
<1>2. CASE ~(file.broken \/ DocumentCount(file) # 1)
  <2>1. pc = "document" /\ Enter("tokens") /\ pc' = "tokens" /\ UNCHANGED call
    BY <1>2 DEF ValidateDocument, Enter
  <2>2. PassedInv'  BY <1>2, <2>1, Undisturbed DEF PassedInv
  <2>3. QED  BY <2>1, <2>2, EnterKeeps DEF Early
<1>3. QED  BY <1>1, <1>2

LEMMA ValidateTokensKeeps ==
  ASSUME ConfInv, ValidateTokens
  PROVE  ConfInv'
<1>1. CASE file.banned
  BY <1>1, LeaveKeeps DEF ValidateTokens
<1>2. CASE ~file.banned
  <2>1. pc = "tokens"  BY DEF ValidateTokens
  <2>2. ~file.broken /\ DocumentCount(file) = 1  BY <2>1 DEF ConfInv, PassedInv
  <2>3. CASE multilevel
    <3>1. Enter("structure") /\ pc' = "structure" /\ UNCHANGED call
      BY <1>2, <2>3 DEF ValidateTokens, Enter
    <3>2. PassedInv'  BY <1>2, <2>2, <3>1, Undisturbed DEF PassedInv
    <3>3. QED  BY <2>1, <2>3, <3>1, <3>2, EnterKeeps DEF Early
  <2>4. CASE ~multilevel
    <3>1. Enter("begin") /\ pc' = "begin" /\ UNCHANGED call
      BY <1>2, <2>4 DEF ValidateTokens, Enter
    <3>2. PassedInv'  BY <1>2, <2>2, <2>4, <3>1, Undisturbed DEF PassedInv
    <3>3. QED  BY <2>1, <3>1, <3>2, EnterKeeps DEF Early
  <2>5. QED  BY <2>3, <2>4
<1>3. QED  BY <1>1, <1>2

LEMMA ValidateStructureKeeps ==
  ASSUME ConfInv, ValidateStructure
  PROVE  ConfInv'
<1>1. /\ pc = "structure" /\ multilevel /\ pos <= Len(file.events) /\ Fits(check, At)
      /\ \A i \in 1 .. pos - 1 : InShape(Nest[i], file.events[i])
      /\ Types /\ check \in Checks
  BY DEF ValidateStructure, ConfInv, StructureInv, Types
<1>2. CASE Misplaced(Event)  BY <1>2, LeaveKeeps DEF ValidateStructure
<1>3. ASSUME ~Misplaced(Event)
      PROVE  /\ InShape(At, Event) /\ Turn(At, Event, Nest[pos + 1])
             /\ \A i \in 1 .. pos : InShape(Nest[i], file.events[i])
  <2>1. /\ Event \in EventType /\ MayFollow(At, Event) /\ Event = file.events[pos]
        /\ Nest[pos + 1] = After(At, Event)
    BY <1>1, Here
  <2>2. InShape(At, Event)  BY <1>1, <1>3, <2>1, PassedInShape
  <2>3. Turn(At, Event, Nest[pos + 1])  BY <2>1, <2>2, Turns
  <2>4. ASSUME NEW i \in 1 .. pos
        PROVE  InShape(Nest[i], file.events[i])
    <3>1. CASE i = pos  BY <2>1, <2>2, <3>1, Zenon DEF At
    <3>2. CASE i # pos
      <4>1. i \in 1 .. pos - 1  BY <1>1, <3>2, FileFacts
      <4>2. QED  BY <1>1, <4>1
    <3>3. QED  BY <3>1, <3>2
  <2>5. QED  BY <2>2, <2>3, <2>4
<1>4. CASE ~Misplaced(Event) /\ Event.type = "stream-"
  <2>1. Enter("begin") /\ pc' = "begin" /\ UNCHANGED call
    BY <1>4 DEF ValidateStructure, Enter
  <2>2. pos = Len(file.events)  BY <1>1, <1>4, Here
  <2>3. Shaped(file)
    <3>1. DOMAIN file.events = 1 .. pos  BY <1>1, <2>2, FileFacts
    <3>2. QED  BY <1>3, <1>4, <3>1 DEF Shaped, Nest
  <2>4. PassedInv'  BY <1>1, <2>1, <2>3, Undisturbed DEF ConfInv, PassedInv
  <2>5. QED  BY <1>1, <2>1, <2>4, EnterKeeps DEF Early
<1>5. CASE ~Misplaced(Event) /\ Event.type # "stream-"
  <2>1. /\ pos' = pos + 1 /\ check' = Checked(Event) /\ UNCHANGED call /\ pc' = pc
        /\ depth' = depth /\ seq' = seq /\ arg' = arg /\ pool' = pool /\ data' = data
        /\ validParser' = validParser
    BY <1>5 DEF ValidateStructure, Step, parsing
  <2>2. At' = Nest[pos + 1]  BY <2>1, Undisturbed DEF At
  <2>3. check' \in Checks /\ Fits(check', At')
    BY <1>1, <1>3, <1>5, <2>1, <2>2, CheckedFits
  <2>4. pos' <= Len(file.events)  BY <1>1, <1>5, <2>1, Here, FileFacts
  <2>5. Types'
    <3>1. (\E c \in Calls : file = c.file /\ multilevel = c.multilevel)'
      BY <1>1, <2>1, Undisturbed DEF Types
    <3>2. pos' \in 1 .. Len(file'.events) + 1  BY <1>1, <2>1, <2>4, FileFacts, Undisturbed DEF Types
    <3>3. QED  BY <1>1, <2>1, <2>3, <3>1, <3>2 DEF Types
  <2>6. StructureInv'
    <3>1. \A i \in 1 .. pos' - 1 : InShape(Nest'[i], file'.events[i])
      BY <1>1, <1>3, <1>5, <2>1, FileFacts, Undisturbed
    <3>2. QED  BY <1>1, <2>1, <2>3, <2>4, <3>1, Undisturbed DEF StructureInv
  <2>7. PassedInv'  BY <1>1, <2>1, Undisturbed DEF ConfInv, PassedInv
  <2>8. ParseInv'  BY <1>1, <2>1, Undisturbed DEF ConfInv, ParseInv, NoRaw
  <2>9. Sound'  BY <1>1, <2>1 DEF Sound
  <2>10. QED  BY <2>5, <2>6, <2>7, <2>8, <2>9 DEF ConfInv
<1>6. QED  BY <1>2, <1>4, <1>5

-----------------------------------------------------------------------------
(* The parser *)

(* A file that is parsed has the documented shape, if it was checked or
   written in it. *)
LEMMA ParsedShaped ==
  ASSUME ConfInv, pc \in {"begin", "parse"}, Trusted(file, multilevel)
  PROVE  Shaped(file)
BY DEF ConfInv, PassedInv, Trusted

LEMMA ShapedTurn ==
  ASSUME Types, Shaped(file), pos <= Len(file.events)
  PROVE  Turn(At, Event, Nest[pos + 1])
<1>1. pos \in DOMAIN file.events  BY FileFacts DEF Types
<1>2. /\ MayFollow(At, Event) /\ Event = file.events[pos]
      /\ Nest[pos + 1] = After(At, Event)
  BY Here
<1>3. InShape(At, Event)  BY <1>1, <1>2 DEF Shaped, Nest, At
<1>4. QED  BY <1>2, <1>3, Turns

(* Inside the root mapping the stream is not over. *)
LEMMA ParseTurn ==
  ASSUME ConfInv, pc = "parse", Trusted(file, multilevel)
  PROVE  Aligned /\ NoRaw /\ Turn(At, Event, Nest[pos + 1])
<1>1. Types /\ Aligned /\ NoRaw  BY DEF ConfInv, ParseInv
<1>2. At # <<>>  BY <1>1, ShapesDiffer DEF Aligned
<1>3. file.events # <<>>  BY <1>1, FileFacts DEF Nested
<1>4. pos <= Len(file.events)
  <2>1. pos # Len(file.events) + 1  BY <1>1, <1>2, <1>3, NoneOpen
  <2>2. QED  BY <1>1, <2>1, FileFacts DEF Types
<1>5. QED  BY <1>1, <1>4, ParsedShaped, ShapedTurn

LEMMA BeginParseKeeps ==
  ASSUME ConfInv, BeginParse
  PROVE  ConfInv'
<1>1. /\ pc = "begin" /\ Types /\ depth = 0 /\ seq = FALSE /\ arg = <<>> /\ pool = <<>>
      /\ data = 0
  BY DEF BeginParse, ConfInv, Types, Early
<1>2. CASE Event.type = "none"
  <2>1. UNCHANGED vars  BY <1>2 DEF BeginParse
  <2>2. QED  BY <2>1, Stuttering
<1>3. CASE Event.type # "none"
  <2>1. /\ pos' = pos + 1 /\ UNCHANGED call /\ UNCHANGED <<check, seq, arg, pool, data, validParser>>
        /\ \/ Event.type = "map+" /\ pc' = "parse" /\ depth' = 1
           \/ Event.type # "map+" /\ pc' = pc /\ depth' = depth
    BY <1>3 DEF BeginParse
  <2>2. pos <= Len(file.events)  BY <1>1, <1>3, Within
  <2>3. At' = Nest[pos + 1]  BY <2>1, Undisturbed DEF At
  <2>4. Types'
    <3>1. (\E c \in Calls : file = c.file /\ multilevel = c.multilevel)'
      BY <1>1, <2>1, Undisturbed DEF Types
    <3>2. pos' \in 1 .. Len(file'.events) + 1  BY <1>1, <2>1, <2>2, FileFacts, Undisturbed DEF Types
    <3>3. pc' \in {"begin", "parse"}  BY <1>1, <2>1
    <3>4. QED  BY <1>1, <2>1, <3>1, <3>2, <3>3 DEF Types, PCs, Early
  <2>5. ParseInv'
    <3>1. SUFFICES ASSUME Trusted(file, multilevel)
                   PROVE  (pc = "begin" => At = <<>>)' /\ (pc = "parse" => Aligned)'
      BY <1>1, <2>1, Undisturbed DEF ParseInv, NoRaw
    <3>2. At = <<>>  BY <1>1, <3>1 DEF ConfInv, ParseInv
    <3>3. Turn(<<>>, Event, Nest[pos + 1])  BY <1>1, <2>2, <3>1, <3>2, ParsedShaped, ShapedTurn
    <3>4. \/ Event.type \in Outer /\ Nest[pos + 1] = <<>>
          \/ Event.type = "map+" /\ Nest[pos + 1] = <<EvenMap>>
      BY <3>3, ShortEnds DEF Turn
    <3>5. CASE Event.type = "map+"
      <4>1. At' = <<EvenMap>> /\ pc' = "parse" /\ depth' = 1 /\ seq' = FALSE /\ Len(arg') = 0
        BY <1>1, <2>1, <2>3, <3>4, <3>5 DEF Outer
      <4>2. QED  BY <4>1 DEF Aligned, Stacked
    <3>6. CASE Event.type # "map+"  BY <1>1, <2>1, <2>3, <3>4, <3>6
    <3>7. QED  BY <3>5, <3>6
  <2>6. StructureInv' /\ PassedInv' /\ Sound'
    BY <1>1, <2>1, Undisturbed DEF ConfInv, StructureInv, PassedInv, Sound
  <2>7. QED  BY <2>4, <2>5, <2>6 DEF ConfInv
<1>4. QED  BY <1>2, <1>3

(* What a step of conf_parse_core has to leave behind. *)
LEMMA ParserKeeps ==
  ASSUME ConfInv, pc = "parse", pos <= Len(file.events), pos' = pos + 1,
         UNCHANGED call, UNCHANGED check, UNCHANGED validParser,
         pc' \in {"parse", "end", "destroy", "failed"}, depth' \in Nat,
         pc' = "parse" => depth' >= 1, seq' \in BOOLEAN,
         arg' \in Seq(DOMAIN Rank \ {None}), pool' \in Seq(PoolType), data' \in 0 .. Len(pool'),
         Trusted(file, multilevel) => NoRaw' /\ (pc' = "parse" => Aligned')
  PROVE  ConfInv'
<1>1. Types  BY DEF ConfInv
<1>2. Types'
  <2>1. (\E c \in Calls : file = c.file /\ multilevel = c.multilevel)'
    BY <1>1, Undisturbed DEF Types
  <2>2. pos' \in 1 .. Len(file'.events) + 1  BY <1>1, FileFacts, Undisturbed DEF Types
  <2>3. QED  BY <1>1, <2>1, <2>2 DEF Types, PCs, Early
<1>3. StructureInv' /\ PassedInv' /\ Sound'
  BY Undisturbed DEF ConfInv, StructureInv, PassedInv, Sound
<1>4. ParseInv'  BY Undisturbed DEF ParseInv
<1>5. QED  BY <1>2, <1>3, <1>4 DEF ConfInv

(* How depth, seq and the stack stand at each of the places. *)
LEMMA AlignedAt ==
  ASSUME Aligned
  PROVE  /\ At = <<EvenMap>> => Stacked(1, FALSE, 0)
         /\ At = <<OddMap>> => Stacked(1, FALSE, 1)
         /\ At = <<EvenMap, EvenMap>> => Stacked(2, FALSE, 1)
         /\ At = <<EvenMap, OddMap>> => Stacked(2, FALSE, 2)
         /\ At = <<EvenMap, EvenMap, InSeq>> => Stacked(2, TRUE, 2)
         /\ At # <<>>
BY ShapesDiffer DEF Aligned

LEMMA ArgFacts ==
  ASSUME Types
  PROVE  /\ Len(arg) \in Nat /\ (arg = <<>> <=> Len(arg) = 0)
         /\ arg # <<>> => /\ Front(arg) \in Seq(DOMAIN Rank \ {None})
                          /\ Len(Front(arg)) = Len(arg) - 1
                          /\ Len(arg) > 1 => Front(arg)[1] = arg[1]
<1>1. arg \in Seq(DOMAIN Rank \ {None})  BY DEF Types
<1>2. Len(arg) \in Nat /\ (arg = <<>> <=> Len(arg) = 0)  BY <1>1, EmptySeq
<1>3. ASSUME arg # <<>>
      PROVE  /\ Front(arg) \in Seq(DOMAIN Rank \ {None})
             /\ Len(Front(arg)) = Len(arg) - 1
             /\ \A i \in 1 .. Len(arg) - 1 : Front(arg)[i] = arg[i]
  BY <1>1, <1>3, FrontFacts
<1>4. QED  BY <1>2, <1>3

LEMMA MappingEndKeeps ==
  ASSUME ConfInv, MappingEnd
  PROVE  ConfInv'
<1>1. /\ pc = "parse" /\ Event.type = "map-" /\ Types /\ depth \in Nat /\ depth >= 1
      /\ seq \in BOOLEAN /\ arg \in Seq(DOMAIN Rank \ {None})
      /\ pool \in Seq(PoolType) /\ data \in 0 .. Len(pool)
  BY DEF MappingEnd, ConfInv, Types
<1>2. pos <= Len(file.events)  BY <1>1, Within
<1>3. /\ depth' = depth - 1 /\ arg' = (IF depth = 2 THEN Front(arg) ELSE arg)
      /\ depth = 2 => arg # <<>>
      /\ pc' = IF depth = 1 THEN "end" ELSE pc
      /\ pos' = pos + 1 /\ UNCHANGED call /\ UNCHANGED check /\ UNCHANGED validParser
      /\ seq' = seq /\ pool' = pool /\ data' = data
  BY DEF MappingEnd
<1>4. arg' \in Seq(DOMAIN Rank \ {None})  BY <1>1, <1>3, ArgFacts
<1>5. ASSUME Trusted(file, multilevel)
      PROVE  NoRaw' /\ (pc' = "parse" => Aligned')
  <2>1. Aligned /\ NoRaw /\ Turn(At, Event, Nest[pos + 1])  BY <1>1, <1>5, ParseTurn
  <2>2. At' = Nest[pos + 1]  BY <1>3, Undisturbed DEF At
  <2>3. \/ At = <<EvenMap>>
        \/ At = <<EvenMap, EvenMap>> /\ At' = <<EvenMap>>
    BY <1>1, <2>1, <2>2, AlignedAt DEF Turn, Outer
  <2>4. CASE At = <<EvenMap>>
    BY <1>3, <2>1, <2>4, AlignedAt DEF Stacked, NoRaw
  <2>5. CASE At = <<EvenMap, EvenMap>> /\ At' = <<EvenMap>>
    <3>1. depth = 2 /\ seq = FALSE /\ Len(arg) = 1  BY <2>1, <2>5, AlignedAt DEF Stacked
    <3>2. depth' = 1 /\ seq' = FALSE /\ Len(arg') = 0  BY <1>1, <1>3, <3>1, ArgFacts
    <3>3. QED  BY <1>3, <2>1, <2>5, <3>2 DEF Aligned, Stacked, NoRaw
  <2>6. QED  BY <2>3, <2>4, <2>5
<1>6. QED  BY <1>1, <1>2, <1>3, <1>4, <1>5, ParserKeeps

LEMMA MappingStartKeeps ==
  ASSUME ConfInv, MappingStart
  PROVE  ConfInv'
<1>1. /\ pc = "parse" /\ Event.type = "map+" /\ Types /\ depth \in Nat /\ depth >= 1
      /\ seq \in BOOLEAN /\ arg \in Seq(DOMAIN Rank \ {None})
      /\ pool \in Seq(PoolType) /\ data \in 0 .. Len(pool)
  BY DEF MappingStart, ConfInv, Types
<1>2. pos <= Len(file.events)  BY <1>1, Within
<1>3. /\ depth' = depth + 1 /\ arg' = arg /\ seq' = seq /\ pool' = pool /\ data' = data
      /\ pc' = pc /\ pos' = pos + 1 /\ UNCHANGED call /\ UNCHANGED check
      /\ UNCHANGED validParser
  BY DEF MappingStart, Step
<1>4. ASSUME Trusted(file, multilevel)
      PROVE  NoRaw' /\ (pc' = "parse" => Aligned')
  <2>1. Aligned /\ NoRaw /\ Turn(At, Event, Nest[pos + 1])  BY <1>1, <1>4, ParseTurn
  <2>2. At' = Nest[pos + 1]  BY <1>3, Undisturbed DEF At
  <2>3. At = <<OddMap>> /\ At' = <<EvenMap, EvenMap>>
    BY <1>1, <2>1, <2>2, AlignedAt DEF Turn, Outer
  <2>4. Stacked(1, FALSE, 1)  BY <2>1, <2>3, AlignedAt
  <2>5. QED  BY <1>3, <2>1, <2>3, <2>4 DEF Aligned, Stacked, Named, NoRaw
<1>5. QED  BY <1>1, <1>2, <1>3, <1>4, ParserKeeps

LEMMA SequenceStartKeeps ==
  ASSUME ConfInv, SequenceStart
  PROVE  ConfInv'
<1>1. /\ pc = "parse" /\ Event.type = "seq+" /\ Types /\ depth \in Nat /\ depth >= 1
      /\ arg \in Seq(DOMAIN Rank \ {None})
      /\ pool \in Seq(PoolType) /\ data \in 0 .. Len(pool)
  BY DEF SequenceStart, ConfInv, Types
<1>2. pos <= Len(file.events)  BY <1>1, Within
<1>3. /\ seq' = TRUE /\ arg' = arg /\ depth' = depth /\ pool' = pool /\ data' = data
      /\ pc' = pc /\ pos' = pos + 1 /\ UNCHANGED call /\ UNCHANGED check
      /\ UNCHANGED validParser
  BY DEF SequenceStart, Step
<1>4. ASSUME Trusted(file, multilevel)
      PROVE  NoRaw' /\ (pc' = "parse" => Aligned')
  <2>1. Aligned /\ NoRaw /\ Turn(At, Event, Nest[pos + 1])  BY <1>1, <1>4, ParseTurn
  <2>2. At' = Nest[pos + 1]  BY <1>3, Undisturbed DEF At
  <2>3. At = <<EvenMap, OddMap>> /\ At' = <<EvenMap, EvenMap, InSeq>>
    BY <1>1, <2>1, <2>2, AlignedAt DEF Turn, Outer
  <2>4. Stacked(2, FALSE, 2)  BY <2>1, <2>3, AlignedAt
  <2>5. QED  BY <1>3, <2>1, <2>3, <2>4 DEF Aligned, Stacked, Named, NoRaw
<1>5. QED  BY <1>1, <1>2, <1>3, <1>4, ParserKeeps

LEMMA SequenceEndKeeps ==
  ASSUME ConfInv, SequenceEnd
  PROVE  ConfInv'
<1>1. /\ pc = "parse" /\ Event.type = "seq-" /\ Types /\ depth \in Nat /\ depth >= 1
      /\ arg \in Seq(DOMAIN Rank \ {None}) /\ arg # <<>>
      /\ pool \in Seq(PoolType) /\ data \in 0 .. Len(pool)
  BY DEF SequenceEnd, ConfInv, Types
<1>2. pos <= Len(file.events)  BY <1>1, Within
<1>3. /\ seq' = FALSE /\ arg' = Front(arg) /\ depth' = depth /\ pool' = pool /\ data' = data
      /\ pc' = pc /\ pos' = pos + 1 /\ UNCHANGED call /\ UNCHANGED check
      /\ UNCHANGED validParser
  BY DEF SequenceEnd, Step
<1>4. arg' \in Seq(DOMAIN Rank \ {None})  BY <1>1, <1>3, ArgFacts
<1>5. ASSUME Trusted(file, multilevel)
      PROVE  NoRaw' /\ (pc' = "parse" => Aligned')
  <2>1. Aligned /\ NoRaw /\ Turn(At, Event, Nest[pos + 1])  BY <1>1, <1>5, ParseTurn
  <2>2. At' = Nest[pos + 1]  BY <1>3, Undisturbed DEF At
  <2>3. At = <<EvenMap, EvenMap, InSeq>> /\ At' = <<EvenMap, EvenMap>>
    BY <1>1, <2>1, <2>2, AlignedAt DEF Turn, Outer
  <2>4. Stacked(2, TRUE, 2)  BY <2>1, <2>3, AlignedAt
  <2>5. Len(arg') = 1 /\ arg'[1] = arg[1]  BY <1>1, <1>3, <2>4, ArgFacts DEF Stacked
  <2>6. QED  BY <1>3, <2>1, <2>3, <2>4, <2>5 DEF Aligned, Stacked, Named, NoRaw
<1>6. QED  BY <1>1, <1>2, <1>3, <1>4, <1>5, ParserKeeps

LEMMA EmptyScalarKeeps ==
  ASSUME ConfInv, EmptyScalar
  PROVE  ConfInv'
<1>1. /\ pc' = "destroy" /\ UNCHANGED call /\ pos' = pos /\ check' = check
      /\ depth' = depth /\ seq' = seq /\ arg' = arg /\ pool' = pool /\ data' = data
      /\ validParser' = validParser
  BY DEF EmptyScalar, parsing
<1>2. "destroy" \in PCs \ (Early \cup {"parse"})  BY DEF PCs, Early
<1>3. NoRaw => NoRaw'  BY <1>1 DEF NoRaw
<1>4. Sound'  BY <1>1 DEF Sound
<1>5. QED  BY <1>1, <1>2, <1>3, <1>4, OverKeeps DEF ConfInv, Types

LEMMA FailKeeps ==
  ASSUME ConfInv, Fail
  PROVE  ConfInv'
<1>1. /\ pc' = "failed" /\ UNCHANGED call /\ pos' = pos /\ check' = check
      /\ depth' = depth /\ seq' = seq /\ arg' = arg /\ pool' = pool /\ data' = data
      /\ validParser' \in BOOLEAN
  <2>1. (pc # "document") \in BOOLEAN /\ (pos > 1) \in BOOLEAN  OBVIOUS
  <2>2. validParser' \in {(pc # "document"), (pos > 1)}  BY DEF Fail
  <2>3. validParser' \in BOOLEAN  BY <2>1, <2>2, Zenon
  <2>4. QED  BY <2>3 DEF Fail, parsing
<1>2. "failed" \in PCs \ (Early \cup {"parse"})  BY DEF PCs, Early
<1>3. NoRaw => NoRaw'  BY <1>1 DEF NoRaw
<1>4. Sound'  BY <1>1 DEF Sound
<1>5. QED  BY <1>1, <1>2, <1>3, <1>4, OverKeeps DEF ConfInv, Types

LEMMA GiveUpKeeps ==
  ASSUME ConfInv, NEW from, NEW to \in {"rejected", "closed"}, GiveUp(from, to)
  PROVE  ConfInv'
<1>1. /\ pc' = to /\ UNCHANGED call /\ pos' = pos /\ check' = check
      /\ depth' = depth /\ seq' = seq /\ arg' = <<>> /\ pool' = <<>> /\ data' = 0
      /\ validParser' = validParser
  BY DEF GiveUp
<1>2. to \in PCs \ (Early \cup {"parse"})  BY DEF PCs, Early
<1>3. NoRaw'  BY <1>1 DEF NoRaw
<1>4. Sound'  BY <1>1 DEF Sound
<1>5. /\ arg' \in Seq(DOMAIN Rank \ {None}) /\ pool' \in Seq(PoolType)
      /\ data' \in 0 .. Len(pool')
  BY <1>1
<1>6. validParser' \in BOOLEAN  BY <1>1 DEF ConfInv, Types
<1>7. QED  BY <1>1, <1>2, <1>3, <1>4, <1>5, <1>6, OverKeeps

(* A scalar that is pushed, and the stack then. *)
LEMMA PushedFacts ==
  ASSUME Types, AtScalar, Event.value # None
  PROVE  /\ pos <= Len(file.events)
         /\ Pushed \in Seq(DOMAIN Rank \ {None}) /\ Len(Pushed) = Len(arg) + 1
         /\ \A i \in 1 .. Len(arg) : Pushed[i] = arg[i]
         /\ Last(Pushed) = Event.value /\ Pushed[Len(arg) + 1] = Event.value
<1>1. pos <= Len(file.events)  BY Within DEF AtScalar
<1>2. Event.value \in DOMAIN Rank \ {None}  BY <1>1, Here DEF EventType
<1>3. arg \in Seq(DOMAIN Rank \ {None})  BY DEF Types
<1> DEFINE S == DOMAIN Rank \ {None}
           v == Event.value
<1> HIDE DEF S, v
<1>4. arg \in Seq(S) /\ v \in S  BY <1>2, <1>3 DEF S, v
<1>5. /\ Append(arg, v) \in Seq(S) /\ Len(Append(arg, v)) = Len(arg) + 1
      /\ \A i \in 1 .. Len(arg) : Append(arg, v)[i] = arg[i]
      /\ Append(arg, v)[Len(arg) + 1] = v
  BY <1>4, AppendFacts, Zenon
<1>6. QED  BY <1>1, <1>5 DEF Pushed, Last, S, v

LEMMA ScalarTurn ==
  ASSUME ConfInv, AtScalar, Event.value # None, Trusted(file, multilevel)
  PROVE  /\ Aligned /\ NoRaw
         /\ \/ At = <<EvenMap>> /\ Nest[pos + 1] = <<OddMap>>
            \/ At = <<EvenMap, EvenMap>> /\ Nest[pos + 1] = <<EvenMap, OddMap>>
            \/ At = <<EvenMap, OddMap>> /\ Nest[pos + 1] = <<EvenMap, EvenMap>>
            \/ /\ At = <<EvenMap, EvenMap, InSeq>>
               /\ Nest[pos + 1] = <<EvenMap, EvenMap, InSeq>>
<1>1. Aligned /\ NoRaw /\ Turn(At, Event, Nest[pos + 1])  BY ParseTurn DEF AtScalar
<1>2. At # <<>> /\ Event.type = "scalar"  BY <1>1, AlignedAt DEF AtScalar
<1>3. QED  BY <1>1, <1>2 DEF Turn

LEMMA KeyScalarKeeps ==
  ASSUME ConfInv, KeyScalar
  PROVE  ConfInv'
<1>1. /\ pc = "parse" /\ AtScalar /\ Event.value # None /\ ~IsLeaf /\ ~IsPool /\ Types
      /\ depth \in Nat /\ depth >= 1 /\ seq \in BOOLEAN
      /\ pool \in Seq(PoolType) /\ data \in 0 .. Len(pool)
  BY DEF KeyScalar, AtScalar, ConfInv, Types
<1>2. /\ arg' = Pushed /\ depth' = depth /\ seq' = seq /\ pool' = pool /\ data' = data
      /\ pc' = pc /\ pos' = pos + 1 /\ UNCHANGED call /\ UNCHANGED check
      /\ UNCHANGED validParser
  BY DEF KeyScalar, Step
<1>3. /\ Pushed \in Seq(DOMAIN Rank \ {None}) /\ Len(Pushed) = Len(arg) + 1
      /\ \A i \in 1 .. Len(arg) : Pushed[i] = arg[i]
      /\ pos <= Len(file.events)
  BY <1>1, PushedFacts
<1>4. ASSUME Trusted(file, multilevel)
      PROVE  NoRaw' /\ (pc' = "parse" => Aligned')
  <2>1. Aligned /\ NoRaw  BY <1>1, <1>4, ScalarTurn
  <2>2. At' = Nest[pos + 1]  BY <1>2, Undisturbed DEF At
  <2>3. At # <<EvenMap>>  BY <1>1, <2>1, AlignedAt DEF Stacked, IsPool, ROOT_DEPTH
  <2>4. At # <<EvenMap, OddMap>>
    <3>1. ASSUME At = <<EvenMap, OddMap>>
          PROVE  depth = 2 /\ Len(arg) = 2
      BY <2>1, <3>1, AlignedAt DEF Stacked
    <3>2. ~(depth = 2 /\ Len(Pushed) = depth + 1)  BY <1>1 DEF IsLeaf, ROOT_DEPTH
    <3>3. QED  BY <1>3, <3>1, <3>2
  <2>5. At # <<EvenMap, EvenMap, InSeq>>  BY <1>1, <2>1, AlignedAt DEF Stacked, IsLeaf
  <2>6. At = <<EvenMap, EvenMap>> /\ At' = <<EvenMap, OddMap>>
    BY <1>1, <1>4, <2>2, <2>3, <2>4, <2>5, ScalarTurn
  <2>7. Stacked(2, FALSE, 1)  BY <2>1, <2>6, AlignedAt
  <2>8. Len(arg') = 2 /\ arg'[1] = arg[1]  BY <1>2, <1>3, <2>7 DEF Stacked
  <2>9. QED  BY <1>2, <2>1, <2>6, <2>7, <2>8 DEF Aligned, Stacked, Named, NoRaw
<1>5. QED  BY <1>1, <1>2, <1>3, <1>4, ParserKeeps

(* conf_pool_init makes a pool of every field, named for the scalar read. *)
LEMMA NewPoolFacts ==
  ASSUME NEW n \in DOMAIN Rank, NEW left \in MaxSlotsLeft
  PROVE  /\ NewPool(n, left) \in PoolType /\ NewPool(n, left) # Raw
         /\ NewPool(n, left)["name"] = n
<1>1. left \in Values /\ None \in Values /\ Unset \in Values /\ n \in Values
  BY MaxSlotsAssumption, RankAssumption DEF Values, Unset
<1>2. NewPool(n, left) \in [Fields -> Values]  BY <1>1 DEF NewPool
<1>3. NewPool(n, left)["name"] = n  BY DEF NewPool, Fields
<1>4. QED  BY <1>2, <1>3, RawAssumption DEF PoolType

(* A directive sets one field, never the name. *)
LEMMA SetPoolFacts ==
  ASSUME NEW p \in PoolType, p # Raw, NEW k \in Strings \cup Numbers, NEW v \in DOMAIN Rank
  PROVE  /\ [p EXCEPT ![k] = SetTo(k, v)] \in PoolType
         /\ [p EXCEPT ![k] = SetTo(k, v)] # Raw
         /\ [p EXCEPT ![k] = SetTo(k, v)]["name"] = p["name"]
<1>1. p \in [Fields -> Values] /\ p["name"] \in DOMAIN Rank  BY DEF PoolType
<1>2. SetTo(k, v) \in Values  BY NumAssumption DEF SetTo, Values
<1>3. k # "name" /\ k \in Fields /\ "name" \in Fields  BY DEF Strings, Numbers, Fields
<1> DEFINE q == [p EXCEPT ![k] = SetTo(k, v)]
<1>4. q \in [Fields -> Values] /\ q["name"] = p["name"]  BY <1>1, <1>2, <1>3
<1>5. QED  BY <1>1, <1>4, RawAssumption DEF PoolType

(* conf_handler keeps the array of pools, their names, and what is set. *)
MayHandle(ps, as, d) ==
  /\ ps \in Seq(PoolType) /\ as \in Seq(DOMAIN Rank \ {None}) /\ Len(as) # 0
  /\ d \in 0 .. Len(ps) /\ HandlerDefined(ps, as, d)

Handled(h, ps, as, d) ==
  /\ h.pool \in Seq(PoolType) /\ Len(h.pool) = Len(ps)
  /\ \A i \in 1 .. Len(ps) : ps[i] # Raw => h.pool[i] # Raw
  /\ Len(as) = 1 => /\ h.ok = TRUE /\ d > 0
                    /\ h.pool[d] # Raw /\ h.pool[d]["name"] = as[1]
                    /\ \A i \in 1 .. Len(ps) : i # d => h.pool[i] = ps[i]
  /\ Len(as) # 1 =>
       \A i \in 1 .. Len(ps) : ps[i] # Raw => h.pool[i]["name"] = ps[i]["name"]

LEMMA HandlerFacts ==
  ASSUME NEW ps, NEW as, NEW d, NEW left \in MaxSlotsLeft, MayHandle(ps, as, d),
         NEW h, h = Handler(ps, as, d, left)
  PROVE  Handled(h, ps, as, d)
<1> USE DEF MayHandle, Handled
<1>0. /\ Len(as) \in Nat \ {0} /\ Len(ps) \in Nat
      /\ Len(as) \in 1 .. Len(as)
  <2>1. Len(as) \in Nat  BY LenProperties, Zenon
  <2>2. Len(ps) \in Nat  BY LenProperties, Zenon
  <2> DEFINE n == Len(as)
  <2> HIDE DEF n
  <2>3. n \in Nat /\ n # 0  BY <2>1 DEF n
  <2>4. n \in 1 .. n  BY <2>3
  <2>5. QED  BY <2>2, <2>3, <2>4 DEF n
<1>1. CASE Len(as) = 1
  <2>1. d > 0 /\ d \in 1 .. Len(ps)  BY <1>0, <1>1 DEF HandlerDefined
  <2>2. as[1] \in DOMAIN Rank
    <3>1. 1 \in 1 .. Len(as)  BY <1>1
    <3>2. as[1] \in DOMAIN Rank \ {None}  BY <3>1, ElementOfSeq, Zenon
    <3>3. QED  BY <3>2
  <2> DEFINE new == NewPool(as[1], left)
  <2>3. new \in PoolType /\ new # Raw /\ new["name"] = as[1]  BY <2>2, NewPoolFacts
  <2>4. h = [ok |-> TRUE, pool |-> [ps EXCEPT ![d] = new]]  BY <1>1 DEF Handler
  <2> HIDE DEF new
  <2>5. h.ok = TRUE /\ h.pool = [ps EXCEPT ![d] = new]  BY <2>4
  <2>6. /\ h.pool \in Seq(PoolType) /\ Len(h.pool) = Len(ps)
        /\ \A i \in 1 .. Len(ps) : h.pool[i] = IF i = d THEN new ELSE ps[i]
    BY <2>1, <2>3, <2>5, ExceptSeq
  <2>7. QED  BY <1>1, <2>1, <2>3, <2>5, <2>6
<1>2. CASE Len(as) # 1 /\ ~Directive(as)
  <2>1. h = [ok |-> TRUE, pool |-> ps]  BY <1>2 DEF Handler
  <2>2. h.pool = ps  BY <2>1
  <2>3. QED  BY <1>2, <2>2
<1>3. CASE Len(as) # 1 /\ Directive(as)
  <2> DEFINE k == as[Len(as) - 1]
             v == Last(as)
  <2>1. d > 0 /\ ps[d] # Raw /\ d \in 1 .. Len(ps)  BY <1>0, <1>3 DEF HandlerDefined
  <2>2. k \in Strings \cup Numbers  BY <1>3 DEF Directive
  <2>3. v \in DOMAIN Rank
    <3>1. Len(as) \in 1 .. Len(as)  BY <1>0, Zenon
    <3>2. as[Len(as)] \in DOMAIN Rank \ {None}  BY <3>1, ElementOfSeq, Zenon
    <3>3. QED  BY <3>2 DEF Last
  <2>4. CASE ~MaySet(ps[d], k, v)
    <3>1. h = [ok |-> FALSE, pool |-> ps]  BY <1>3, <2>4 DEF Handler
    <3>2. h.pool = ps  BY <3>1
    <3>3. QED  BY <1>3, <3>2
  <2>5. CASE MaySet(ps[d], k, v)
    <3> DEFINE new == [ps[d] EXCEPT ![k] = SetTo(k, v)]
    <3>1. h = [ok |-> TRUE, pool |-> [ps EXCEPT ![d] = new]]
      BY <1>3, <2>5 DEF Handler
    <3> HIDE DEF k, v
    <3>2. ps[d] \in PoolType  BY <2>1
    <3>3. new \in PoolType /\ new # Raw /\ new["name"] = ps[d]["name"]
      BY <2>1, <2>2, <2>3, <3>2, SetPoolFacts
    <3> HIDE DEF new
    <3>4. h.pool = [ps EXCEPT ![d] = new]  BY <3>1
    <3>5. /\ h.pool \in Seq(PoolType) /\ Len(h.pool) = Len(ps)
          /\ \A i \in 1 .. Len(ps) : h.pool[i] = IF i = d THEN new ELSE ps[i]
      BY <2>1, <3>3, <3>4, ExceptSeq
    <3>6. QED  BY <1>3, <3>3, <3>5
  <2>6. QED  BY <2>4, <2>5
<1>4. QED  BY <1>1, <1>2, <1>3

(* conf_handler without memory: every pool there was is still there, and the
   one it was called for is initialised. *)
Remains(q, ps, as, d) ==
  /\ q \in Seq(PoolType) /\ Len(q) = Len(ps)
  /\ \A i \in 1 .. Len(ps) : ps[i] # Raw => q[i] # Raw
  /\ Len(as) = 1 => q[d] # Raw

LEMMA UncopiedFacts ==
  ASSUME NEW ps, NEW as, NEW d, MayHandle(ps, as, d), NEW q \in Uncopied(ps, as, d)
  PROVE  Remains(q, ps, as, d)
<1>1. CASE Len(as) = 1
  <2>1. Len(ps) \in Nat  BY LenProperties DEF MayHandle
  <2>2. d \in 1 .. Len(ps)  BY <1>1, <2>1 DEF MayHandle, HandlerDefined
  <2>3. PICK left \in MaxSlotsLeft : q = [ps EXCEPT ![d] = NewPool(None, left)]
    BY <1>1 DEF Uncopied
  <2> DEFINE new == NewPool(None, left)
  <2>4. new \in PoolType /\ new # Raw  BY RankAssumption, NewPoolFacts
  <2>5. q = [ps EXCEPT ![d] = new]  BY <2>3
  <2> HIDE DEF new
  <2>6. /\ q \in Seq(PoolType) /\ Len(q) = Len(ps)
        /\ \A i \in 1 .. Len(ps) : q[i] = IF i = d THEN new ELSE ps[i]
    BY <2>2, <2>4, <2>5, ExceptSeq DEF MayHandle
  <2>7. QED  BY <2>2, <2>4, <2>6 DEF Remains
<1>2. CASE Len(as) # 1
  <2>1. q = ps  BY <1>2 DEF Uncopied
  <2>2. QED  BY <1>2, <2>1 DEF Remains, MayHandle
<1>3. QED  BY <1>1, <1>2

LEMMA PoolScalarKeeps ==
  ASSUME ConfInv, PoolScalar
  PROVE  ConfInv'
<1>1. /\ pc = "parse" /\ AtScalar /\ Event.value # None /\ IsPool /\ Types
      /\ depth \in Nat /\ depth >= 1 /\ seq \in BOOLEAN
      /\ pool \in Seq(PoolType)
  BY DEF PoolScalar, AtScalar, ConfInv, Types
<1> DEFINE ps == Append(pool, Raw)
           d == Len(pool) + 1
<1>2. /\ arg' = Pushed /\ data' = d /\ HandlerDefined(ps, Pushed, d)
      /\ \E left \in MaxSlotsLeft :
           /\ pool' = Handler(ps, Pushed, d, left).pool
           /\ pc' = IF Handler(ps, Pushed, d, left).ok THEN pc ELSE "destroy"
      /\ depth' = depth /\ seq' = seq /\ pos' = pos + 1 /\ UNCHANGED call
      /\ UNCHANGED check /\ UNCHANGED validParser
  BY DEF PoolScalar, Handle
<1>3. /\ Pushed \in Seq(DOMAIN Rank \ {None}) /\ Len(Pushed) = Len(arg) + 1
      /\ \A i \in 1 .. Len(arg) : Pushed[i] = arg[i]
      /\ pos <= Len(file.events) /\ Len(arg) \in Nat
  BY <1>1, PushedFacts, ArgFacts
<1>4. /\ ps \in Seq(PoolType) /\ Len(ps) = d /\ d \in Nat \ {0}
      /\ \A i \in 1 .. Len(pool) : ps[i] = pool[i]
  <2>1. Raw \in PoolType  BY DEF PoolType
  <2>2. Len(pool) \in Nat  BY <1>1, LenProperties, Zenon
  <2>3. QED  BY <1>1, <2>1, <2>2, AppendFacts
<1>5. PICK left \in MaxSlotsLeft :
        /\ pool' = Handler(ps, Pushed, d, left).pool
        /\ pc' = IF Handler(ps, Pushed, d, left).ok THEN pc ELSE "destroy"
  BY <1>2
<1> DEFINE h == Handler(ps, Pushed, d, left)
<1> HIDE DEF ps, d
<1>6. Len(Pushed) # 0 /\ d \in 0 .. Len(ps)  BY <1>3, <1>4
<1>7. /\ h.pool \in Seq(PoolType) /\ Len(h.pool) = Len(ps)
      /\ \A i \in 1 .. Len(ps) : ps[i] # Raw => h.pool[i] # Raw
      /\ Len(Pushed) = 1 => /\ h.ok = TRUE /\ d > 0
                            /\ h.pool[d] # Raw /\ h.pool[d]["name"] = Pushed[1]
                            /\ \A i \in 1 .. Len(ps) : i # d => h.pool[i] = ps[i]
  <2>1. h = Handler(ps, Pushed, d, left)  OBVIOUS
  <2> HIDE DEF h
  <2>2. MayHandle(ps, Pushed, d)  BY <1>2, <1>3, <1>4, <1>6 DEF MayHandle
  <2>3. Handled(h, ps, Pushed, d)  BY <2>1, <2>2, HandlerFacts
  <2>4. QED  BY <2>3 DEF Handled
<1> HIDE DEF h
<1>8. pool' = h.pool /\ pc' \in {"parse", "destroy"}  BY <1>1, <1>5 DEF h
<1>9. pool' \in Seq(PoolType) /\ Len(pool') = d /\ data' \in 0 .. Len(pool')
  BY <1>2, <1>4, <1>7, <1>8
<1>10. ASSUME Trusted(file, multilevel)
       PROVE  NoRaw' /\ (pc' = "parse" => Aligned')
  <2>1. Aligned /\ NoRaw  BY <1>1, <1>10, ScalarTurn
  <2>2. At' = Nest[pos + 1]  BY <1>2, Undisturbed DEF At
  <2>3. At = <<EvenMap>> /\ At' = <<OddMap>>
    <3>1. depth = 1 /\ seq = FALSE  BY <1>1 DEF IsPool, ROOT_DEPTH
    <3>2. /\ At # <<EvenMap, EvenMap>> /\ At # <<EvenMap, OddMap>>
          /\ At # <<EvenMap, EvenMap, InSeq>>
      BY <2>1, <3>1, AlignedAt DEF Stacked
    <3>3. QED  BY <1>1, <1>10, <2>2, <3>2, ScalarTurn
  <2>4. depth = 1 /\ seq = FALSE /\ Len(arg) = 0  BY <2>1, <2>3, AlignedAt DEF Stacked
  <2>5. Len(Pushed) = 1  BY <1>3, <2>4
  <2>6. NoRaw'
    <3>1. ASSUME NEW i \in 1 .. d
          PROVE  h.pool[i] # Raw
      <4>1. CASE i = d  BY <1>7, <2>5, <4>1
      <4>2. CASE i # d
        <5>1. i \in 1 .. Len(pool)  BY <1>1, <1>4, <4>2, LenProperties DEF d
        <5>2. ps[i] # Raw  BY <1>1, <1>4, <2>1, <5>1 DEF NoRaw
        <5>3. QED  BY <1>4, <1>7, <5>2
      <4>3. QED  BY <4>1, <4>2
    <3>2. DOMAIN pool' = 1 .. d  BY <1>9
    <3>3. QED  BY <1>8, <3>1, <3>2 DEF NoRaw
  <2>7. Len(arg') = 1 /\ data' = Len(pool') /\ data' # 0 /\ pool'[data']["name"] = arg'[1]
    BY <1>2, <1>4, <1>7, <1>8, <1>9, <2>5
  <2>8. Aligned'  BY <1>2, <2>3, <2>4, <2>7 DEF Aligned, Stacked, Named
  <2>9. QED  BY <2>6, <2>8
<1>11. QED  BY <1>1, <1>2, <1>3, <1>8, <1>9, <1>10, ParserKeeps

LEMMA PoolScalarFailsKeeps ==
  ASSUME ConfInv, PoolScalarFails
  PROVE  ConfInv'
<1>1. /\ pc = "parse" /\ AtScalar /\ Event.value # None /\ IsPool /\ Types
      /\ depth \in Nat /\ depth >= 1 /\ seq \in BOOLEAN
      /\ pool \in Seq(PoolType) /\ Len(pool) \in Nat
  BY LenProperties DEF PoolScalarFails, AtScalar, ConfInv, Types
<1> DEFINE ps == Append(pool, Raw)
           d == Len(pool) + 1
<1>2. /\ arg' = Pushed /\ pc' = "failed" /\ pos' = pos + 1
      /\ depth' = depth /\ seq' = seq /\ UNCHANGED call
      /\ UNCHANGED check /\ UNCHANGED validParser
  BY DEF PoolScalarFails, HandleFails
<1>3. /\ Pushed \in Seq(DOMAIN Rank \ {None}) /\ Len(Pushed) = Len(arg) + 1
      /\ pos <= Len(file.events) /\ Len(arg) \in Nat
  BY <1>1, PushedFacts, ArgFacts
<1>4. CASE data' = 0 /\ pool' = pool
  <2>1. pool' \in Seq(PoolType) /\ data' \in 0 .. Len(pool')  BY <1>1, <1>4
  <2>2. Trusted(file, multilevel) => NoRaw'  BY <1>1, <1>4, ScalarTurn DEF NoRaw
  <2>3. QED  BY <1>1, <1>2, <1>3, <2>1, <2>2, ParserKeeps
<1>5. CASE /\ data' = d /\ HandlerDefined(ps, Pushed, d)
           /\ pool' \in Uncopied(ps, Pushed, d)
  <2>1. ps \in Seq(PoolType) /\ Len(ps) = d /\ \A i \in 1 .. Len(pool) : ps[i] = pool[i]
    <3>1. Raw \in PoolType  BY DEF PoolType
    <3>2. QED  BY <1>1, <3>1, AppendFacts
  <2> HIDE DEF ps
  <2>2. Len(Pushed) # 0 /\ d \in 0 .. Len(ps) /\ d \in 1 .. Len(ps)  BY <1>1, <1>3, <2>1
  <2>3. MayHandle(ps, Pushed, d)  BY <1>3, <1>5, <2>1, <2>2 DEF MayHandle
  <2>4. Remains(pool', ps, Pushed, d)  BY <1>5, <2>3, UncopiedFacts
  <2>5. pool' \in Seq(PoolType) /\ Len(pool') = d  BY <2>1, <2>4 DEF Remains
  <2>6. data' \in 0 .. Len(pool')  BY <1>1, <1>5, <2>5
  <2>7. ASSUME Trusted(file, multilevel)
        PROVE  NoRaw'
    <3>1. Aligned /\ NoRaw  BY <1>1, <2>7, ScalarTurn
    <3>2. depth = 1 /\ seq = FALSE  BY <1>1 DEF IsPool, ROOT_DEPTH
    <3>3. At = <<EvenMap>>
      <4>1. /\ At # <<EvenMap, EvenMap>> /\ At # <<EvenMap, OddMap>>
            /\ At # <<EvenMap, EvenMap, InSeq>>
        BY <3>1, <3>2, AlignedAt DEF Stacked
      <4>2. QED  BY <1>1, <2>7, <4>1, ScalarTurn
    <3>4. Len(Pushed) = 1
      <4>1. Len(arg) = 0  BY <3>1, <3>3, AlignedAt DEF Stacked
      <4>2. QED  BY <1>3, <4>1
    <3>5. ASSUME NEW i \in 1 .. d
          PROVE  pool'[i] # Raw
      <4>1. CASE i = d  BY <2>4, <3>4, <4>1 DEF Remains
      <4>2. CASE i # d
        <5>1. i \in 1 .. Len(pool) /\ DOMAIN pool = 1 .. Len(pool)  BY <1>1, <4>2, LenProperties
        <5>2. ps[i] # Raw /\ i \in 1 .. Len(ps)  BY <1>1, <2>1, <3>1, <5>1 DEF NoRaw
        <5>3. QED  BY <2>4, <5>2 DEF Remains
      <4>3. QED  BY <4>1, <4>2
    <3>6. DOMAIN pool' = 1 .. d  BY <2>5, LenProperties
    <3>7. QED  BY <3>5, <3>6 DEF NoRaw
  <2>8. QED  BY <1>1, <1>2, <1>3, <2>5, <2>6, <2>7, ParserKeeps
<1>6. QED  BY <1>4, <1>5 DEF PoolScalarFails, HandleFails

LEMMA LeafScalarKeeps ==
  ASSUME ConfInv, LeafScalar
  PROVE  ConfInv'
<1>1. /\ pc = "parse" /\ AtScalar /\ Event.value # None /\ IsLeaf /\ Types
      /\ depth \in Nat /\ depth >= 1 /\ seq \in BOOLEAN
      /\ arg \in Seq(DOMAIN Rank \ {None}) /\ pool \in Seq(PoolType)
      /\ data \in 0 .. Len(pool) /\ Len(pool) \in Nat
  BY DEF LeafScalar, AtScalar, ConfInv, Types
<1>2. /\ arg' = (IF seq THEN arg ELSE Front(arg)) /\ data' = data
      /\ HandlerDefined(pool, Pushed, data)
      /\ \E left \in MaxSlotsLeft :
           /\ pool' = Handler(pool, Pushed, data, left).pool
           /\ pc' = IF Handler(pool, Pushed, data, left).ok THEN pc ELSE "destroy"
      /\ depth' = depth /\ seq' = seq /\ pos' = pos + 1 /\ UNCHANGED call
      /\ UNCHANGED check /\ UNCHANGED validParser
  BY DEF LeafScalar, Handle
<1>3. /\ Pushed \in Seq(DOMAIN Rank \ {None}) /\ Len(Pushed) = Len(arg) + 1
      /\ pos <= Len(file.events) /\ Len(arg) \in Nat
  BY <1>1, PushedFacts, ArgFacts
<1>4. arg' \in Seq(DOMAIN Rank \ {None})
  <2>1. CASE seq  BY <1>1, <1>2, <2>1
  <2>2. CASE ~seq
    <3>1. Len(Pushed) = depth + 1  BY <1>1, <2>2 DEF IsLeaf
    <3>2. arg # <<>>  BY <1>1, <1>3, <3>1, ArgFacts
    <3>3. QED  BY <1>1, <1>2, <2>2, <3>2, ArgFacts
  <2>3. QED  BY <2>1, <2>2
<1>5. PICK left \in MaxSlotsLeft :
        /\ pool' = Handler(pool, Pushed, data, left).pool
        /\ pc' = IF Handler(pool, Pushed, data, left).ok THEN pc ELSE "destroy"
  BY <1>2
<1> DEFINE h == Handler(pool, Pushed, data, left)
<1>6. Len(Pushed) # 0  BY <1>3
<1>7. /\ h.pool \in Seq(PoolType) /\ Len(h.pool) = Len(pool)
      /\ \A i \in 1 .. Len(pool) : pool[i] # Raw => h.pool[i] # Raw
      /\ Len(Pushed) # 1 => \A i \in 1 .. Len(pool) :
                              pool[i] # Raw => h.pool[i]["name"] = pool[i]["name"]
  <2>1. h = Handler(pool, Pushed, data, left)  OBVIOUS
  <2> HIDE DEF h
  <2>2. MayHandle(pool, Pushed, data)  BY <1>1, <1>2, <1>3, <1>6 DEF MayHandle
  <2>3. Handled(h, pool, Pushed, data)  BY <2>1, <2>2, HandlerFacts
  <2>4. QED  BY <2>3 DEF Handled
<1> HIDE DEF h
<1>8. pool' = h.pool /\ pc' \in {"parse", "destroy"}  BY <1>1, <1>5 DEF h
<1>9. pool' \in Seq(PoolType) /\ data' \in 0 .. Len(pool')  BY <1>1, <1>2, <1>7, <1>8
<1>10. ASSUME Trusted(file, multilevel)
       PROVE  NoRaw' /\ (pc' = "parse" => Aligned')
  <2>1. Aligned /\ NoRaw  BY <1>1, <1>10, ScalarTurn
  <2>2. At' = Nest[pos + 1]  BY <1>2, Undisturbed DEF At
  <2>3. NoRaw'
    <3>1. DOMAIN pool' = 1 .. Len(pool) /\ DOMAIN pool = 1 .. Len(pool)
      BY <1>1, <1>7, <1>8
    <3>2. QED  BY <1>7, <1>8, <2>1, <3>1 DEF NoRaw
  <2>4. At # <<EvenMap>>  BY <1>1, <2>1, AlignedAt DEF Stacked, IsLeaf, ROOT_DEPTH
  <2>5. At # <<EvenMap, EvenMap>>
    <3>1. SUFFICES ASSUME At = <<EvenMap, EvenMap>>
                   PROVE  FALSE
      OBVIOUS
    <3>2. depth = 2 /\ Len(arg) = 1 /\ seq = FALSE  BY <2>1, <3>1, AlignedAt DEF Stacked
    <3>3. Len(Pushed) = depth + 1  BY <1>1, <3>2 DEF IsLeaf
    <3>4. Len(Pushed) = Len(arg) + 1  BY <1>3
    <3>5. Len(Pushed) = 3 /\ Len(Pushed) = 2  BY <3>2, <3>3, <3>4
    <3>6. QED  BY <3>5
  <2>6. ASSUME Len(arg) = 2, Named
        PROVE  data' = Len(pool') /\ data' # 0 /\ pool'[data']["name"] = arg[1]
    <3>1. data \in 1 .. Len(pool) /\ data = Len(pool) /\ pool[data]["name"] = arg[1]
      BY <1>1, <2>6 DEF Named
    <3>2. pool[data] # Raw  BY <1>1, <2>1, <3>1 DEF NoRaw
    <3>3. Len(Pushed) # 1  BY <1>3, <2>6
    <3>4. h.pool[data]["name"] = pool[data]["name"]  BY <1>7, <3>1, <3>2, <3>3
    <3>5. QED  BY <1>2, <1>7, <1>8, <3>1, <3>4
  <2>7. CASE At = <<EvenMap, OddMap>> /\ Nest[pos + 1] = <<EvenMap, EvenMap>>
    <3>1. depth = 2 /\ seq = FALSE /\ Len(arg) = 2 /\ Named
      BY <2>1, <2>7, AlignedAt DEF Stacked
    <3>2. Len(arg') = 1 /\ arg'[1] = arg[1]  BY <1>1, <1>2, <3>1, ArgFacts
    <3>3. Stacked(2, FALSE, 1)'  BY <1>2, <2>6, <3>1, <3>2 DEF Stacked, Named
    <3>4. QED  BY <2>2, <2>3, <2>7, <3>3 DEF Aligned
  <2>8. CASE /\ At = <<EvenMap, EvenMap, InSeq>>
             /\ Nest[pos + 1] = <<EvenMap, EvenMap, InSeq>>
    <3>1. depth = 2 /\ seq = TRUE /\ Len(arg) = 2 /\ Named
      BY <2>1, <2>8, AlignedAt DEF Stacked
    <3>2. arg' = arg  BY <1>2, <3>1
    <3>3. Stacked(2, TRUE, 2)'  BY <1>2, <2>6, <3>1, <3>2 DEF Stacked, Named
    <3>4. QED  BY <2>2, <2>3, <2>8, <3>3 DEF Aligned
  <2>9. QED  BY <1>1, <1>10, <2>4, <2>5, <2>7, <2>8, ScalarTurn
<1>11. QED  BY <1>1, <1>2, <1>3, <1>4, <1>8, <1>9, <1>10, ParserKeeps

LEMMA LeafScalarFailsKeeps ==
  ASSUME ConfInv, LeafScalarFails
  PROVE  ConfInv'
<1>1. /\ pc = "parse" /\ AtScalar /\ Event.value # None /\ IsLeaf /\ Types
      /\ depth \in Nat /\ depth >= 1 /\ seq \in BOOLEAN
      /\ arg \in Seq(DOMAIN Rank \ {None}) /\ pool \in Seq(PoolType)
      /\ data \in 0 .. Len(pool) /\ Len(pool) \in Nat
  BY DEF LeafScalarFails, AtScalar, ConfInv, Types
<1>2. /\ arg' = (IF seq THEN arg ELSE Front(arg)) /\ data' = data
      /\ HandlerDefined(pool, Pushed, data) /\ pool' \in Uncopied(pool, Pushed, data)
      /\ pc' = "failed" /\ pos' = pos + 1 /\ depth' = depth /\ seq' = seq
      /\ UNCHANGED call /\ UNCHANGED check /\ UNCHANGED validParser
  BY DEF LeafScalarFails, HandleFails
<1>3. /\ Pushed \in Seq(DOMAIN Rank \ {None}) /\ Len(Pushed) = Len(arg) + 1
      /\ pos <= Len(file.events) /\ Len(arg) \in Nat
  BY <1>1, PushedFacts, ArgFacts
<1>4. arg' \in Seq(DOMAIN Rank \ {None})
  <2>1. CASE seq  BY <1>1, <1>2, <2>1
  <2>2. CASE ~seq
    <3>1. Len(Pushed) = depth + 1  BY <1>1, <2>2 DEF IsLeaf
    <3>2. arg # <<>>  BY <1>1, <1>3, <3>1, ArgFacts
    <3>3. QED  BY <1>1, <1>2, <2>2, <3>2, ArgFacts
  <2>3. QED  BY <2>1, <2>2
<1>5. Remains(pool', pool, Pushed, data)
  <2>1. MayHandle(pool, Pushed, data)  BY <1>1, <1>2, <1>3 DEF MayHandle
  <2>2. QED  BY <1>2, <2>1, UncopiedFacts
<1>6. pool' \in Seq(PoolType) /\ data' \in 0 .. Len(pool')  BY <1>1, <1>2, <1>5 DEF Remains
<1>7. ASSUME Trusted(file, multilevel)
      PROVE  NoRaw'
  <2>1. NoRaw  BY <1>1, <1>7, ScalarTurn
  <2>2. DOMAIN pool' = 1 .. Len(pool) /\ DOMAIN pool = 1 .. Len(pool)
    BY <1>1, <1>5, LenProperties DEF Remains
  <2>3. QED  BY <1>5, <2>1, <2>2 DEF NoRaw, Remains
<1>8. QED  BY <1>1, <1>2, <1>3, <1>4, <1>6, <1>7, ParserKeeps

-----------------------------------------------------------------------------
(* The comparison of the pools *)

Ready(ps) == ps \in Seq(PoolType) /\ \A i \in 1 .. Len(ps) : ps[i] # Raw

LEMMA DefaultFacts ==
  ASSUME NEW p \in PoolType, p # Raw
  PROVE  Default(p) \in PoolType /\ Default(p) # Raw
<1>1. p \in [Fields -> Values] /\ p["name"] \in DOMAIN Rank  BY DEF PoolType
<1>2. {-1, 512, 5432} \subseteq Values  BY DEF Values
<1>3. /\ "timeout" \in Fields \ {"name"} /\ "backlog" \in Fields \ {"name"}
      /\ "port" \in Fields \ {"name"} /\ "name" \in Fields
  BY DEF Fields, Strings, Numbers
<1>4. Default(p) \in [Fields -> Values] /\ Default(p)["name"] = p["name"]
  BY <1>1, <1>2, <1>3 DEF Default
<1>5. QED  BY <1>1, <1>4, RawAssumption DEF PoolType

LEMMA EachDefault ==
  ASSUME NEW ps, Ready(ps)
  PROVE  Ready(Each(ps, Default)) /\ Len(Each(ps, Default)) = Len(ps)
<1>1. DOMAIN ps = 1 .. Len(ps) /\ Len(ps) \in Nat  BY LenProperties DEF Ready
<1> DEFINE q == Each(ps, Default)
<1>2. q = [i \in 1 .. Len(ps) |-> Default(ps[i])]  BY <1>1 DEF Each
<1>3. \A i \in 1 .. Len(ps) : Default(ps[i]) \in PoolType /\ Default(ps[i]) # Raw
  BY DefaultFacts DEF Ready
<1> HIDE DEF q
<1>4. q \in Seq(PoolType) /\ Len(q) = Len(ps)  BY <1>1, <1>2, <1>3
<1>5. \A i \in 1 .. Len(q) : q[i] # Raw  BY <1>2, <1>3, <1>4
<1>6. QED  BY <1>4, <1>5 DEF Ready, q

(* qsort only moves pools about, and leaves neighbours in order. *)
LEMMA SortedFacts ==
  ASSUME NEW ps, Ready(ps), NEW f, NEW q \in Sorted(ps, f)
  PROVE  /\ Ready(q) /\ Len(q) = Len(ps)
         /\ \A i \in 1 .. Len(q) - 1 : Rank[q[i][f]] <= Rank[q[i + 1][f]]
<1>1. DOMAIN ps = 1 .. Len(ps) /\ Len(ps) \in Nat  BY LenProperties DEF Ready
<1>2. PICK o \in [1 .. Len(ps) -> 1 .. Len(ps)] : q = [i \in 1 .. Len(ps) |-> ps[o[i]]]
  BY <1>1 DEF Sorted
<1>3. \A i \in 1 .. Len(ps) - 1 : Rank[q[i][f]] <= Rank[q[i + 1][f]]  BY DEF Sorted
<1>4. \A i \in 1 .. Len(ps) : ps[o[i]] \in PoolType /\ ps[o[i]] # Raw
  BY <1>2 DEF Ready
<1>5. q \in Seq(PoolType) /\ Len(q) = Len(ps)  BY <1>1, <1>2, <1>4
<1>6. \A i \in 1 .. Len(q) : q[i] # Raw  BY <1>2, <1>4, <1>5
<1>7. QED  BY <1>3, <1>5, <1>6 DEF Ready

LEMMA LeastNatural ==
  ASSUME NEW S \in SUBSET Nat, S # {}
  PROVE  \E n \in S : \A m \in S : n <= m
<1>1. PICK n \in S : \A m \in S : ~(<<m, n>> \in OpToRel(<, Nat))
  BY NatLessThanWellFounded, WFMin
<1>2. \A m \in S : ~(m < n)  BY <1>1 DEF OpToRel
<1>3. QED  BY <1>2

(* Where each number is below the next, it is below all that follow. *)
LEMMA Ascending ==
  ASSUME NEW n \in Nat, NEW r \in [1 .. n -> Nat],
         \A i \in 1 .. n - 1 : r[i] < r[i + 1],
         NEW i \in 1 .. n, NEW j \in 1 .. n, i < j
  PROVE  r[i] < r[j]
<1> DEFINE S == {k \in 1 .. n : i < k /\ ~(r[i] < r[k])}
<1>1. SUFFICES ASSUME S # {}
               PROVE  FALSE
  OBVIOUS
<1>2. PICK k \in S : \A m \in S : k <= m
  <2>1. S \in SUBSET Nat  OBVIOUS
  <2> HIDE DEF S
  <2>2. QED  BY <1>1, <2>1, LeastNatural
<1>3. k \in 1 .. n /\ i < k /\ ~(r[i] < r[k])  BY <1>2
<1>4. k - 1 \in 1 .. n - 1 /\ (k - 1) + 1 = k /\ k - 1 \in 1 .. n  BY <1>3
<1>5. r[k - 1] < r[k]  BY <1>4
<1>6. k - 1 \notin S  BY <1>2, <1>4
<1>7. i = k - 1 \/ r[i] < r[k - 1]  BY <1>3, <1>4, <1>6
<1>8. r[i] \in Nat /\ r[k] \in Nat /\ r[k - 1] \in Nat  BY <1>3, <1>4
<1>9. QED  BY <1>3, <1>5, <1>7, <1>8

(* Comparing neighbours is enough, for string_compare tells names apart. *)
LEMMA NamesDiffer ==
  ASSUME NEW ps, Ready(ps), NEW q \in Sorted(ps, "name"), ~NameClash(q)
  PROVE  \A i, j \in 1 .. Len(q) : i # j => q[i]["name"] # q[j]["name"]
<1>1. /\ Ready(q) /\ Len(q) \in Nat
      /\ \A i \in 1 .. Len(q) - 1 : Rank[q[i]["name"]] <= Rank[q[i + 1]["name"]]
  BY SortedFacts DEF Ready
<1>2. \A i \in 1 .. Len(q) : q[i]["name"] \in DOMAIN Rank
  BY <1>1 DEF Ready, PoolType
<1> DEFINE n == Len(q)
           r == [i \in 1 .. n |-> Rank[q[i]["name"]]]
<1>3. n \in Nat /\ r \in [1 .. n -> Nat]  BY <1>1, <1>2, RankAssumption
<1>4. ASSUME NEW i \in 1 .. n - 1
      PROVE  r[i] < r[i + 1]
  <2>1. i \in 1 .. n /\ i + 1 \in 1 .. n  BY <1>3
  <2>2. q[i]["name"] # q[i + 1]["name"]  BY DEF NameClash
  <2>3. Rank[q[i]["name"]] # Rank[q[i + 1]["name"]]
    BY <1>2, <2>1, <2>2, RankAssumption
  <2>4. r[i] # r[i + 1] /\ r[i] <= r[i + 1]  BY <1>1, <2>1, <2>3
  <2> HIDE DEF r
  <2>5. r[i] \in Nat /\ r[i + 1] \in Nat  BY <1>3, <2>1
  <2>6. QED  BY <2>4, <2>5
<1>5. ASSUME NEW i \in 1 .. n, NEW j \in 1 .. n, i < j
      PROVE  q[i]["name"] # q[j]["name"]
  <2>1. r[i] < r[j]
    <3> HIDE DEF n, r
    <3>1. QED  BY <1>3, <1>4, <1>5, Ascending
  <2>2. r[i] # r[j]
    <3>1. r[i] \in Nat /\ r[j] \in Nat  BY <1>3
    <3> HIDE DEF n, r
    <3>2. QED  BY <2>1, <3>1
  <2>3. QED  BY <2>2
<1>6. ASSUME NEW i \in 1 .. n, NEW j \in 1 .. n, i # j
      PROVE  q[i]["name"] # q[j]["name"]
  <2>1. i < j \/ j < i  BY <1>3, <1>6
  <2>2. QED  BY <1>5, <2>1
<1>7. QED  BY <1>6

LEMMA PostValidateKeeps ==
  ASSUME ConfInv, PostValidate
  PROVE  ConfInv'
<1>1. /\ Types /\ pool \in Seq(PoolType) /\ data \in 0 .. Len(pool)
      /\ arg \in Seq(DOMAIN Rank \ {None}) /\ validParser \in BOOLEAN
  BY DEF ConfInv, Types
<1>2. /\ \A i \in DOMAIN pool : pool[i] # Raw
      /\ UNCHANGED call /\ pos' = pos /\ check' = check /\ depth' = depth /\ seq' = seq
      /\ arg' = arg /\ data' = data /\ validParser' = validParser
  BY DEF PostValidate
<1>3. Ready(pool)  BY <1>1, <1>2 DEF Ready
<1>4. /\ Ready(pool') /\ Len(pool') = Len(pool) /\ pc' \in {"destroy", "accepted"} /\ Sound'
  <2>1. CASE pool = <<>>
    <3>1. pc' = "destroy" /\ pool' = pool  BY <2>1 DEF PostValidate, Reject
    <3>2. QED  BY <1>3, <3>1 DEF Sound
  <2>2. CASE pool # <<>>
    <3> DEFINE given == Each(pool, Default)
    <3>1. PICK byAddr \in Sorted(given, "addr") :
             IF ListenClash(byAddr) THEN Reject(byAddr)
             ELSE \E byName \in Sorted(byAddr, "name") :
                    IF NameClash(byName) THEN Reject(byName)
                    ELSE pc' = "accepted" /\ pool' = byName
      BY <2>2 DEF PostValidate
    <3>2. Ready(given) /\ Len(given) = Len(pool)  BY <1>3, EachDefault
    <3> HIDE DEF given
    <3>3. Ready(byAddr) /\ Len(byAddr) = Len(pool)  BY <3>2, SortedFacts
    <3>4. CASE ListenClash(byAddr)
      <4>1. pc' = "destroy" /\ pool' = byAddr  BY <3>1, <3>4 DEF Reject
      <4>2. QED  BY <3>3, <4>1 DEF Sound
    <3>5. CASE ~ListenClash(byAddr)
      <4>1. PICK byName \in Sorted(byAddr, "name") :
               IF NameClash(byName) THEN Reject(byName)
               ELSE pc' = "accepted" /\ pool' = byName
        BY <3>1, <3>5
      <4>2. Ready(byName) /\ Len(byName) = Len(pool)  BY <3>3, SortedFacts
      <4>3. CASE NameClash(byName)
        <5>1. pc' = "destroy" /\ pool' = byName  BY <4>1, <4>3 DEF Reject
        <5>2. QED  BY <4>2, <5>1 DEF Sound
      <4>4. CASE ~NameClash(byName)
        <5>1. pc' = "accepted" /\ pool' = byName  BY <4>1, <4>4
        <5>2. \A i, j \in 1 .. Len(byName) : i # j => byName[i]["name"] # byName[j]["name"]
          BY <3>3, <4>4, NamesDiffer
        <5>3. DOMAIN byName = 1 .. Len(byName)  BY <4>2, LenProperties DEF Ready
        <5>4. Sound'  BY <5>1, <5>2, <5>3 DEF Sound
        <5>5. QED  BY <4>2, <5>1, <5>4
      <4>5. QED  BY <4>3, <4>4
    <3>6. QED  BY <3>4, <3>5
  <2>3. QED  BY <2>1, <2>2
<1>5. NoRaw'
  <2>1. DOMAIN pool' = 1 .. Len(pool')  BY <1>4, LenProperties DEF Ready
  <2>2. QED  BY <1>4, <2>1 DEF NoRaw, Ready
<1>6. pc' \in PCs \ (Early \cup {"parse"})  BY <1>4 DEF PCs, Early
<1>7. pool' \in Seq(PoolType) /\ data' \in 0 .. Len(pool')  BY <1>1, <1>2, <1>4 DEF Ready
<1>8. QED  BY <1>1, <1>2, <1>4, <1>5, <1>6, <1>7, OverKeeps

-----------------------------------------------------------------------------
(* The theorems *)

LEMMA ConfStarts ==
  ASSUME Init
  PROVE  ConfInv
<1>1. /\ pc = "open" /\ pos = 1 /\ check = NoCheck /\ depth = 0 /\ seq = FALSE
      /\ arg = <<>> /\ pool = <<>> /\ data = 0 /\ validParser = FALSE
      /\ \E c \in Calls : file = c.file /\ multilevel = c.multilevel
  BY DEF Init
<1>2. Len(file.events) \in Nat
  <2>1. PICK c \in Calls : file = c.file  BY <1>1
  <2>2. file.events \in Seq(EventType)  BY <2>1, FilesAssumption DEF EventType
  <2>3. QED  BY <2>2
<1>3. NoCheck \in Checks  BY DEF NoCheck, Checks, MAX_DEPTH
<1>4. Types
  <2>1. /\ arg \in Seq(DOMAIN Rank \ {None}) /\ pool \in Seq(PoolType) /\ data \in 0 .. Len(pool)
    BY <1>1
  <2>2. pos \in 1 .. Len(file.events) + 1 /\ pc \in PCs  BY <1>1, <1>2 DEF PCs
  <2>3. QED  BY <1>1, <1>3, <2>1, <2>2 DEF Types
<1>5. StructureInv /\ PassedInv /\ ParseInv /\ Sound
  BY <1>1 DEF StructureInv, PassedInv, ParseInv, NoRaw, Sound
<1>6. QED  BY <1>4, <1>5 DEF ConfInv

LEMMA ConfKeeps ==
  ASSUME ConfInv, [Next]_vars
  PROVE  ConfInv'
<1>1. CASE Open  BY <1>1, OpenKeeps
<1>2. CASE ValidateDocument  BY <1>2, ValidateDocumentKeeps
<1>3. CASE ValidateTokens  BY <1>3, ValidateTokensKeeps
<1>4. CASE ValidateStructure  BY <1>4, ValidateStructureKeeps
<1>5. CASE BeginParse  BY <1>5, BeginParseKeeps
<1>6. CASE MappingEnd  BY <1>6, MappingEndKeeps
<1>7. CASE MappingStart  BY <1>7, MappingStartKeeps
<1>8. CASE SequenceStart  BY <1>8, SequenceStartKeeps
<1>9. CASE SequenceEnd  BY <1>9, SequenceEndKeeps
<1>10. CASE EmptyScalar  BY <1>10, EmptyScalarKeeps
<1>11. CASE KeyScalar  BY <1>11, KeyScalarKeeps
<1>12. CASE PoolScalar  BY <1>12, PoolScalarKeeps
<1>13. CASE LeafScalar  BY <1>13, LeafScalarKeeps
<1>14. CASE EndParse  BY <1>14, LeaveKeeps DEF EndParse
<1>15. CASE PostValidate  BY <1>15, PostValidateKeeps
<1>16. CASE Destroy  BY <1>16, GiveUpKeeps DEF Destroy
<1>17. CASE OpenFails  BY <1>17, OpenFailsKeeps
<1>18. CASE Fail  BY <1>18, FailKeeps
<1>19. CASE Close  BY <1>19, GiveUpKeeps DEF Close
<1>20. CASE UNCHANGED vars  BY <1>20, Stuttering
<1>21. CASE PoolScalarFails  BY <1>21, PoolScalarFailsKeeps
<1>22. CASE LeafScalarFails  BY <1>22, LeafScalarFailsKeeps
<1>23. QED
  BY <1>1, <1>2, <1>3, <1>4, <1>5, <1>6, <1>7, <1>8, <1>9, <1>10, <1>11, <1>12, <1>13,
     <1>14, <1>15, <1>16, <1>17, <1>18, <1>19, <1>20, <1>21, <1>22
  DEF Next, Work

(* Whatever files conf_create is given, as libyaml nests their events, and
   wherever an allocation or a read fails: the structure check has let pass
   the documented shape alone (conf.c:722), and in a file of that shape depth,
   seq and cf->arg say at every event what is open around it (conf.c:341). *)
THEOREM ConfInvariant == Spec => []ConfInv
<1>1. Init => ConfInv  BY ConfStarts
<1>2. ConfInv /\ [Next]_vars => ConfInv'  BY ConfKeeps
<1>3. QED  BY <1>1, <1>2, PTL DEF Spec

(* Every variable holds what conf.c declares it for, count[] and depth of the
   structure check among them (conf.c:722): neither index of count[] leaves the
   array, whatever the file. *)
THEOREM ConfTypesOK == Spec => []TypeOK
<1>1. ConfInv => TypeOK
  <2>1. SUFFICES ASSUME ConfInv
                 PROVE  TypeOK
    OBVIOUS
  <2>2. Types  BY <2>1 DEF ConfInv
  <2>3. /\ check.depth \in 0 .. MAX_DEPTH + 1 /\ check.seq \in BOOLEAN
        /\ check.count \in [0 .. MAX_DEPTH -> Nat]
    BY <2>2 DEF Types, Checks, MAX_DEPTH
  <2>4. \A i \in DOMAIN arg : arg[i] # None
    <3>1. arg \in Seq(DOMAIN Rank \ {None})  BY <2>2 DEF Types
    <3>2. QED  BY <3>1
  <2>5. \A i \in DOMAIN pool : pool[i] = Raw \/ DOMAIN pool[i] = Fields
    <3>1. pool \in Seq(PoolType)  BY <2>2 DEF Types
    <3>2. \A i \in DOMAIN pool : pool[i] \in PoolType  BY <3>1
    <3>3. QED  BY <3>2 DEF PoolType
  <2>6. QED  BY <2>2, <2>3, <2>4, <2>5 DEF Types, TypeOK
<1>2. QED  BY <1>1, ConfInvariant, PTL

(* In a file that passed the structure check the stack says where the parser
   stands, and belongs to the pool last pushed (conf.c:361-456). *)
THEOREM ArgAlignedAlways == Spec => []ArgAligned
<1>1. ConfInv => ArgAligned
  <2>1. SUFFICES ASSUME ConfInv, multilevel, pc = "parse"
                 PROVE  /\ depth \in ROOT_DEPTH .. MAX_DEPTH
                        /\ Len(arg) <= 2
                        /\ depth = MAX_DEPTH => arg # <<>>
                        /\ seq => Len(arg) = 2 /\ depth = MAX_DEPTH
                        /\ arg # <<>> => /\ data = Len(pool) /\ data # 0
                                         /\ pool[data] # Raw /\ pool[data]["name"] = arg[1]
    BY DEF ArgAligned
  <2>2. Aligned /\ NoRaw /\ Types  BY <2>1 DEF ConfInv, ParseInv, Trusted
  <2>3. \/ Stacked(1, FALSE, 0) \/ Stacked(1, FALSE, 1) \/ Stacked(2, FALSE, 1)
        \/ Stacked(2, FALSE, 2) \/ Stacked(2, TRUE, 2)
    BY <2>2 DEF Aligned
  <2>4. /\ depth \in 1 .. 2 /\ Len(arg) \in 0 .. 2 /\ (depth = 2 => Len(arg) # 0)
        /\ (seq => Len(arg) = 2 /\ depth = 2) /\ (Len(arg) # 0 => Named)
    BY <2>3 DEF Stacked
  <2>5. ASSUME arg # <<>>
        PROVE  /\ data = Len(pool) /\ data # 0
               /\ pool[data] # Raw /\ pool[data]["name"] = arg[1]
    <3>1. Named  BY <2>2, <2>4, <2>5, ArgFacts
    <3>2. pool \in Seq(PoolType) /\ data \in 0 .. Len(pool)  BY <2>2 DEF Types
    <3>3. data \in DOMAIN pool  BY <3>1, <3>2 DEF Named
    <3>4. QED  BY <2>2, <3>1, <3>3 DEF Named, NoRaw
  <2>6. QED  BY <2>2, <2>4, <2>5, ArgFacts DEF ROOT_DEPTH, MAX_DEPTH
<1>2. QED  BY <1>1, ConfInvariant, PTL

(* No two pools of an accepted configuration have one name: sorted by an order
   that tells names apart, equal ones would be neighbours (conf.c:1003-1019). *)
THEOREM SoundAlways == Spec => []Sound
BY ConfInvariant, PTL DEF ConfInv

(* Whatever files there are: in one that is written in the documented shape, or
   has its structure checked, or is turned down by the passes before, no step,
   not even after an allocation that failed halfway, pops an empty stack, or
   sets, compares or frees a pool that was never initialised (conf.c:341, 952,
   1076). *)
THEOREM DefinedAlways == Spec => []Defined
<1>1. ConfInv => Defined
  <2>1. SUFFICES ASSUME ConfInv, Undefined, Trusted(file, multilevel)
                 PROVE  FALSE
    BY DEF Defined
  <2>2. Types  BY <2>1 DEF ConfInv
  <2>3. Trusted(file, multilevel)  BY <2>1
  <2>4. NoRaw /\ (pc = "parse" => Aligned)  BY <2>1, <2>3 DEF ConfInv, ParseInv
  <2>5. CASE pc = "parse" /\ Event.type = "map-" /\ depth = 2 /\ arg = <<>>
    BY <2>4, <2>5 DEF Aligned, Stacked
  <2>6. CASE pc = "parse" /\ Event.type = "seq-" /\ arg = <<>>
    <3>1. Turn(At, Event, Nest[pos + 1]) /\ Aligned  BY <2>1, <2>3, <2>6, ParseTurn
    <3>2. At = <<EvenMap, EvenMap, InSeq>>  BY <2>6, <3>1 DEF Turn, Outer
    <3>3. Len(arg) = 2  BY <3>1, <3>2, AlignedAt DEF Stacked
    <3>4. QED  BY <2>6, <3>3
  <2>7. ASSUME AtScalar, Event.value # None, IsLeaf, ~HandlerDefined(pool, Pushed, data)
        PROVE  FALSE
    <3>1. Aligned  BY <2>4, <2>7 DEF AtScalar
    <3>2. /\ Len(Pushed) = Len(arg) + 1 /\ Len(arg) \in Nat
      BY <2>2, <2>7, PushedFacts, ArgFacts
    <3>3. CASE Stacked(1, FALSE, 0)
      BY <2>7, <3>3 DEF Stacked, IsLeaf, ROOT_DEPTH
    <3>4. CASE Named /\ Len(arg) # 0
      <4>1. pool \in Seq(PoolType) /\ data \in 0 .. Len(pool)  BY <2>2 DEF Types
      <4>2. data > 0 /\ data \in DOMAIN pool  BY <3>4, <4>1 DEF Named
      <4>3. pool[data] # Raw  BY <2>4, <4>2 DEF NoRaw
      <4>4. QED  BY <2>7, <4>2, <4>3 DEF HandlerDefined
    <3>5. Stacked(1, FALSE, 0) \/ (Named /\ Len(arg) # 0)  BY <3>1 DEF Aligned, Stacked
    <3>6. QED  BY <3>3, <3>4, <3>5
  <2>8. ASSUME AtScalar, Event.value # None, IsPool,
               ~HandlerDefined(Append(pool, Raw), Pushed, Len(pool) + 1)
        PROVE  FALSE
    <3>1. Aligned  BY <2>4, <2>8 DEF AtScalar
    <3>2. /\ Len(Pushed) = Len(arg) + 1 /\ Len(arg) \in Nat /\ Len(pool) \in Nat
      <4>1. pool \in Seq(PoolType)  BY <2>2 DEF Types
      <4>2. Len(pool) \in Nat  BY <4>1, LenProperties, Zenon
      <4>3. QED  BY <2>2, <2>8, <4>2, PushedFacts, ArgFacts
    <3>3. depth = 1 /\ seq = FALSE  BY <2>2, <2>8 DEF IsPool, ROOT_DEPTH, Types
    <3>4. At = <<EvenMap>>
      <4>1. /\ At # <<EvenMap, EvenMap>> /\ At # <<EvenMap, OddMap>>
            /\ At # <<EvenMap, EvenMap, InSeq>>
        BY <3>1, <3>3, AlignedAt DEF Stacked
      <4>2. QED  BY <2>1, <2>3, <2>8, <4>1, ScalarTurn
    <3>5. Len(arg) = 0  BY <3>1, <3>4, AlignedAt DEF Stacked
    <3>6. QED  BY <2>8, <3>2, <3>5 DEF HandlerDefined
  <2>9. CASE pc \in {"post", "destroy", "failed", "accepted"} /\ RawPool
    BY <2>4, <2>9 DEF RawPool, NoRaw
  <2>10. QED  BY <2>1, <2>5, <2>6, <2>7, <2>8, <2>9 DEF Undefined
<1>2. QED  BY <1>1, ConfInvariant, PTL
=============================================================================
