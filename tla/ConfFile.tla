------------------------------ MODULE ConfFile ------------------------------
(***************************************************************************)
(* What libyaml shows conf.c of a configuration file.  A file is           *)
(*   events  the events yaml_parser_parse produces, first to last          *)
(*   banned  it has a token conf_validate_tokens disallows (flow style,    *)
(*           anchor, alias, tag, directive or document marker)             *)
(*   broken  libyaml itself cannot load it                                 *)
(*   pools   for a file written in the shape the comment of conf.c         *)
(*           describes, what its author meant; <<>> for any other file     *)
(* libyaml is outside the repository; conf.c relies on what is said here.  *)
(***************************************************************************)
EXTENDS Integers, Sequences, SequencesExt

E(t)      == [type |-> t, value |-> ""]
Scalar(s) == [type |-> "scalar", value |-> s]

Mapping(events) == <<E("map+")>> \o events \o <<E("map-")>>
Listed(events) == <<E("seq+")>> \o events \o <<E("seq-")>>
Document(root) == <<E("doc+")>> \o root \o <<E("doc-")>>
Stream(docs)   == <<E("stream+")>> \o docs \o <<E("stream-")>>

(* Past the end of the stream libyaml goes on answering "no event". *)
EventAt(f, pos) == IF pos <= Len(f.events) THEN f.events[pos] ELSE E("none")

DocumentCount(f) == Len(SelectSeq(f.events, LAMBDA e : e.type = "doc+"))

-----------------------------------------------------------------------------
(* The shape conf.c is written for: pools of directives, each with one value
   or a list of them. *)
Line(k, v)     == [key |-> k, vals |-> <<v>>, list |-> FALSE]
Listing(k, vs) == [key |-> k, vals |-> vs, list |-> TRUE]
Pool(n, ls)    == [name |-> n, lines |-> ls]

Each(s, Op(_)) == [i \in DOMAIN s |-> Op(s[i])]

LineEvents(l) ==
  <<Scalar(l.key)>> \o (IF l.list THEN Listed(Each(l.vals, Scalar))
                        ELSE Each(l.vals, Scalar))
PoolEvents(p) ==
  <<Scalar(p.name)>> \o (IF p.lines = <<>> THEN <<Scalar("")>>
                         ELSE Mapping(FlattenSeq(Each(p.lines, LineEvents))))

FileOf(events) == [events |-> Stream(Document(events)), banned |-> FALSE,
                   broken |-> FALSE, pools |-> <<>>]
Written(ps) == [FileOf(Mapping(FlattenSeq(Each(ps, PoolEvents))))
                  EXCEPT !.pools = ps]

(* Files libyaml does not load, or that hold what conf_validate_tokens bans *)
Broken(f) == [f EXCEPT !.broken = TRUE]
Banned(f) == [f EXCEPT !.banned = TRUE]
Twice(f)  == [f EXCEPT !.events = Stream(LET doc == SubSeq(@, 2, Len(@) - 1)
                                         IN doc \o doc)]
Empty     == [FileOf(<<>>) EXCEPT !.events = Stream(<<>>)]

(* The places of a pool's values, by line and by place in it; those at which
   directive d is given one. *)
Places(p)     == UNION {{<<i, j>> : j \in DOMAIN p.lines[i].vals} : i \in DOMAIN p.lines}
KeyAt(p, a)   == p.lines[a[1]].key
ValueAt(p, a) == p.lines[a[1]].vals[a[2]]
Given(p, d)   == {a \in Places(p) : KeyAt(p, a) = d}

-----------------------------------------------------------------------------
(* What is open before each event, outermost first: mappings, with whether a
   key still waits for its value, and sequences. *)
Outer     == {"stream+", "stream-", "doc+", "doc-"}
EvenMap   == [kind |-> "map", odd |-> FALSE]
OddMap    == [kind |-> "map", odd |-> TRUE]
InSeq     == [kind |-> "seq", odd |-> FALSE]
EventTypes == Outer \cup {"map+", "map-", "seq+", "seq-", "scalar"}

(* One more node in the innermost collection. *)
Counted(n) ==
  IF n # <<>> /\ Last(n) = EvenMap THEN Append(Front(n), OddMap)
  ELSE IF n # <<>> /\ Last(n) = OddMap THEN Append(Front(n), EvenMap) ELSE n

After(n, e) == CASE e.type = "scalar" -> Counted(n)
                 [] e.type = "map+" -> Append(Counted(n), EvenMap)
                 [] e.type = "seq+" -> Append(Counted(n), InSeq)
                 [] e.type \in {"map-", "seq-"} -> Front(n)
                 [] OTHER -> n

NestOf(events) ==
  LET nest[i \in 1 .. Len(events) + 1] ==
        IF i = 1 THEN <<>> ELSE After(nest[i - 1], events[i - 1])
  IN  nest

(* What ends is what was opened last, a mapping has a value for every key, and
   documents and the stream begin and end outside of everything. *)
MayFollow(n, e) ==
  /\ e.type = "map-" => n # <<>> /\ Last(n) = EvenMap
  /\ e.type = "seq-" => n # <<>> /\ Last(n) = InSeq
  /\ e.type \in Outer => n = <<>>

Nested(events, nest) ==
  /\ events # <<>> /\ nest[1] = <<>>
  /\ \A i \in DOMAIN events :
       /\ nest[i + 1] = After(nest[i], events[i])
       /\ MayFollow(nest[i], events[i])
       /\ events[i].type = "stream-" <=> i = Len(events)

(* Where each event of a file stands that is written as conf.c demands: a
   mapping of names to mappings of keys to a value or a list of values; a pool
   of no lines is a name and nothing. *)
InShape(n, e) ==
  \/ n = <<>> /\ e.type \in Outer \cup {"map+"}
  \/ n = <<EvenMap>> /\ e.type \in {"scalar", "map-"}
  \/ n = <<OddMap>> /\ (e.type = "map+" \/ e = Scalar(""))
  \/ n = <<EvenMap, EvenMap>> /\ e.type \in {"scalar", "map-"}
  \/ n = <<EvenMap, OddMap>> /\ e.type \in {"scalar", "seq+"}
  \/ n = <<EvenMap, EvenMap, InSeq>> /\ e.type \in {"scalar", "seq-"}
Shaped(f) == LET nest == NestOf(f.events) IN
             \A i \in DOMAIN f.events : InShape(nest[i], f.events[i])

(* How much has been read before each event: pools whose name was, lines of
   the last of them whose key was, and values of the last of those. *)
NothingRead == [pool |-> 0, line |-> 0, value |-> 0]
More(n, e, r) ==
  IF e.type # "scalar" THEN r
  ELSE CASE n = <<EvenMap>> -> [pool |-> r.pool + 1, line |-> 0, value |-> 0]
         [] n = <<EvenMap, EvenMap>> -> [pool |-> r.pool, line |-> r.line + 1, value |-> 0]
         [] n \in {<<EvenMap, OddMap>>, <<EvenMap, EvenMap, InSeq>>} ->
              [pool |-> r.pool, line |-> r.line, value |-> r.value + 1]
         [] OTHER -> r

ReadOf(events) ==
  LET nest == NestOf(events)
      read[i \in 1 .. Len(events) + 1] ==
        IF i = 1 THEN NothingRead ELSE More(nest[i - 1], events[i - 1], read[i - 1])
  IN  read

Counting(events, nest, read) ==
  /\ read[1] = NothingRead
  /\ \A i \in DOMAIN events : read[i + 1] = More(nest[i], events[i], read[i])

(* What comes next in a file in which the pools ps are written. *)
Says(ps, n, r, e) ==
  LET p == ps[r.pool]
      l == p.lines[r.line]
  IN  /\ e.type = "stream-" => r.pool = Len(ps)
      /\ n = <<EvenMap>> => IF e.type = "scalar"
                            THEN r.pool < Len(ps) /\ e.value = ps[r.pool + 1].name
                            ELSE r.pool = Len(ps)
      /\ n = <<OddMap>> => (e.type = "scalar" <=> p.lines = <<>>)
      /\ n = <<EvenMap, EvenMap>> => IF e.type = "scalar"
                            THEN r.line < Len(p.lines) /\ e.value = p.lines[r.line + 1].key
                            ELSE r.line = Len(p.lines)
      /\ n = <<EvenMap, OddMap>> => IF e.type = "scalar"
                            THEN ~l.list /\ l.vals = <<e.value>>
                            ELSE l.list
      /\ n = <<EvenMap, EvenMap, InSeq>> => IF e.type = "scalar"
                            THEN r.value < Len(l.vals) /\ e.value = l.vals[r.value + 1]
                            ELSE r.value = Len(l.vals)

(* The file says what its author meant, and nothing else. *)
Meaning(f, nest, read) ==
  Shaped(f) /\ \A i \in DOMAIN f.events : Says(f.pools, nest[i], read[i], f.events[i])
=============================================================================
