-------------------------------- MODULE Conf --------------------------------
(***************************************************************************)
(* conf.c: how a configuration file becomes an array of pools.             *)
(* conf_create reads the file several times over: conf_validate_document,  *)
(* conf_validate_tokens and, if asked to, conf_validate_structure only     *)
(* look; conf_parse builds the pools with a stack of the scalars read;     *)
(* conf_post_validate sorts and compares them.  pc names the pass, pos the *)
(* next event of it.                                                       *)
(*                                                                         *)
(* The functions of array.c and cstring.c assert what they are given; the  *)
(* ASSERT and NOT_REACHED of util.h expand to nothing.  A state from which *)
(* the code would fail an assertion, follow NULL or read memory that was   *)
(* never set satisfies Undefined and has no successor.                     *)
(***************************************************************************)
EXTENDS ConfFile, FiniteSets

CONSTANTS
  Calls,        \* the files conf_create may be given, each with its second
                \* argument: is the structure checked? (db.c passes FALSE)
  Num,          \* str_atoi: the value of a scalar, -1 when it is no number
  Rank,         \* string_compare: the place of a string, 0 for an unset one
  MaxSlotsLeft, \* what the heap may hold where conf_pool.max_slots will be
  Failures,     \* may malloc or libyaml fail halfway?
  Raw           \* a pool that was pushed but never initialised

Unset == -1   \* CONF_UNSET_NUM
None  == ""   \* a string_init'ed string

Strings == {"addr", "datadir"}
Numbers == {"port", "timeout", "workers", "backlog", "max_slots"}
Fields  == {"name"} \cup Strings \cup Numbers
Values  == DOMAIN Rank \cup Int

ASSUME ModeAssumption == Failures \in BOOLEAN /\ \A c \in Calls : c.multilevel \in BOOLEAN
ASSUME FilesAssumption ==
  \A c \in Calls : /\ c.file.events \in Seq([type : EventTypes, value : DOMAIN Rank])
                   /\ Nested(c.file.events, NestOf(c.file.events))
ASSUME PoolsAssumption ==
  \A c \in Calls :
    LET f    == c.file
        nest == NestOf(f.events)
        read == ReadOf(f.events)
    IN  /\ f.pools \in Seq([name : DOMAIN Rank,
                             lines : Seq([key : DOMAIN Rank, vals : Seq(DOMAIN Rank),
                                          list : BOOLEAN])])
        /\ Counting(f.events, nest, read)
        /\ f.pools # <<>> /\ DocumentCount(f) = 1 => Meaning(f, nest, read)
ASSUME RankAssumption ==
  /\ None \in DOMAIN Rank /\ \A s \in DOMAIN Rank : Rank[s] \in Nat
  /\ \A s, t \in DOMAIN Rank : Rank[s] = Rank[t] => s = t
ASSUME MaxSlotsAssumption == MaxSlotsLeft \subseteq Int /\ MaxSlotsLeft # {}
ASSUME NumAssumption == \A s \in DOMAIN Rank : Num[s] \in Int
ASSUME RawAssumption == Raw \notin [Fields -> Values]

VARIABLES
  file, multilevel, pc, pos,
  check,        \* conf_validate_structure: its depth, count[] and seq
  depth, seq,   \* cf->depth, cf->seq
  arg,          \* cf->arg: the scalars pushed
  pool,         \* cf->pool
  data,         \* conf_parse_core: index of the pool being filled, 0 for NULL
  validParser   \* cf->valid_parser

call    == <<file, multilevel>>
parsing == <<depth, seq, arg, pool, data>>
vars    == <<call, pc, pos, check, parsing, validParser>>

ROOT_DEPTH == 1
MAX_DEPTH  == 2

PCs == {"open", "document", "tokens", "structure", "begin", "parse", "end",
        "post", "destroy", "failed", "accepted", "rejected", "closed"}

Event == EventAt(file, pos)

TypeOK ==
  /\ pc \in PCs /\ pos \in 1 .. Len(file.events) + 1
  /\ check.depth \in 0 .. MAX_DEPTH + 1 /\ check.seq \in BOOLEAN
  /\ check.count \in [0 .. MAX_DEPTH -> Nat]
  /\ depth \in Nat /\ seq \in BOOLEAN /\ validParser \in BOOLEAN
  /\ \A i \in DOMAIN arg : arg[i] # None
  /\ data \in 0 .. Len(pool)
  /\ \A i \in DOMAIN pool :
       pool[i] = Raw \/ DOMAIN pool[i] = Fields

-----------------------------------------------------------------------------
(* Passing from one pass to the next *)

NoCheck == [depth |-> 0, count |-> [d \in 0 .. MAX_DEPTH |-> 0], seq |-> FALSE]

Init ==
  /\ \E c \in Calls : file = c.file /\ multilevel = c.multilevel
  /\ pc = "open" /\ pos = 1 /\ check = NoCheck
  /\ depth = 0 /\ seq = FALSE /\ arg = <<>> /\ pool = <<>> /\ data = 0
  /\ validParser = FALSE

(* conf_yaml_init rewinds the file and makes a parser ... *)
Enter(p) == /\ pc' = p /\ pos' = 1 /\ validParser' = TRUE
            /\ check' = NoCheck
            /\ UNCHANGED <<call, parsing>>
(* ... conf_yaml_deinit gives it up, on the ways out that call it. *)
Leave(p) == /\ pc' = p /\ validParser' = FALSE
            /\ UNCHANGED <<call, pos, check, parsing>>
Step     == pos' = pos + 1 /\ UNCHANGED <<call, pc, validParser>>

Open == pc = "open" /\ Enter("document")
OpenFails == Failures /\ pc = "open" /\ Leave("rejected")

ValidateDocument ==
  /\ pc = "document"
  /\ IF file.broken \/ DocumentCount(file) # 1 THEN Leave("destroy")
     ELSE Enter("tokens")

ValidateTokens ==
  /\ pc = "tokens"
  /\ IF file.banned THEN Leave("destroy")
     ELSE Enter(IF multilevel THEN "structure" ELSE "begin")

(* An event or a scan that fails, or the copy of a scalar (which
   conf_push_scalar then takes off the stack again), leaves the parser behind,
   unless it was conf_yaml_init that failed.  What fails later is in
   PoolScalarFails and LeafScalarFails. *)
Fail == /\ Failures
        /\ pc \in {"document", "tokens", "structure", "begin", "parse", "end"}
        /\ pc' = "failed"
        /\ validParser' \in {(pc # "document"), (pos > 1)}
        /\ UNCHANGED <<call, pos, check, parsing>>

-----------------------------------------------------------------------------
(* conf_validate_structure, one event at a time *)

MappingMisplaced(e) ==
  /\ e.type = "map+"
  /\ check.depth >= MAX_DEPTH \/ (check.depth = ROOT_DEPTH /\ check.count[1] # 1)

PoolWithoutList(e) == /\ e.type = "map-"
                      /\ check.depth = MAX_DEPTH /\ ~check.seq

(* mutant: a list may stand anywhere *)
SecondSequence(e) == e.type = "seq+" /\ check.seq
SequenceMisplaced(e) ==
  /\ e.type = "seq+"
  /\ check.seq \/ check.depth # MAX_DEPTH \/ check.count[check.depth] # 1

(* mutant: no check at the root *)
SecondScalar(e) == e.type = "scalar" /\ check.depth = 1 /\ check.count[1] # 0
ScalarMisplaced(e) ==
  /\ e.type = "scalar"
  /\ check.depth = 0 \/ (check.depth = ROOT_DEPTH /\ check.count[1] # 0)

Misplaced(e) == \/ MappingMisplaced(e) \/ PoolWithoutList(e)
                \/ SequenceMisplaced(e) \/ ScalarMisplaced(e)

(* mutant: a finished "key: value" is not reset *)
CheckedOn(e) ==
  LET d == check.depth IN
  CASE e.type = "map+" -> [check EXCEPT !.depth = d + 1]
    [] e.type = "map-" -> [check EXCEPT !.depth = d - 1, !.count[d - 1] = 0,
                             !.seq = @ /\ d # MAX_DEPTH]
    [] e.type = "seq+" -> [check EXCEPT !.seq = TRUE]
    [] e.type = "seq-" -> [check EXCEPT !.count[d] = 0]
    [] e.type = "scalar" -> [check EXCEPT !.count[d] = @ + 1]
    [] OTHER -> check
Checked(e) ==
  LET d == check.depth IN
  CASE e.type = "map+" -> [check EXCEPT !.depth = d + 1]
    [] e.type = "map-" -> [check EXCEPT !.depth = d - 1, !.count[d - 1] = 0,
                             !.seq = @ /\ d # MAX_DEPTH]
    [] e.type = "seq+" -> [check EXCEPT !.seq = TRUE]
    [] e.type = "seq-" -> [check EXCEPT !.count[d] = 0]
    [] e.type = "scalar" -> [check EXCEPT !.count[d] =
                               IF d = MAX_DEPTH /\ @ = 2 THEN 1 ELSE @ + 1]
    [] OTHER -> check

ValidateStructure ==
  /\ pc = "structure"
  /\ IF Misplaced(Event) THEN Leave("destroy")
     ELSE IF Event.type = "stream-" THEN Enter("begin")
     ELSE /\ Step /\ check' = Checked(Event) /\ UNCHANGED parsing

-----------------------------------------------------------------------------
(* conf_parse *)

(* conf_begin_parse skips every event that does not open a mapping, also the
   ones after the end of the stream. *)
BeginParse ==
  /\ pc = "begin"
  /\ IF Event.type = "none" THEN UNCHANGED <<vars>>
     ELSE /\ pos' = pos + 1
          /\ IF Event.type = "map+" THEN pc' = "parse" /\ depth' = 1
             ELSE UNCHANGED <<pc, depth>>
          /\ UNCHANGED <<call, check, seq, arg, pool, data, validParser>>

MappingEnd ==
  /\ pc = "parse" /\ Event.type = "map-"
  /\ depth' = depth - 1
  /\ depth = 2 => arg # <<>>
  /\ arg' = IF depth = 2 THEN Front(arg) ELSE arg
  /\ pc' = IF depth = 1 THEN "end" ELSE pc
  /\ pos' = pos + 1
  /\ UNCHANGED <<call, check, seq, pool, data, validParser>>

MappingStart ==
  /\ pc = "parse" /\ Event.type = "map+"
  /\ depth' = depth + 1
  /\ Step /\ UNCHANGED <<check, seq, arg, pool, data>>

SequenceStart ==
  /\ pc = "parse" /\ Event.type = "seq+"
  /\ seq' = TRUE
  /\ Step /\ UNCHANGED <<check, depth, arg, pool, data>>

SequenceEnd ==
  /\ pc = "parse" /\ Event.type = "seq-"
  /\ arg # <<>> /\ arg' = Front(arg)
  /\ seq' = FALSE
  /\ Step /\ UNCHANGED <<check, depth, pool, data>>

AtScalar == pc = "parse" /\ Event.type = "scalar"
Pushed   == Append(arg, Event.value)
IsLeaf   == seq \/ (depth # ROOT_DEPTH /\ Len(Pushed) = depth + 1)
IsPool   == ~seq /\ depth = ROOT_DEPTH

EmptyScalar ==
  /\ AtScalar /\ Event.value = None
  /\ pc' = "destroy"
  /\ UNCHANGED <<call, pos, check, parsing, validParser>>

(* A scalar that only waits for what belongs to it. *)
KeyScalar ==
  /\ AtScalar /\ Event.value # None /\ ~IsLeaf /\ ~IsPool
  /\ arg' = Pushed
  /\ Step /\ UNCHANGED <<check, depth, seq, pool, data>>

(* mutant: workers is forgotten as well *)
NewPoolNoWorkers(n, left) ==
  [f \in Fields \ {"workers"} |->
     IF f = "name" THEN n ELSE IF f = "max_slots" THEN left
     ELSE IF f \in Strings THEN None ELSE Unset]
(* conf_pool_init sets every field but max_slots. *)
NewPool(n, left) ==
  [f \in Fields |->
     IF f = "name" THEN n ELSE IF f = "max_slots" THEN left
     ELSE IF f \in Strings THEN None ELSE Unset]

(* conf_set_string and conf_set_num *)
MaySet(p, k, v) == IF k \in Strings THEN p[k] = None
                   ELSE p[k] = Unset /\ Num[v] >= 0
SetTo(k, v) == IF k \in Strings THEN v ELSE Num[v]

(* conf_handler on pools ps and arguments as, for the pool at d: what it does
   to them, and whether it succeeds.  A lone argument names a pool; anything
   else is a key and a value, ignored unless the key is a directive. *)
Directive(as) == as[Len(as) - 1] \in Strings \cup Numbers
HandlerDefined(ps, as, d) ==
  IF Len(as) = 1 THEN d > 0
  ELSE Directive(as) => d > 0 /\ ps[d] # Raw
Handler(ps, as, d, left) ==
  IF Len(as) = 1 THEN [ok |-> TRUE, pool |-> [ps EXCEPT ![d] = NewPool(as[1], left)]]
  ELSE IF ~Directive(as) THEN [ok |-> TRUE, pool |-> ps]
  ELSE LET k == as[Len(as) - 1]
           v == Last(as)
       IN IF MaySet(ps[d], k, v)
          THEN [ok |-> TRUE, pool |-> [ps EXCEPT ![d][k] = SetTo(k, v)]]
          ELSE [ok |-> FALSE, pool |-> ps]

Handle(ps, as, d) ==
  /\ HandlerDefined(ps, as, d)
  /\ \E left \in MaxSlotsLeft :
       LET h == Handler(ps, as, d, left) IN
         /\ pool' = h.pool
         /\ pc' = IF h.ok THEN pc ELSE "destroy"
  /\ pos' = pos + 1
  /\ UNCHANGED <<call, check, depth, seq, validParser>>

(* What conf_handler leaves of the pools when string_duplicate has no memory:
   the new pool has every field but a name, an old one is as before.
   mutant: conf_pool_init copies the name before it sets the other fields *)
UncopiedFirst(ps, as, d) ==
  IF Len(as) = 1 \/ (as[Len(as) - 1] \in Strings /\ ps[d][as[Len(as) - 1]] = None)
  THEN {ps} ELSE {}
Uncopied(ps, as, d) ==
  IF Len(as) = 1 THEN {[ps EXCEPT ![d] = NewPool(None, left)] : left \in MaxSlotsLeft}
  ELSE IF as[Len(as) - 1] \in Strings /\ ps[d][as[Len(as) - 1]] = None THEN {ps}
  ELSE {}

HandleFails(ps, as, d) ==
  /\ Failures /\ HandlerDefined(ps, as, d)
  /\ pool' \in Uncopied(ps, as, d)
  /\ pc' = "failed" /\ pos' = pos + 1
  /\ UNCHANGED <<call, check, depth, seq, validParser>>

PoolScalar ==
  /\ AtScalar /\ Event.value # None /\ IsPool
  /\ arg' = Pushed
  /\ data' = Len(pool) + 1
  /\ Handle(Append(pool, Raw), Pushed, Len(pool) + 1)

(* The name stays on the stack when there is no room for its pool or it
   cannot be copied into it. *)
PoolScalarFails ==
  /\ AtScalar /\ Event.value # None /\ IsPool
  /\ arg' = Pushed
  /\ \/ /\ Failures /\ data' = 0 /\ pc' = "failed" /\ pos' = pos + 1
        /\ UNCHANGED <<call, check, depth, seq, pool, validParser>>
     \/ /\ data' = Len(pool) + 1
        /\ HandleFails(Append(pool, Raw), Pushed, Len(pool) + 1)

(* mutant: the key is never popped *)
LeafScalarKeepsKey ==
  /\ AtScalar /\ Event.value # None /\ IsLeaf
  /\ arg' = arg /\ data' = data
  /\ Handle(pool, Pushed, data)
(* The value is popped; outside a sequence its key is popped with it. *)
LeafScalar ==
  /\ AtScalar /\ Event.value # None /\ IsLeaf
  /\ arg' = IF seq THEN arg ELSE Front(arg)
  /\ data' = data
  /\ Handle(pool, Pushed, data)

LeafScalarFails ==
  /\ AtScalar /\ Event.value # None /\ IsLeaf
  /\ arg' = IF seq THEN arg ELSE Front(arg)
  /\ data' = data
  /\ HandleFails(pool, Pushed, data)

(* conf_end_parse reads on to the end of the stream. *)
EndParse == pc = "end" /\ Leave("post")

-----------------------------------------------------------------------------
(* conf_post_validate *)

Default(p) == [p EXCEPT !["timeout"] = IF @ = Unset THEN -1 ELSE @,
                        !["backlog"] = IF @ = Unset THEN 512 ELSE @,
                        !["port"]    = IF @ = Unset THEN 5432 ELSE @]

(* mutant: no sorting *)
Unsorted(ps, f) == {ps}
(* qsort: some order of the pools in which field f does not decrease *)
Sorted(ps, f) ==
  {q \in {[i \in DOMAIN ps |-> ps[o[i]]] :
            o \in {o \in [DOMAIN ps -> DOMAIN ps] : IsInjective(o)}} :
     \A i \in 1 .. Len(ps) - 1 : Rank[q[i][f]] <= Rank[q[i + 1][f]]}

(* Only neighbours are compared. *)
ListenClash(ps) == \E i \in 1 .. Len(ps) - 1 : \A f \in {"addr", "port"} : ps[i][f] = ps[i + 1][f]
NameClash(ps)   == \E i \in 1 .. Len(ps) - 1 : ps[i]["name"] = ps[i + 1]["name"]

Reject(ps) == pc' = "destroy" /\ pool' = ps
PostValidate ==
  /\ pc = "post" /\ \A i \in DOMAIN pool : pool[i] # Raw
  /\ IF pool = <<>> THEN Reject(pool)
     ELSE \E byAddr \in Sorted(Each(pool, Default), "addr") :
            IF ListenClash(byAddr) THEN Reject(byAddr)
            ELSE \E byName \in Sorted(byAddr, "name") :
                   IF NameClash(byName) THEN Reject(byName)
                   ELSE pc' = "accepted" /\ pool' = byName
  /\ UNCHANGED <<call, pos, check, depth, seq, arg, data, validParser>>

(* conf_destroy: the scalars and the pools are given up, a parser is not. *)
GiveUp(from, to) ==
  /\ pc \in from /\ \A i \in DOMAIN pool : pool[i] # Raw
  /\ pc' = to /\ arg' = <<>> /\ pool' = <<>> /\ data' = 0
  /\ UNCHANGED <<call, pos, check, depth, seq, validParser>>

Destroy == GiveUp({"destroy", "failed"}, "rejected")  \* conf_create answers NULL
Close   == GiveUp({"accepted"}, "closed")             \* db.c is done with the pools

-----------------------------------------------------------------------------
Work == \/ Open \/ ValidateDocument \/ ValidateTokens \/ ValidateStructure
        \/ BeginParse \/ MappingEnd \/ MappingStart \/ SequenceStart
        \/ SequenceEnd \/ EmptyScalar \/ KeyScalar \/ PoolScalar \/ LeafScalar
        \/ EndParse \/ PostValidate \/ Destroy

Next == Work \/ OpenFails \/ Fail \/ PoolScalarFails \/ LeafScalarFails \/ Close

Spec == Init /\ [][Next]_vars

(* conf_create is a plain call: while it can go on, it does. *)
FairSpec == Spec /\ WF_vars(Work)

-----------------------------------------------------------------------------
(* Properties *)

(* The next step pops an empty stack, sets a directive of no pool or of one
   that was never initialised, or compares or frees such a pool. *)
RawPool == \E i \in DOMAIN pool : pool[i] = Raw
Undefined ==
  \/ pc = "parse" /\ Event.type = "map-" /\ depth = 2 /\ arg = <<>>
  \/ pc = "parse" /\ Event.type = "seq-" /\ arg = <<>>
  \/ /\ AtScalar /\ Event.value # None
     /\ \/ IsLeaf /\ ~HandlerDefined(pool, Pushed, data)
        \/ IsPool /\ ~HandlerDefined(Append(pool, Raw), Pushed, Len(pool) + 1)
  \/ pc \in {"post", "destroy", "failed", "accepted"} /\ RawPool

Trusted(f, level) ==
  level \/ Shaped(f) \/ f.broken \/ f.banned \/ DocumentCount(f) # 1

(* Of a file that is written as conf.c demands, or has its structure checked,
   or is turned down by an earlier pass, and wherever an allocation or a read
   fails: no step of conf_parse_core, conf_post_validate or conf_destroy
   (conf.c:341, 952, 1076) pops an empty stack or touches a pool that does not
   exist or was pushed (conf.c:405) but never initialised.  PoolsNamed says
   what becomes of another file. *)
Defined == Trusted(file, multilevel) => ~Undefined

(* In a file that passed the structure check, the stack cf->arg says where the
   parser stands: below a pool it starts
   with that pool's name, and that pool is the last one pushed; in a sequence
   it is the pool's name and the key; between events it never holds more than
   two scalars (conf.c:361-456). *)
ArgAligned ==
  multilevel /\ pc = "parse" =>
    /\ depth \in ROOT_DEPTH .. MAX_DEPTH
    /\ Len(arg) <= 2
    /\ depth = MAX_DEPTH => arg # <<>>
    /\ seq => Len(arg) = 2 /\ depth = MAX_DEPTH
    /\ arg # <<>> => /\ data = Len(pool) /\ data # 0
                     /\ pool[data] # Raw /\ pool[data]["name"] = arg[1]

(* conf_create always comes to an answer (conf.c:1028-1074). *)
Terminates == <>(pc \in {"accepted", "rejected"})

(* What the author of a pool meant, a directive left out having its default
   (one that is given twice means nothing).  max_slots is left aside: see
   DuplicateGiven. *)
Meant(p, d) ==
  IF Given(p, d) # {} THEN SetTo(d, ValueAt(p, CHOOSE a \in Given(p, d) : TRUE))
  ELSE CASE d \in Strings -> None
         [] d = "backlog" -> 512
         [] d = "port" -> 5432
         [] OTHER -> Unset
Settings == (Strings \cup Numbers) \ {"max_slots"}
Means(q, p) == q["name"] = p.name /\ \A d \in Settings : q[d] = Meant(p, d)

(* What may be wrong with a file of the documented shape. *)
Texts(p) == {p.name} \cup UNION {{l.key} \cup Range(l.vals) : l \in Range(p.lines)}
Lists(p) == {i \in DOMAIN p.lines : p.lines[i].list}
Ill(p) ==
  \/ p.lines = <<>> \/ None \in Texts(p)
  \/ \E d \in Strings \cup Numbers : \E a, b \in Given(p, d) : a # b
  \/ \E d \in Numbers : \E a \in Given(p, d) : Num[ValueAt(p, a)] < 0
  \/ multilevel /\ ~\E i \in Lists(p) : Lists(p) = {i}
Clash(p, q) == \/ p.name = q.name
               \/ \A d \in {"addr", "port"} : Meant(p, d) = Meant(q, d)
Faulty(ps) == \/ \E p \in Range(ps) : Ill(p)
              \/ \E i, j \in DOMAIN ps : i < j /\ Clash(ps[i], ps[j])

(* An accepted file has no ill-formed pool (conf.c:1102, 1127, 1135) and gives
   exactly the pools written, each with the values of its own directives and
   no other pool's, and nothing is left on the stack: sorting twice (conf.c:981,
   1004) loses and mixes up nothing. *)
Faithful ==
  pc = "accepted" /\ file.pools # <<>> =>
    /\ \A p \in Range(file.pools) : ~Ill(p)
    /\ arg = <<>> /\ ~validParser
    /\ Len(pool) = Len(file.pools)
    /\ \A p \in Range(file.pools) : \E i \in DOMAIN pool : Means(pool[i], p)

(* conf_create refuses a file of the documented shape only if one of its
   pools is ill formed, or gives max_slots (see DuplicateGiven), or two of them
   clash, or libyaml or a token check refused the file: the validators never
   reject a sound file (conf.c:545, 599, 722, 931, 952). *)
Justified ==
  pc = "destroy" /\ file.pools # <<>> =>
    \/ file.broken \/ file.banned \/ DocumentCount(file) # 1 \/ Faulty(file.pools)
    \/ \E p \in Range(file.pools) : Given(p, "max_slots") # {}

(* In an accepted file, in whatever order they were written, no two pools have
   one name, although only neighbours are compared (conf.c:1003-1019). *)
Sound ==
  pc = "accepted" =>
    \A i, j \in DOMAIN pool : i # j => pool[i]["name"] # pool[j]["name"]

(* conf.c:980: "disallow pools with duplicate listen: key values" *)
ListenDistinct ==
  pc = "accepted" =>
    \A i, j \in DOMAIN pool : i # j =>
      pool[i]["addr"] # pool[j]["addr"] \/ pool[i]["port"] # pool[j]["port"]

(* conf.c:1129: a directive is refused as "a duplicate" (there and 1104) only
   if the pool was given it before. *)
DuplicateGiven ==
  /\ AtScalar /\ Event.value # None /\ IsLeaf /\ data # 0
  /\ pool[data] # Raw /\ file.pools # <<>> /\ Directive(Pushed)
  => LET k == Pushed[Len(Pushed) - 1]
     IN Cardinality(Given(file.pools[data], k)) = 1 =>
          pool[data][k] = IF k \in Strings THEN None ELSE Unset

(* conf.c:935: a pool that is validated has a name; conf_pool_init gave it one
   when the pool was pushed (conf.c:402-412). *)
PoolsNamed ==
  pc = "post" => \A i \in DOMAIN pool : pool[i] # Raw /\ pool[i]["name"] # None

(* conf.c:290: while it looks for the root mapping, conf_begin_parse meets
   nothing but the start of the stream, of a document and of that mapping. *)
OnlyOpeners ==
  pc = "begin" => Event.type \in {"stream+", "doc+", "map+"}
=============================================================================
