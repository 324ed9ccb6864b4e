------------------------------ MODULE SkipList ------------------------------
(***************************************************************************)
(* skip_list.c: a skip list of (uint32_t key, void *ptr) pairs kept in     *)
(* DESCENDING key order, driven by a single caller.  A loop of the code is *)
(* an action taken once per iteration, so that every intermediate shape of *)
(* the list is a state; pc says which loop the running call is in.         *)
(*                                                                         *)
(* Memory is explicit.  A node is an address; its next array has height[n] *)
(* slots (0 = not allocated).  Following a link through memory that is not *)
(* allocated, past the end of a next array, or through an indeterminate    *)
(* pointer is undefined behaviour: such a state satisfies Undefined, and   *)
(* nothing is said of what comes after it.  malloc does not clear memory,  *)
(* so the tail sentinel's key and next, which the code reads and frees but *)
(* never sets, take any value of TailKeys and TailNexts when a list is     *)
(* created.                                                                *)
(***************************************************************************)
EXTENDS Integers, FiniteSets

CONSTANTS
  Node,       \* addresses calloc can return for nodes
  Key,        \* keys in use
  Val,        \* the caller's non-null pointers
  MaxHeight,  \* SKIP_LIST_MAX_LEVEL (8 in the code)
  Requests,   \* the max_level arguments callers pass to skip_list_create
  TailKeys,   \* what malloc may leave in tail->key
  TailNexts,  \* what malloc may leave in tail->next: Null or Wild
  Repeats,    \* may the caller insert a key that is stored already?
  Removals,   \* does the caller use skip_list_remove?
  Head, Tail, \* the sentinels
  Null,       \* NULL
  Wild,       \* an indeterminate pointer
  Unset       \* no value

ASSUME KeyAssumption == Key \subseteq Nat /\ TailKeys \subseteq Nat
ASSUME HeightAssumption == MaxHeight \in Nat \ {0} /\ Requests \subseteq Int
ASSUME ModeAssumption == Repeats \in BOOLEAN /\ Removals \in BOOLEAN
ASSUME PointerAssumption ==
  /\ {Head, Tail, Null, Wild, Unset} \cap Node = {}
  /\ Head # Tail /\ Head # Null /\ Head # Wild
  /\ Tail # Null /\ Tail # Wild /\ Null # Wild
  /\ TailNexts \subseteq {Null, Wild}
  /\ Unset \notin Key /\ Unset \notin Val /\ Null \notin Val

VARIABLES
  height,   \* slots in a node's next array, 0 when it is not allocated
  key, ptr, \* the node's payload
  next,     \* next[m][i]: the link of node or Head m at level i
  maxLevel, \* st->max_level
  tailKey, tailNext,  \* the uninitialised fields of st->tail
  pc,       \* the loop the running call is in
  arg,      \* its key argument
  cur,      \* its cursor
  lv,       \* its loop index
  update,   \* its update[] array: where to relink at each level
  node,     \* insert: slt, the new node; remove: temp, the node unlinked last
  ret       \* what the last call returned

heap   == <<height, key, ptr, next>>
list   == <<maxLevel, tailKey, tailNext>>
locals == <<arg, cur, lv, update, node>>
vars   == <<heap, list, pc, locals, ret>>

Levels  == 0 .. MaxHeight - 1
Link    == Node \cup {Tail, Null, Wild}  \* no link leads back to Head
Pointer == Link \cup {Head}
PCs     == {"none", "idle", "insert", "link", "remove", "unlink", "find",
            "destroy"}
Blank   == [i \in Levels |-> Wild]  \* an array malloc has just returned
Live    == {n \in Node : height[n] > 0}

(* What the type system of the code guarantees, and more: a node that is
   allocated has a payload, an inserting call its new node, an index stays
   within the arrays, and no link leads back to the head. *)
TypeOK ==
  /\ height \in [Node -> 0 .. MaxHeight]
  /\ key \in [Node -> Key \cup {Unset}]
  /\ ptr \in [Node -> Val \cup {Unset}]
  /\ next \in [Node \cup {Head} -> [Levels -> Link]]
  /\ maxLevel \in 0 .. MaxHeight
  /\ tailKey \in TailKeys \cup {Unset}
  /\ tailNext \in {Null, Wild}
  /\ pc \in PCs
  /\ arg \in Key \cup {Unset}
  /\ cur \in Pointer
  /\ lv \in -1 .. MaxHeight
  /\ update \in [Levels -> Pointer]
  /\ node \in Node \cup {Null}
  /\ ret \in {0, -1, Null, Unset} \cup Val
  /\ \A n \in Live : key[n] \in Key /\ ptr[n] \in Val
  /\ pc \in {"insert", "link"} => node \in Live

-----------------------------------------------------------------------------
(* Memory *)

CanRead(m, i) == \/ m = Head /\ i \in 0 .. maxLevel - 1
                 \/ m \in Node /\ i \in 0 .. height[m] - 1
HasKey(p) == p = Tail \/ p \in Live
KeyOf(p)  == IF p = Tail THEN tailKey ELSE key[p]

(* skip_listnode_init: the next array is malloc'ed, not cleared *)
Alloc(n, k, v, h) ==
  /\ height' = [height EXCEPT ![n] = h]
  /\ key' = [key EXCEPT ![n] = k]
  /\ ptr' = [ptr EXCEPT ![n] = v]
  /\ next' = [next EXCEPT ![n] = Blank]

(* skip_listnode_destroy, with the links the caller changes before it *)
Free(n, links) ==
  /\ height' = [height EXCEPT ![n] = 0]
  /\ key' = [key EXCEPT ![n] = Unset]
  /\ ptr' = [ptr EXCEPT ![n] = Unset]
  /\ next' = [links EXCEPT ![n] = Blank]

-----------------------------------------------------------------------------
(* Calls and returns *)

Init ==
  /\ height = [n \in Node |-> 0]
  /\ key = [n \in Node |-> Unset]
  /\ ptr = [n \in Node |-> Unset]
  /\ next = [n \in Node \cup {Head} |-> Blank]
  /\ maxLevel = 0 /\ tailKey = Unset /\ tailNext = Wild
  /\ pc = "none"
  /\ arg = Unset /\ cur = Head /\ lv = 0 /\ update = Blank /\ node = Null
  /\ ret = Unset

(* A call starts its first loop at level l. *)
Start(p, k, l) ==
  /\ pc = "idle"
  /\ pc' = p /\ arg' = k /\ cur' = Head /\ lv' = l /\ update' = Blank
  /\ ret' = Unset

Return(to, r) ==
  /\ pc' = to /\ ret' = r
  /\ arg' = Unset /\ cur' = Head /\ lv' = 0 /\ update' = Blank /\ node' = Null

(* mutant: a negative request gives no level *)
ClampLevelZero(req) == IF req < 0 THEN 0 ELSE IF req > MaxHeight THEN MaxHeight ELSE req
(* Only a negative request is corrected upwards; 0 stays 0. *)
ClampLevel(req) == IF req < 0 THEN 1
                   ELSE IF req > MaxHeight THEN MaxHeight ELSE req

Create(req) ==
  /\ pc = "none"
  /\ maxLevel' = ClampLevel(req)
  /\ next' = [next EXCEPT ![Head] =
                [i \in Levels |-> IF i < ClampLevel(req) THEN Tail ELSE Wild]]
  /\ tailKey' \in TailKeys
  /\ tailNext' \in TailNexts
  /\ pc' = "idle" /\ ret' = Unset
  /\ UNCHANGED <<height, key, ptr, locals>>

(* mutant: one level too many *)
RandomLevelOver == {0} \cup 0 .. maxLevel
(* skip_list_random_level: at least one level, even in a list of none. *)
RandomLevel == {0} \cup 0 .. maxLevel - 1

Insert(k, v) ==
  /\ Repeats \/ \A n \in Live : key[n] # k  \* the caller's own discipline
  /\ \E n \in Node \ Live, l \in RandomLevel :
        Alloc(n, k, v, l + 1) /\ node' = n
  /\ Start("insert", k, maxLevel - 1)
  /\ UNCHANGED list

InsertNoMemory == /\ pc = "idle" /\ ret' = -1
                  /\ UNCHANGED <<heap, list, pc, locals>>

Remove(k) == /\ Removals
             /\ Start("remove", k, maxLevel - 1)
             /\ UNCHANGED <<heap, list, node>>

Find(k) == /\ Start("find", k, maxLevel - 1)
           /\ UNCHANGED <<heap, list, node>>

Destroy == /\ Start("destroy", Unset, 0)
           /\ UNCHANGED <<heap, list, node>>

-----------------------------------------------------------------------------
(* The search loops.  All three walk right while the next key is larger   *)
(* and then down one level; they differ in how they treat the sentinel.   *)

Succ == next[cur][lv]

(* mutant: the cursor stays *)
AdvanceNot == cur' = cur /\ UNCHANGED <<heap, list, pc, arg, lv, update, node, ret>>
Advance == cur' = Succ /\ UNCHANGED <<heap, list, pc, arg, lv, update, node, ret>>

Descend(u) == /\ update' = [update EXCEPT ![lv] = u]
              /\ lv' = lv - 1
              /\ UNCHANGED <<heap, list, pc, arg, cur, node, ret>>

(* mutant: insert stops in front of a key that is one larger *)
InsertStopsShort == cur # Tail => KeyOf(Succ) <= arg + 1
(* Insert compares with the sentinel's key and may walk onto it. *)
InsertReads == cur # Tail => CanRead(cur, lv) /\ HasKey(Succ)
InsertStops == cur # Tail => KeyOf(Succ) <= arg

InsertScan ==
  /\ pc = "insert" /\ lv >= 0 /\ InsertReads
  /\ \/ ~InsertStops /\ Advance
     \/ InsertStops /\ Descend(cur)

(* mutant: the search walks past the key itself *)
RightOrEqual == Succ # Tail /\ KeyOf(Succ) >= arg
(* Remove and find test for the sentinel first. *)
Reads == CanRead(cur, lv) /\ HasKey(Succ)
Right == Succ # Tail /\ KeyOf(Succ) > arg
Found == Succ # Tail /\ KeyOf(Succ) = arg

RemoveScan ==
  /\ pc = "remove" /\ lv >= 0 /\ Reads
  /\ \/ Right /\ Advance
     \/ Found /\ Descend(cur)
     \/ ~Right /\ ~Found /\ Descend(Null)

FindScan ==
  /\ pc = "find" /\ lv >= 0 /\ Reads
  /\ \/ Right /\ Advance
     \/ Found /\ Return("idle", ptr[Succ]) /\ UNCHANGED <<heap, list>>
     \/ /\ ~Right /\ ~Found /\ lv' = lv - 1
        /\ UNCHANGED <<heap, list, pc, arg, cur, update, node, ret>>

FindMiss == /\ pc = "find" /\ lv = -1
            /\ Return("idle", Null) /\ UNCHANGED <<heap, list>>

-----------------------------------------------------------------------------
(* The relinking loops, from level 0 upwards *)

Relink(to) == /\ lv = -1
              /\ pc' = to /\ lv' = 0
              /\ UNCHANGED <<heap, list, arg, cur, update, node, ret>>

InsertRelink == pc = "insert" /\ Relink("link")
RemoveRelink == pc = "remove" /\ Relink("unlink")

Pred == update[lv]

InsertLink ==
  /\ pc = "link" /\ lv < height[node] /\ CanRead(Pred, lv)
  /\ next' = [next EXCEPT ![node][lv] = next[Pred][lv], ![Pred][lv] = node]
  /\ lv' = lv + 1
  /\ UNCHANGED <<height, key, ptr, list, pc, arg, cur, update, node, ret>>

InsertReturn == /\ pc = "link" /\ lv = height[node]
                /\ Return("idle", 0) /\ UNCHANGED <<heap, list>>

UnlinkReads == CanRead(Pred, lv) /\ CanRead(next[Pred][lv], lv)

Unlink ==
  /\ pc = "unlink" /\ lv < maxLevel
  /\ lv' = lv + 1
  /\ \/ Pred = Null /\ UNCHANGED <<next, node>>
     \/ /\ Pred # Null /\ UnlinkReads
        /\ node' = next[Pred][lv]
        /\ next' = [next EXCEPT ![Pred][lv] = next[next[Pred][lv]][lv]]
  /\ UNCHANGED <<height, key, ptr, list, pc, arg, cur, update, ret>>

RemoveReturn ==
  /\ pc = "unlink" /\ lv = maxLevel
  /\ \/ node = Null /\ Return("idle", -1) /\ UNCHANGED heap
     \/ node # Null /\ Return("idle", 0) /\ Free(node, next)
  /\ UNCHANGED list

-----------------------------------------------------------------------------
(* skip_list_destroy: pop the first node of level 0 until none is left,    *)
(* then the sentinels.  Freeing tail frees tail->next, which was never     *)
(* set: harmless only if it happens to be NULL.                            *)

First == next[Head][0]

DestroyReads == /\ CanRead(Head, 0)
                /\ IF First = Tail THEN tailNext = Null ELSE CanRead(First, 0)

DestroyNode ==
  /\ pc = "destroy" /\ DestroyReads /\ First # Tail
  /\ Free(First, [next EXCEPT ![Head][0] = next[First][0]])
  /\ UNCHANGED <<list, pc, locals, ret>>

DestroyList ==
  /\ pc = "destroy" /\ DestroyReads /\ First = Tail
  /\ next' = [next EXCEPT ![Head] = Blank]
  /\ maxLevel' = 0 /\ tailKey' = Unset /\ tailNext' = Wild
  /\ Return("none", Unset)
  /\ UNCHANGED <<height, key, ptr>>

-----------------------------------------------------------------------------
Caller ==
  \/ \E r \in Requests : Create(r)
  \/ \E k \in Key : Remove(k) \/ Find(k) \/ \E v \in Val : Insert(k, v)
  \/ InsertNoMemory
  \/ Destroy

Step ==
  \/ InsertScan \/ InsertRelink \/ InsertLink \/ InsertReturn
  \/ RemoveScan \/ RemoveRelink \/ Unlink \/ RemoveReturn
  \/ FindScan \/ FindMiss
  \/ DestroyNode \/ DestroyList

Next == Caller \/ Step

Spec == Init /\ [][Next]_vars

(* A call that has started keeps running: nothing in it blocks or waits. *)
FairSpec == Spec /\ WF_vars(Step)

-----------------------------------------------------------------------------
(* Properties *)

(* The next read of the running call is undefined behaviour. *)
Undefined ==
  \/ pc = "insert" /\ lv >= 0 /\ ~InsertReads
  \/ pc \in {"remove", "find"} /\ lv >= 0 /\ ~Reads
  \/ pc = "link" /\ lv < height[node] /\ ~CanRead(Pred, lv)
  \/ pc = "unlink" /\ lv < maxLevel /\ Pred # Null /\ ~UnlinkReads
  \/ pc = "destroy" /\ ~DestroyReads

(* No call of the list ever reads freed or unset memory, a NULL or
   indeterminate pointer, or past the end of a next array: neither the
   searches (skip_list.c:85-99, 111-130, 150-167), nor the relinking
   (100-104, 132-139), nor the teardown (174-181). *)
MemorySafe == ~Undefined

(* The nodes that level i holds: those tall enough, except the one an
   insert has not linked there yet or a remove has already taken out. *)
Pending(n, i) == n = node /\ \/ pc = "insert"
                             \/ pc = "link" /\ i >= lv
                             \/ pc = "unlink" /\ i < lv
Members(i)  == {n \in Live : i < height[n] /\ ~Pending(n, i)}
Below(m, i) == {n \in Members(i) : m = Head \/ key[n] < key[m]}

(* Between any two steps of any call, the link of every node at every level
   leads exactly to the largest smaller key of that level, skipping none and
   naming no node that is being linked, was taken out or was freed: the
   express lanes agree with level 0 throughout skip_list.c:100-104 and
   132-139.  A teardown only keeps level 0, and only from the head. *)
LinkExact(m, i) ==
  IF Below(m, i) = {} THEN next[m][i] = Tail
  ELSE /\ next[m][i] \in Below(m, i)
       /\ \A n \in Below(m, i) : key[n] <= key[next[m][i]]

SuccessorExact ==
  \A i \in 0 .. maxLevel - 1 :
    (pc = "destroy" => i = 0) =>
       \A m \in Members(i) \cup {Head} : LinkExact(m, i)

(* The list implements the store of KeyStore: insert takes effect when level
   0 is linked, remove when it is unlinked, a search answers what is stored
   and nothing is left allocated once skip_list_destroy returns. *)
storePhase ==
  CASE pc = "link" -> IF lv = 0 THEN "insert" ELSE "inserted"
    [] pc = "unlink" -> IF node = Null THEN "remove" ELSE "removed"
    [] OTHER -> pc
storeReq == [key |-> arg,
             ptr |-> IF pc \in {"insert", "link"} THEN ptr[node] ELSE Unset]
storeEntries == [n \in Members(0) |-> [key |-> key[n], ptr |-> ptr[n]]]

Store == INSTANCE KeyStore WITH
           Id <- Node, entries <- storeEntries, phase <- storePhase,
           req <- storeReq

StoreSpec == Store!Spec

(* Every call returns: the searches (skip_list.c:85-99, 111-130, 150-167),
   the relinking and the teardown all end, whatever the shape of the list. *)
Waiting     == pc \in {"none", "idle"}
CallsReturn == ~Waiting ~> Waiting
-----------------------------------------------------------------------------
(* The inductive invariant behind MemorySafe, SuccessorExact and StoreSpec. *)

(* What the code relies on: the sentinel's key happens to be no larger than
   any key in use and its next to be NULL, and a list is asked for at least
   one level. *)
Harmless == /\ \A t \in TailKeys, k \in Key : t <= k
            /\ TailNexts = {Null}
            /\ 0 \notin Requests

(* The use the code is correct for: keys are inserted once.  Or: they may
   repeat, and nothing is removed. *)
Disciplined == ~Repeats /\ Harmless
Additive    == ~Removals /\ Harmless

Searching == pc \in {"insert", "remove", "find"}

(* Where a call is, and what it may assume of its locals. *)
Frame ==
  /\ IF pc = "none" THEN maxLevel = 0 /\ Live = {}
     ELSE maxLevel > 0 /\ tailKey \in TailKeys /\ tailNext = Null
  /\ \A n \in Node : height[n] <= maxLevel
  /\ pc \notin {"insert", "link", "unlink"} => node = Null
  /\ arg \in IF pc \in {"none", "idle", "destroy"} THEN {Unset} ELSE Key
  /\ pc \in {"insert", "link"} => key[node] = arg
  /\ Searching => lv < maxLevel
  /\ pc = "link" => lv \in 0 .. height[node]
  /\ pc = "unlink" => lv \in 0 .. maxLevel

UniqueKeys == \A m, n \in Live : key[m] = key[n] => m = n

(* m is a place of level i a search for arg may have reached. *)
Before(m, i) == m = Head \/ (m \in Members(i) /\ key[m] > arg)

Cursor == Searching /\ lv >= 0 => Before(cur, lv)

(* update[i] says where to link, or what to unlink. *)
LinkPlace(i) == /\ Before(update[i], i)
                /\ \A n \in Below(update[i], i) : key[n] < arg
UnlinkPlace(i) ==
  IF update[i] = Null THEN \A n \in Members(i) : key[n] # arg
  ELSE /\ Before(update[i], i)
       /\ next[update[i]][i] \in Members(i)
       /\ key[next[update[i]][i]] = arg

Places ==
  \A i \in 0 .. maxLevel - 1 :
    /\ pc = "insert" /\ i > lv => LinkPlace(i)
    /\ pc = "link" /\ i >= lv => LinkPlace(i)
    /\ pc = "remove" /\ i > lv => UnlinkPlace(i)
    /\ pc = "unlink" /\ i >= lv => UnlinkPlace(i)
    /\ pc = "find" /\ i > lv => \A n \in Members(i) : key[n] # arg

(* A remove past level 0 has its node, unless the key is not stored. *)
Victim == pc = "unlink" =>
            IF node # Null THEN node \in Live /\ key[node] = arg /\ lv > 0
            ELSE lv > 0 => \A n \in Live : key[n] # arg

Inv == /\ TypeOK /\ Frame /\ UniqueKeys /\ SuccessorExact
       /\ Cursor /\ Places /\ Victim

(* With repeated keys the links follow an order R of the nodes: larger keys
   come first, and of equal keys the one inserted last. *)
Ordering(R) ==
  /\ \A m, n \in Live : /\ <<m, n>> \in R => <<n, m>> \notin R
                        /\ m = n \/ <<m, n>> \in R \/ <<n, m>> \in R
                        /\ key[m] < key[n] => <<m, n>> \in R
  /\ \A l, m, n \in Live : <<l, m>> \in R /\ <<m, n>> \in R => <<l, n>> \in R
  /\ pc \in {"insert", "link"} =>
       \A n \in Live \ {node} : key[n] <= arg => <<n, node>> \in R

Behind(R, m, i) == {n \in Members(i) : m = Head \/ <<n, m>> \in R}

LinkNext(R, m, i) ==
  IF Behind(R, m, i) = {} THEN next[m][i] = Tail
  ELSE /\ next[m][i] \in Behind(R, m, i)
       /\ \A n \in Behind(R, m, i) : n = next[m][i] \/ <<n, next[m][i]>> \in R

Chained(R) ==
  \A i \in 0 .. maxLevel - 1 :
    (pc = "destroy" => i = 0) =>
       \A m \in Members(i) \cup {Head} : LinkNext(R, m, i)

Reached(R) ==
  \A i \in 0 .. maxLevel - 1 :
    /\ (pc = "insert" /\ i > lv) \/ (pc = "link" /\ i >= lv) =>
         /\ Before(update[i], i)
         /\ \A n \in Behind(R, update[i], i) : key[n] <= arg
    /\ pc = "find" /\ i > lv => \A n \in Members(i) : key[n] # arg

Listed(R) == /\ TypeOK /\ Frame /\ Cursor /\ pc \notin {"remove", "unlink"}
             /\ Ordering(R) /\ Chained(R) /\ Reached(R)

RepeatsInv == \E R \in SUBSET (Node \X Node) : Listed(R)
=============================================================================
