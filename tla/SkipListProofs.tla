--------------------------- MODULE SkipListProofs ---------------------------
(***************************************************************************)
(* Proofs about SkipList.  For every use of the list: type correctness.    *)
(* For a disciplined one (Disciplined, in SkipList): Inv is an inductive   *)
(* invariant, so the list is memory safe, its links are exact and it       *)
(* implements KeyStore.  For one whose keys repeat and that removes        *)
(* nothing (Additive): RepeatsInv is, with the same consequences.          *)
(***************************************************************************)
EXTENDS SkipList, TLAPS

(* A live node is one whose next array has a slot. *)
LEMMA LiveNodes == ASSUME TypeOK
                   PROVE  \A n \in Node : n \in Live <=> height[n] # 0
  BY DEF TypeOK, Live

(* What a readable slot holds can be followed: a node, the tail sentinel or
   a pointer that was never set. *)
LEMMA ReadLink ==
  ASSUME TypeOK, NEW m, NEW i, CanRead(m, i)
  PROVE  /\ m \in Node \cup {Head} /\ i \in Levels
         /\ next[m][i] \in Link
<1>1. m \in Node \cup {Head} /\ i \in Levels
  BY HeightAssumption DEF TypeOK, CanRead, Levels
<1> QED BY <1>1 DEF TypeOK

(* The local variables of a call that has returned are well typed. *)
LEMMA ReturnTypes ==
  ASSUME NEW to, NEW r, Return(to, r), HeightAssumption
  PROVE  /\ arg' \in Key \cup {Unset} /\ cur' \in Pointer
         /\ lv' \in -1 .. MaxHeight /\ update' \in [Levels -> Pointer]
         /\ node' \in Node \cup {Null}
  BY DEF Return, Pointer, Link, Blank, HeightAssumption

(* So are those of a call that starts at a level of the list. *)
LEMMA StartTypes ==
  ASSUME NEW p, NEW k \in Key \cup {Unset}, NEW l \in -1 .. MaxHeight,
         Start(p, k, l)
  PROVE  /\ arg' \in Key \cup {Unset} /\ cur' \in Pointer
         /\ lv' \in -1 .. MaxHeight /\ update' \in [Levels -> Pointer]
  BY DEF Start, Pointer, Link, Blank

LEMMA TypeStep == ASSUME TypeOK, [Next]_vars PROVE TypeOK'
<1> USE KeyAssumption, HeightAssumption, PointerAssumption
<1>1. ASSUME NEW r \in Requests, Create(r) PROVE TypeOK'
  <2>1. ClampLevel(r) \in 0 .. MaxHeight
    BY DEF ClampLevel
  <2>2. next' \in [Node \cup {Head} -> [Levels -> Link]]
    BY <1>1 DEF TypeOK, Create, Link
  <2> QED BY <1>1, <2>1, <2>2 DEF TypeOK, Create, locals, PCs, Live
<1>2. ASSUME NEW k \in Key, NEW v \in Val, Insert(k, v) PROVE TypeOK'
  <2>1. PICK n \in Node \ Live, l \in RandomLevel :
          Alloc(n, k, v, l + 1) /\ node' = n
    BY <1>2 DEF Insert
  <2>2. l + 1 \in 1 .. MaxHeight
    BY DEF TypeOK, RandomLevel
  <2>3. /\ height' \in [Node -> 0 .. MaxHeight]
        /\ key' \in [Node -> Key \cup {Unset}]
        /\ ptr' \in [Node -> Val \cup {Unset}]
        /\ next' \in [Node \cup {Head} -> [Levels -> Link]]
    BY <2>1, <2>2 DEF TypeOK, Alloc, Blank, Link
  <2>4. \A m \in Live' : (m \in Live \/ m = n) /\ (key[m])' \in Key /\ (ptr[m])' \in Val
    BY <2>1, <2>2 DEF TypeOK, Alloc, Live
  <2>5. n \in Live'
    BY <2>1, <2>2 DEF TypeOK, Alloc, Live
  <2>6. Start("insert", k, maxLevel - 1) /\ UNCHANGED list
    BY <1>2 DEF Insert
  <2>7. maxLevel - 1 \in -1 .. MaxHeight
    BY DEF TypeOK
  <2>8. /\ arg' \in Key \cup {Unset} /\ cur' \in Pointer
        /\ lv' \in -1 .. MaxHeight /\ update' \in [Levels -> Pointer]
    BY <2>6, <2>7, StartTypes
  <2>9. pc' = "insert" /\ ret' = Unset
    BY <2>6 DEF Start
  <2> QED BY <2>1, <2>3, <2>4, <2>5, <2>6, <2>8, <2>9 DEF TypeOK, list, PCs
<1>3. CASE InsertNoMemory
  BY <1>3 DEF TypeOK, InsertNoMemory, heap, list, locals, Live
<1>4. ASSUME NEW k \in Key, Remove(k) \/ Find(k) PROVE TypeOK'
  <2>1. maxLevel - 1 \in -1 .. MaxHeight
    BY DEF TypeOK
  <2>2. /\ arg' \in Key \cup {Unset} /\ cur' \in Pointer
        /\ lv' \in -1 .. MaxHeight /\ update' \in [Levels -> Pointer]
    BY <1>4, <2>1, StartTypes DEF Remove, Find
  <2> QED BY <1>4, <2>2 DEF TypeOK, Remove, Find, Start, heap, list, PCs, Live
<1>5. CASE Destroy
  <2>1. /\ arg' \in Key \cup {Unset} /\ cur' \in Pointer
        /\ lv' \in -1 .. MaxHeight /\ update' \in [Levels -> Pointer]
    BY <1>5, StartTypes DEF Destroy
  <2> QED BY <1>5, <2>1 DEF TypeOK, Destroy, Start, heap, list, PCs, Live
<1>6. CASE InsertScan
  <2>1. CASE ~InsertStops /\ Advance
    <3>1. Succ \in Link
      BY <1>6, <2>1, ReadLink DEF InsertScan, InsertStops, InsertReads, Succ
    <3> QED BY <2>1, <3>1 DEF TypeOK, Advance, heap, list, Live, Pointer
  <2>2. CASE InsertStops /\ Descend(cur)
    <3>0. lv >= 0
      BY <1>6 DEF InsertScan
    <3>1. update' \in [Levels -> Pointer]
      BY <2>2 DEF TypeOK, Descend
    <3>2. lv' \in -1 .. MaxHeight
      BY <2>2, <3>0 DEF TypeOK, Descend
    <3> QED BY <2>2, <3>1, <3>2 DEF TypeOK, Descend, heap, list, Live
  <2> QED BY <1>6, <2>1, <2>2 DEF InsertScan
<1>7. CASE RemoveScan
  <2>1. CASE Right /\ Advance
    <3>1. Succ \in Link
      BY <1>7, ReadLink DEF RemoveScan, Reads, Succ
    <3> QED BY <2>1, <3>1 DEF TypeOK, Advance, heap, list, Live, Pointer
  <2>2. CASE Descend(cur) \/ Descend(Null)
    BY <1>7, <2>2 DEF RemoveScan, TypeOK, Descend, heap, list, Live, Levels,
       Pointer, Link
  <2> QED BY <1>7, <2>1, <2>2 DEF RemoveScan
<1>8. CASE FindScan
  <2>1. Succ \in Link
    BY <1>8, ReadLink DEF FindScan, Reads, Succ
  <2>2. CASE Right /\ Advance
    BY <2>2, <2>1 DEF TypeOK, Advance, heap, list, Live, Pointer
  <2>3. CASE Found /\ Return("idle", ptr[Succ]) /\ UNCHANGED <<heap, list>>
    <3>1. ptr[Succ] \in Val
      BY <1>8, <2>3 DEF FindScan, Reads, Found, HasKey, TypeOK
    <3>2. pc' = "idle" /\ ret' = ptr[Succ]
      BY <2>3 DEF Return
    <3> QED BY <2>3, <3>1, <3>2, ReturnTypes DEF TypeOK, heap, list, Live, PCs
  <2>4. CASE /\ lv' = lv - 1
             /\ UNCHANGED <<heap, list, pc, arg, cur, update, node, ret>>
    BY <1>8, <2>4 DEF FindScan, TypeOK, heap, list, Live
  <2> QED BY <1>8, <2>2, <2>3, <2>4 DEF FindScan
<1>9. CASE FindMiss \/ InsertReturn
  <2>1. pc' = "idle" /\ ret' \in {0, Null}
    BY <1>9 DEF FindMiss, InsertReturn, Return
  <2> QED BY <1>9, <2>1, ReturnTypes
          DEF TypeOK, FindMiss, InsertReturn, heap, list, Live, PCs
<1>10. CASE InsertRelink \/ RemoveRelink
  BY <1>10 DEF InsertRelink, RemoveRelink, Relink, TypeOK, heap, list, Live, PCs
<1>11. CASE InsertLink
  <2>1. node \in Node /\ height[node] \in 0 .. MaxHeight /\ lv \in 0 .. MaxHeight - 1
    BY <1>11 DEF InsertLink, TypeOK, Live, CanRead
  <2>2. Pred \in Node \cup {Head} /\ next[Pred][lv] \in Link
    BY <1>11, <2>1, ReadLink DEF InsertLink, Levels
  <2>3. next' \in [Node \cup {Head} -> [Levels -> Link]]
    <3> DEFINE mid == [next EXCEPT ![node][lv] = next[Pred][lv]]
    <3>1. mid \in [Node \cup {Head} -> [Levels -> Link]]
      BY <2>1, <2>2 DEF TypeOK, Levels
    <3>2. next' = [mid EXCEPT ![Pred][lv] = node]
      BY <1>11 DEF InsertLink
    <3> HIDE DEF mid
    <3> QED BY <2>1, <2>2, <3>1, <3>2 DEF Levels, Link
  <2>4. /\ lv' \in -1 .. MaxHeight
        /\ UNCHANGED <<height, key, ptr, list, pc, arg, cur, update, node, ret>>
    BY <1>11, <2>1 DEF InsertLink
  <2> QED BY <2>3, <2>4 DEF TypeOK, list, Live
<1>12. CASE Unlink
  <2>1. lv \in 0 .. MaxHeight - 1 \/ Pred = Null
    BY <1>12 DEF Unlink, TypeOK, UnlinkReads, CanRead
  <2>2. lv + 1 \in -1 .. MaxHeight
    BY <1>12 DEF Unlink, TypeOK
  <2>3. CASE Pred = Null /\ UNCHANGED <<next, node>>
    BY <1>12, <2>2, <2>3 DEF Unlink, TypeOK, list, Live
  <2>4. CASE /\ Pred # Null /\ UnlinkReads
             /\ node' = next[Pred][lv]
             /\ next' = [next EXCEPT ![Pred][lv] = next[next[Pred][lv]][lv]]
    <3>1. Pred \in Node \cup {Head} /\ next[Pred][lv] \in Link
      BY <2>1, <2>4, ReadLink DEF UnlinkReads, Levels
    <3>2. next[Pred][lv] \in Node /\ next[next[Pred][lv]][lv] \in Link
      BY <2>1, <2>4, <3>1, ReadLink DEF UnlinkReads, Levels, Link
    <3>3. next' \in [Node \cup {Head} -> [Levels -> Link]]
      BY <2>1, <2>4, <3>1, <3>2 DEF TypeOK, Levels
    <3>4. pc' = "unlink"
      BY <1>12 DEF Unlink
    <3> QED BY <1>12, <2>2, <2>4, <3>2, <3>3, <3>4 DEF Unlink, TypeOK, list, Live
  <2> QED BY <1>12, <2>3, <2>4 DEF Unlink
<1>13. CASE RemoveReturn
  <2>1. pc' = "idle" /\ ret' \in {0, -1}
    BY <1>13 DEF RemoveReturn, Return
  <2>2. CASE node = Null /\ Return("idle", -1) /\ UNCHANGED heap
    BY <1>13, <2>1, <2>2, ReturnTypes DEF RemoveReturn, TypeOK, heap, list, Live, PCs
  <2>3. CASE node # Null /\ Return("idle", 0) /\ Free(node, next)
    <3>1. /\ height' \in [Node -> 0 .. MaxHeight]
          /\ key' \in [Node -> Key \cup {Unset}]
          /\ ptr' \in [Node -> Val \cup {Unset}]
          /\ next' \in [Node \cup {Head} -> [Levels -> Link]]
      BY <2>3 DEF TypeOK, Free, Blank, Link
    <3>2. \A m \in Live' : m \in Live /\ key'[m] \in Key /\ ptr'[m] \in Val
      BY <2>3 DEF TypeOK, Free, Live
    <3> QED BY <1>13, <2>1, <2>3, <3>1, <3>2, ReturnTypes
            DEF RemoveReturn, TypeOK, list, PCs
  <2> QED BY <1>13, <2>2, <2>3 DEF RemoveReturn
<1>14. CASE DestroyNode
  <2>1. 0 \in Levels /\ First \in Link
    BY <1>14, ReadLink DEF DestroyNode, DestroyReads, First, Levels
  <2>2. First \in Node
    BY <1>14, <2>1 DEF DestroyNode, DestroyReads, CanRead, Link
  <2>3. next[First][0] \in Link
    BY <1>14, <2>1, <2>2 DEF TypeOK
  <2>4. /\ height' \in [Node -> 0 .. MaxHeight]
        /\ key' \in [Node -> Key \cup {Unset}]
        /\ ptr' \in [Node -> Val \cup {Unset}]
    BY <1>14, <2>2 DEF DestroyNode, TypeOK, Free
  <2>5. next' \in [Node \cup {Head} -> [Levels -> Link]]
    BY <1>14, <2>1, <2>2, <2>3 DEF DestroyNode, TypeOK, Free, Blank, Link
  <2>6. \A m \in Live' : m \in Live /\ key'[m] \in Key /\ ptr'[m] \in Val
    BY <1>14, <2>2 DEF DestroyNode, TypeOK, Free, Live
  <2>7. pc' = "destroy"
    BY <1>14 DEF DestroyNode
  <2> QED BY <1>14, <2>4, <2>5, <2>6, <2>7
          DEF DestroyNode, TypeOK, list, locals
<1>15. CASE DestroyList
  <2>1. pc' = "none" /\ ret' = Unset
    BY <1>15 DEF DestroyList, Return
  <2>2. next' \in [Node \cup {Head} -> [Levels -> Link]]
    BY <1>15 DEF DestroyList, TypeOK, Blank, Link
  <2> QED BY <1>15, <2>1, <2>2, ReturnTypes DEF DestroyList, TypeOK, Live, PCs
<1>16. CASE UNCHANGED vars
  BY <1>16 DEF TypeOK, vars, heap, list, locals, Live
<1> QED BY <1>1, <1>2, <1>3, <1>4, <1>5, <1>6, <1>7, <1>8, <1>9, <1>10, <1>11,
           <1>12, <1>13, <1>14, <1>15, <1>16 DEF Next, Caller, Step

LEMMA TypeInit == Init => TypeOK
  BY KeyAssumption, HeightAssumption
     DEF Init, TypeOK, Blank, Link, Pointer, PCs, Live

(* TypeOK: whatever the callers do, even where they run into undefined
   behaviour, no step of skip_list.c leaves the arrays or mixes up payloads. *)
THEOREM TypeCorrect == Spec => []TypeOK
<1>1. TypeOK /\ [Next]_vars => TypeOK'
  BY TypeStep
<1> QED BY <1>1, TypeInit, PTL DEF Spec

-----------------------------------------------------------------------------
(* Inv, for a disciplined list *)

(* Members of a level are live nodes with a key. *)
LEMMA MemberType ==
  ASSUME TypeOK, NEW i
  PROVE  /\ Members(i) \subseteq Live /\ Live \subseteq Node
         /\ \A n \in Live : key[n] \in Key /\ key[n] \in Nat
         /\ \A m : Below(m, i) \subseteq Members(i)
  BY KeyAssumption DEF TypeOK, Members, Live, Below

(* What level i looks like depends on its members, their keys and links. *)
LEMMA Kept ==
  ASSUME NEW i, UNCHANGED <<key, next>>, Members(i)' = Members(i)
  PROVE  \A m : /\ Below(m, i)' = Below(m, i)
                /\ LinkExact(m, i)' <=> LinkExact(m, i)
  BY DEF Below, LinkExact

(* A place a search has reached can be read, and leads to Tail or a member. *)
LEMMA Readable ==
  ASSUME Inv, pc # "destroy", NEW i \in 0 .. maxLevel - 1, NEW m, Before(m, i)
  PROVE  /\ CanRead(m, i) /\ HasKey(next[m][i]) /\ m # Tail
         /\ LinkExact(m, i)
         /\ next[m][i] = Tail \/ next[m][i] \in Below(m, i)
<1>1. m = Head \/ (m \in Node /\ i < height[m])
  BY DEF Before, Members, Live
<1>2. CanRead(m, i) /\ m # Tail
  BY <1>1, PointerAssumption DEF Inv, TypeOK, CanRead
<1>3. LinkExact(m, i)
  BY DEF Inv, SuccessorExact, Before
<1> QED BY <1>2, <1>3, MemberType DEF LinkExact, HasKey, Inv

(* Every read of every call is defined. *)
LEMMA InvSafe == ASSUME Inv PROVE MemorySafe
<1> SUFFICES ASSUME Undefined PROVE FALSE
  BY DEF MemorySafe
<1>1. CASE pc = "insert" /\ lv >= 0 /\ ~InsertReads
  <2>1. lv \in 0 .. maxLevel - 1 /\ Before(cur, lv)
    BY <1>1 DEF Inv, TypeOK, Frame, Searching, Cursor
  <2> QED BY <1>1, <2>1, Readable DEF InsertReads, Succ
<1>2. CASE pc \in {"remove", "find"} /\ lv >= 0 /\ ~Reads
  <2>1. lv \in 0 .. maxLevel - 1 /\ Before(cur, lv)
    BY <1>2 DEF Inv, TypeOK, Frame, Searching, Cursor
  <2> QED BY <1>2, <2>1, Readable DEF Reads, Succ
<1>3. CASE pc = "link" /\ lv < height[node] /\ ~CanRead(Pred, lv)
  <2>1. node \in Node /\ lv \in 0 .. maxLevel - 1
    BY <1>3 DEF Inv, TypeOK, Frame, Live
  <2>2. Before(Pred, lv)
    BY <1>3, <2>1 DEF Inv, Places, LinkPlace, Pred
  <2> QED BY <1>3, <2>1, <2>2, Readable
<1>4. CASE pc = "unlink" /\ lv < maxLevel /\ Pred # Null /\ ~UnlinkReads
  <2>1. lv \in 0 .. maxLevel - 1
    BY <1>4 DEF Inv, TypeOK, Frame
  <2>2. Before(Pred, lv) /\ next[Pred][lv] \in Members(lv)
    BY <1>4, <2>1 DEF Inv, Places, UnlinkPlace, Pred
  <2>3. CanRead(next[Pred][lv], lv)
    BY <2>1, <2>2 DEF Members, Live, CanRead, Inv, TypeOK
  <2> QED BY <1>4, <2>1, <2>2, <2>3, Readable DEF UnlinkReads
<1>5. CASE pc = "destroy" /\ ~DestroyReads
  <2>1. maxLevel > 0 /\ tailNext = Null
    BY <1>5 DEF Inv, Frame
  <2>2. CanRead(Head, 0) /\ LinkExact(Head, 0)
    BY <1>5, <2>1 DEF Inv, TypeOK, SuccessorExact, CanRead
  <2>3. First = Tail \/ First \in Members(0)
    BY <2>2, MemberType DEF LinkExact, First, Inv
  <2>4. First # Tail => CanRead(First, 0)
    BY <2>3 DEF Members, Live, CanRead, Inv, TypeOK
  <2> QED BY <1>5, <2>1, <2>2, <2>4 DEF DestroyReads
<1> QED BY <1>1, <1>2, <1>3, <1>4, <1>5 DEF Undefined

LEMMA InvInit == ASSUME Init PROVE Inv
<1>1. TypeOK /\ Live = {}
  BY TypeInit DEF Init, Live
<1>2. Frame
  BY <1>1 DEF Init, Frame, Searching
<1>3. UniqueKeys /\ Cursor /\ Victim
  BY <1>1 DEF Init, UniqueKeys, Cursor, Searching, Victim
<1>4. SuccessorExact /\ Places
  BY DEF Init, SuccessorExact, Places
<1> QED BY <1>1, <1>2, <1>3, <1>4 DEF Inv

(* A new list has maxLevel empty levels. *)
LEMMA CreateStep ==
  ASSUME Disciplined, Inv, NEW r \in Requests, Create(r)
  PROVE  Inv'
<1>1. TypeOK'
  BY TypeStep DEF Inv, Next, Caller
<1>2. maxLevel' \in 1 .. MaxHeight
  BY HeightAssumption DEF Create, ClampLevel, Disciplined, Harmless
<1>3. Live' = {} /\ Live = {} /\ node' = Null
  BY DEF Create, Inv, Frame, Live, locals
<1>4. Frame'
  <2>1. \A n \in Node : height'[n] = 0
    BY <1>1, <1>3 DEF TypeOK, Live
  <2>2. /\ pc' = "idle" /\ tailKey' \in TailKeys /\ tailNext' = Null
        /\ arg' = Unset
    BY DEF Create, Disciplined, Harmless, Inv, Frame, locals
  <2> QED BY <1>2, <1>3, <2>1, <2>2 DEF Frame, Searching
<1>5. SuccessorExact'
  <2>0. ASSUME NEW i PROVE Members(i)' = {}
    BY <1>3 DEF Members
  <2>1. ASSUME NEW i, NEW m PROVE Below(m, i)' = {}
    BY <2>0 DEF Below
  <2>2. \A i \in 0 .. maxLevel' - 1 : next'[Head][i] = Tail
    BY <1>2, HeightAssumption DEF Create, Inv, TypeOK, Levels
  <2> QED BY <2>0, <2>1, <2>2 DEF SuccessorExact, LinkExact
<1>6. (UniqueKeys /\ Cursor /\ Places /\ Victim)'
  BY <1>3 DEF Create, UniqueKeys, Cursor, Places, Victim, Searching
<1> QED BY <1>1, <1>4, <1>5, <1>6 DEF Inv

(* A new node is pending on every level, so no level changes. *)
LEMMA InsertStep ==
  ASSUME Disciplined, Inv, NEW k \in Key, NEW v \in Val, Insert(k, v)
  PROVE  Inv'
<1>1. TypeOK'
  BY TypeStep DEF Inv, Next, Caller
<1>2. PICK n \in Node \ Live, l \in RandomLevel :
        Alloc(n, k, v, l + 1) /\ node' = n
  BY DEF Insert
<1>3. /\ pc = "idle" /\ pc' = "insert" /\ arg' = k /\ cur' = Head
      /\ lv' = maxLevel - 1 /\ UNCHANGED list
      /\ \A m \in Live : key[m] # k
  BY DEF Insert, Start, Disciplined
<1>4. maxLevel > 0 /\ maxLevel \in Nat /\ node = Null
  BY <1>3 DEF Inv, TypeOK, Frame
<1>5. l + 1 \in 1 .. maxLevel /\ l + 1 <= MaxHeight
  BY <1>4, HeightAssumption DEF RandomLevel, Inv, TypeOK
<1>6. Live' = Live \cup {n}
  BY <1>2, <1>5 DEF Alloc, Live, Inv, TypeOK
<1>7. /\ \A m \in Node \ {n} : height'[m] = height[m] /\ key'[m] = key[m]
      /\ height'[n] = l + 1 /\ key'[n] = k
      /\ \A m \in (Node \cup {Head}) \ {n} : next'[m] = next[m]
  <2>1. /\ height' = [height EXCEPT ![n] = l + 1]
        /\ key' = [key EXCEPT ![n] = k]
        /\ next' = [next EXCEPT ![n] = Blank]
    BY <1>2 DEF Alloc
  <2>2. n \in DOMAIN height /\ n \in DOMAIN key /\ DOMAIN next = Node \cup {Head}
        /\ DOMAIN height = Node /\ DOMAIN key = Node
    BY DEF Inv, TypeOK
  <2> QED BY <2>1, <2>2
<1>8. Frame'
  <2>1. \A m \in Node : height'[m] <= maxLevel'
    BY <1>3, <1>5, <1>7 DEF Inv, Frame, list
  <2> QED BY <1>2, <1>3, <1>4, <1>7, <2>1 DEF Inv, TypeOK, Frame, Searching, list
<1>9. UniqueKeys'
  BY <1>3, <1>6, <1>7 DEF Inv, UniqueKeys, Live
<1>10. SuccessorExact'
  <2>1. \A i \in 0 .. maxLevel - 1 : Members(i)' = Members(i)
    BY <1>2, <1>3, <1>4, <1>6, <1>7, PointerAssumption
       DEF Members, Pending, Live
  <2>2. ASSUME NEW i \in 0 .. maxLevel - 1, NEW m \in Members(i) \cup {Head}
        PROVE  LinkExact(m, i)'
    <3>1. m \in (Node \cup {Head}) \ {n} /\ Members(i) \subseteq Node \ {n}
      BY <1>2, PointerAssumption DEF Members, Live
    <3>2. next'[m] = next[m] /\ \A x \in Members(i) : key'[x] = key[x]
      BY <1>7, <3>1
    <3>3. Below(m, i)' = Below(m, i)
      BY <1>7, <2>1, <2>2, <3>1, <3>2 DEF Below
    <3>4. LinkExact(m, i)
      BY <1>3, <2>2 DEF Inv, SuccessorExact
    <3>5. Below(m, i) \subseteq Members(i)
      BY DEF Below
    <3>6. CASE Below(m, i) = {}
      BY <3>2, <3>3, <3>4, <3>6 DEF LinkExact
    <3>7. CASE Below(m, i) # {}
      BY <3>2, <3>3, <3>4, <3>5, <3>7 DEF LinkExact
    <3> QED BY <3>6, <3>7
  <2> QED BY <1>3, <2>1, <2>2 DEF SuccessorExact, list
<1>11. (Cursor /\ Places /\ Victim)'
  BY <1>3 DEF Cursor, Places, Victim, Before, list
<1> QED BY <1>1, <1>8, <1>9, <1>10, <1>11 DEF Inv

(* A step that leaves memory and the members of every level alone keeps the
   list as it was. *)
LEMMA Same ==
  ASSUME Inv, UNCHANGED <<heap, list>>, pc # "destroy" \/ pc' = "destroy",
         \A i \in 0 .. maxLevel - 1 : Members(i)' = Members(i)
  PROVE  /\ (UniqueKeys /\ SuccessorExact)' /\ Live' = Live
         /\ \A i \in 0 .. maxLevel - 1 : \A m : Below(m, i)' = Below(m, i)
<1>1. UNCHANGED <<key, next, maxLevel>> /\ Live' = Live
  BY DEF heap, list, Live
<1>2. \A i \in 0 .. maxLevel - 1 :
         \A m : /\ Below(m, i)' = Below(m, i)
                /\ LinkExact(m, i)' <=> LinkExact(m, i)
  BY <1>1, Kept
<1>3. SuccessorExact'
  BY <1>1, <1>2 DEF Inv, SuccessorExact
<1> QED BY <1>1, <1>2, <1>3 DEF Inv, UniqueKeys

(* Nothing is pending outside a call that relinks. *)
LEMMA NonePending ==
  ASSUME TypeOK, node = Null \/ pc \notin {"insert", "link", "unlink"}
  PROVE  \A i : Members(i) = {n \in Live : i < height[n]}
  BY PointerAssumption DEF Members, Pending, Live

LEMMA NonePendingNext ==
  ASSUME TypeOK', (node = Null \/ pc \notin {"insert", "link", "unlink"})'
  PROVE  \A i : Members(i)' = {n \in Live' : i < height'[n]}
  BY PointerAssumption DEF Members, Pending, Live

(* A refused insert changes nothing, and a remove, find or destroy starts at
   the head. *)
LEMMA IdleStep ==
  ASSUME Inv, TypeOK',
         \/ InsertNoMemory \/ Destroy
         \/ \E k \in Key : Remove(k) \/ Find(k)
  PROVE  Inv'
<1>1. /\ pc = "idle" /\ pc' \in {"idle", "remove", "find", "destroy"}
      /\ UNCHANGED <<heap, list>> /\ node' = node /\ node = Null
      /\ pc' \in {"remove", "find"} => arg' \in Key
      /\ pc' \in {"idle", "destroy"} => arg' = Unset
      /\ pc' # "idle" => cur' = Head
      /\ pc' \in {"remove", "find"} => lv' = maxLevel - 1
  BY DEF InsertNoMemory, Remove, Find, Destroy, Start, locals, Inv, Frame
<1>2. \A i \in 0 .. maxLevel - 1 : Members(i)' = Members(i)
  BY <1>1, NonePending, NonePendingNext DEF Inv, heap, Live
<1>3. (UniqueKeys /\ SuccessorExact)' /\ Live' = Live
  BY <1>1, <1>2, Same
<1>4. Frame'
  BY <1>1, <1>3 DEF Inv, Frame, Searching, heap, list, TypeOK
<1>5. (Cursor /\ Places /\ Victim)'
  BY <1>1 DEF Cursor, Places, Victim, Searching, Before, list, Inv, TypeOK
<1> QED BY <1>3, <1>4, <1>5 DEF Inv

(* The search loops leave memory and the members of every level alone. *)
LEMMA ScanMembers ==
  ASSUME TypeOK, Frame, TypeOK', Searching, pc' = pc, UNCHANGED <<heap, list, node>>
  PROVE  \A i : Members(i)' = Members(i)
<1>1. CASE pc = "insert"
  BY <1>1 DEF Members, Pending, Live, heap
<1>2. CASE pc # "insert"
  BY <1>2, NonePending, NonePendingNext DEF Frame, Searching, heap, Live
<1> QED BY <1>1, <1>2

LEMMA ScanSame ==
  ASSUME Inv, TypeOK', Searching, pc' = pc, UNCHANGED <<heap, list, node>>
  PROVE  /\ (UniqueKeys /\ SuccessorExact)' /\ Live' = Live
         /\ \A i \in 0 .. maxLevel - 1 :
              /\ Members(i)' = Members(i)
              /\ \A m : Below(m, i)' = Below(m, i)
<1>1. \A i : Members(i)' = Members(i)
  BY ScanMembers DEF Inv
<1> QED BY <1>1, Same DEF Searching

(* Moving right along a level: the next member still has a larger key. *)
LEMMA AdvanceStep ==
  ASSUME Inv, TypeOK', Searching, lv >= 0, Advance,
         Succ \in Below(cur, lv), key[Succ] > arg
  PROVE  Inv'
<1>1. /\ lv \in 0 .. maxLevel - 1 /\ Before(cur, lv) /\ pc # "destroy"
      /\ UNCHANGED <<heap, list, pc, arg, lv, update, node>> /\ cur' = Succ
  BY DEF Inv, TypeOK, Frame, Cursor, Searching, Advance
<1>2. /\ (UniqueKeys /\ SuccessorExact)' /\ Live' = Live
      /\ \A i \in 0 .. maxLevel - 1 :
              /\ Members(i)' = Members(i)
              /\ \A m : Below(m, i)' = Below(m, i)
  BY <1>1, ScanSame
<1>3. Frame' /\ Victim'
  BY <1>1, <1>2 DEF Inv, Frame, Searching, Victim, heap, list
<1>4. Cursor'
  BY <1>1, <1>2, MemberType DEF Cursor, Before, Inv, heap
<1>5. Places'
  BY <1>1, <1>2 DEF Inv, Places, LinkPlace, UnlinkPlace, Before, heap, list
<1> QED BY <1>2, <1>3, <1>4, <1>5 DEF Inv

(* Going down a level, with u the right entry of update for this one. *)
LEMMA DescendStep ==
  ASSUME Inv, TypeOK', Searching, lv >= 0, NEW u,
         \/ Descend(u)
         \/ /\ pc = "find" /\ lv' = lv - 1
            /\ UNCHANGED <<heap, list, pc, arg, cur, update, node, ret>>,
         pc = "insert" => /\ Before(u, lv)
                          /\ \A n \in Below(u, lv) : key[n] < arg,
         pc = "remove" /\ u = Null => \A n \in Members(lv) : key[n] # arg,
         pc = "remove" /\ u # Null => /\ Before(u, lv)
                                     /\ next[u][lv] \in Members(lv)
                                     /\ key[next[u][lv]] = arg,
         pc = "find" => \A n \in Members(lv) : key[n] # arg
  PROVE  Inv'
<1>1. /\ lv \in 0 .. maxLevel - 1 /\ Before(cur, lv) /\ pc # "destroy"
      /\ maxLevel <= MaxHeight
      /\ lv' = lv - 1 /\ UNCHANGED <<heap, list, pc, arg, cur, node>>
      /\ \/ update' = [update EXCEPT ![lv] = u]
         \/ pc = "find" /\ update' = update
  BY DEF Inv, TypeOK, Frame, Cursor, Searching, Descend
<1>2. /\ (UniqueKeys /\ SuccessorExact)' /\ Live' = Live
      /\ \A i \in 0 .. maxLevel - 1 :
              /\ Members(i)' = Members(i)
              /\ \A m : Below(m, i)' = Below(m, i)
  BY <1>1, ScanSame
<1>3. Frame' /\ Victim'
  BY <1>1, <1>2 DEF Inv, TypeOK, Frame, Searching, Victim, heap, list
<1>4. Cursor'
  <2>1. cur = Head \/ (lv - 1 >= 0 => cur \in Members(lv - 1) /\ key[cur] > arg)
    BY <1>1 DEF Before, Members, Pending, Live, Searching, Inv, TypeOK
  <2>2. (lv >= 0)' => cur = Head \/ (cur \in Members(lv) /\ key[cur] > arg)'
    BY <1>1, <2>1 DEF Members, Pending, Live, Searching, heap
  <2> QED BY <1>1, <2>2 DEF Cursor, Before
<1>5. Places'
  <2>1. \A i \in 0 .. maxLevel - 1 :
           /\ i > lv => (update[i])' = update[i]
           /\ i = lv => pc = "find" \/ (update[i])' = u
    <3>1. \A i \in 0 .. maxLevel - 1 : i \in Levels /\ lv \in Levels
      BY <1>1, HeightAssumption DEF Inv, TypeOK, Levels
    <3>2. update \in [Levels -> Pointer]
      BY DEF Inv, TypeOK
    <3>3. CASE update' = [update EXCEPT ![lv] = u]
      BY <1>1, <3>1, <3>2, <3>3
    <3>4. CASE pc = "find" /\ update' = update
      BY <1>1, <3>4
    <3> QED BY <1>1, <3>3, <3>4
  <2>2. ASSUME NEW i \in 0 .. maxLevel - 1, i > lv - 1, pc = "insert"
        PROVE  LinkPlace(i)'
    BY <1>1, <1>2, <2>1, <2>2 DEF Inv, Places, LinkPlace, Before, heap
  <2>3. ASSUME NEW i \in 0 .. maxLevel - 1, i > lv - 1, pc = "remove"
        PROVE  UnlinkPlace(i)'
    BY <1>1, <1>2, <2>1, <2>3 DEF Inv, Places, UnlinkPlace, Before, heap
  <2>4. ASSUME NEW i \in 0 .. maxLevel - 1, i > lv - 1, pc = "find"
        PROVE  \A n \in Members(i)' : key'[n] # arg'
    BY <1>1, <1>2, <2>4 DEF Inv, Places, heap
  <2> QED BY <1>1, <2>2, <2>3, <2>4 DEF Places, list, Searching
<1> QED BY <1>2, <1>3, <1>4, <1>5 DEF Inv

(* Insert's search: the sentinel's key is small, so it is never walked onto. *)
LEMMA InsertScanStep ==
  ASSUME Disciplined, Inv, TypeOK', InsertScan
  PROVE  Inv'
<1>1. /\ pc = "insert" /\ Searching /\ lv \in 0 .. maxLevel - 1 /\ Before(cur, lv)
      /\ arg \in Key /\ key[node] = arg /\ node \in Live /\ tailKey \in TailKeys
  BY DEF InsertScan, Searching, Inv, TypeOK, Frame, Cursor
<1>2. /\ cur # Tail /\ LinkExact(cur, lv)
      /\ Succ = Tail \/ Succ \in Below(cur, lv)
  BY <1>1, Readable DEF Succ
<1>3. CASE ~InsertStops /\ Advance
  <2>1. ~(KeyOf(Succ) <= arg)
    BY <1>2, <1>3 DEF InsertStops
  <2>2. Succ # Tail
    BY <1>1, <2>1 DEF KeyOf, Disciplined, Harmless
  <2>3. key[Succ] \in Nat /\ arg \in Nat
    BY <1>1, <1>2, <2>2, MemberType, KeyAssumption DEF Inv
  <2>4. Succ \in Below(cur, lv) /\ key[Succ] > arg
    BY <1>2, <2>1, <2>2, <2>3 DEF KeyOf
  <2> QED BY <1>1, <1>3, <2>4, AdvanceStep
<1>4. CASE InsertStops /\ Descend(cur)
  <2>1. KeyOf(Succ) <= arg
    BY <1>2, <1>4 DEF InsertStops
  <2>2. ASSUME NEW n \in Below(cur, lv) PROVE key[n] < arg
    <3>1. n \in Members(lv) /\ n \in Live /\ n # node
      BY <1>1, MemberType DEF Members, Pending, Inv
    <3>2. key[n] \in Nat /\ arg \in Nat /\ key[n] # arg
      BY <1>1, <3>1, MemberType, KeyAssumption DEF Inv, UniqueKeys
    <3>3. Succ \in Below(cur, lv) /\ key[n] <= key[Succ] /\ Succ # Tail
      BY <1>2, <2>2, MemberType, PointerAssumption DEF LinkExact, Succ, Inv
    <3>4. key[Succ] <= arg /\ key[Succ] \in Nat
      BY <2>1, <3>3, MemberType DEF KeyOf, Inv
    <3> QED BY <3>2, <3>3, <3>4
  <2> QED BY <1>1, <1>4, <2>2, DescendStep
<1> QED BY <1>3, <1>4 DEF InsertScan

(* A member below a place whose next key is not larger than arg has a key
   no larger than that next key. *)
LEMMA SearchStop ==
  ASSUME Inv, pc # "destroy", NEW i \in 0 .. maxLevel - 1, NEW m, Before(m, i),
         next[m][i] = Tail \/ ~(key[next[m][i]] > arg),
         next[m][i] = Tail \/ key[next[m][i]] # arg,
         arg \in Key, pc # "insert"
  PROVE  \A n \in Members(i) : key[n] # arg
<1> SUFFICES ASSUME NEW n \in Members(i), key[n] = arg PROVE FALSE
  OBVIOUS
<1>1. n \in Live /\ arg \in Nat /\ key[n] \in Nat
  BY MemberType, KeyAssumption DEF Inv
<1>2. n \in Below(m, i)
  <2>1. CASE m = Head
    BY <2>1 DEF Below
  <2>2. CASE m # Head
    <3>1. key[m] > arg /\ key[m] \in Nat
      BY <2>2, MemberType DEF Before, Inv
    <3> QED BY <1>1, <3>1 DEF Below
  <2> QED BY <2>1, <2>2
<1>3. next[m][i] \in Below(m, i) /\ key[n] <= key[next[m][i]]
  BY <1>2, Readable DEF LinkExact
<1>4. key[next[m][i]] \in Nat /\ next[m][i] # Tail
  BY <1>3, MemberType, PointerAssumption DEF Inv
<1> QED BY <1>1, <1>3, <1>4

(* Remove's search notes the place before its key, or that there is none. *)
LEMMA RemoveScanStep ==
  ASSUME Inv, TypeOK', RemoveScan
  PROVE  Inv'
<1>1. /\ pc = "remove" /\ Searching /\ lv \in 0 .. maxLevel - 1 /\ Before(cur, lv)
      /\ arg \in Key
  BY DEF RemoveScan, Searching, Inv, TypeOK, Frame, Cursor
<1>2. /\ cur # Tail /\ LinkExact(cur, lv)
      /\ Succ = Tail \/ Succ \in Below(cur, lv)
  BY <1>1, Readable DEF Succ
<1>3. CASE Right /\ Advance
  BY <1>1, <1>2, <1>3, AdvanceStep DEF Right, KeyOf
<1>4. CASE Found /\ Descend(cur)
  <2>1. cur # Null
    BY <1>1, PointerAssumption DEF Before, Members, Live
  <2>2. next[cur][lv] \in Members(lv) /\ key[next[cur][lv]] = arg
    BY <1>2, <1>4 DEF Found, KeyOf, Below, Succ
  <2> QED BY <1>1, <1>4, <2>1, <2>2, DescendStep
<1>5. CASE ~Right /\ ~Found /\ Descend(Null)
  <2>1. \A n \in Members(lv) : key[n] # arg
    BY <1>1, <1>5, SearchStop DEF Right, Found, KeyOf, Succ
  <2> QED BY <1>1, <1>5, <2>1, DescendStep
<1> QED BY <1>3, <1>4, <1>5 DEF RemoveScan

(* A call returns to idle with nothing left pending. *)
LEMMA ReturnStep ==
  ASSUME Inv, TypeOK', NEW r, Return("idle", r), UNCHANGED <<heap, list>>,
         pc \in {"find", "link", "unlink"},
         \A i \in 0 .. maxLevel - 1 : Members(i) = {n \in Live : i < height[n]}
  PROVE  Inv'
<1>1. pc' = "idle" /\ node' = Null /\ arg' = Unset /\ pc # "destroy"
  BY DEF Return
<1>2. \A i \in 0 .. maxLevel - 1 : Members(i)' = Members(i)
  BY <1>1, NonePendingNext DEF heap, Live
<1>3. (UniqueKeys /\ SuccessorExact)' /\ Live' = Live
  BY <1>1, <1>2, Same
<1>4. (Frame /\ Cursor /\ Places /\ Victim)'
  BY <1>1, <1>3 DEF Inv, Frame, Cursor, Places, Victim, Searching, heap, list
<1> QED BY <1>3, <1>4 DEF Inv

LEMMA FindStep ==
  ASSUME Inv, TypeOK', FindScan \/ FindMiss
  PROVE  Inv'
<1>1. /\ pc = "find" /\ Searching /\ arg \in Key
      /\ \A i : Members(i) = {n \in Live : i < height[n]}
  BY NonePending DEF FindScan, FindMiss, Searching, Inv, Frame
<1>2. CASE FindMiss
  BY <1>1, <1>2, ReturnStep DEF FindMiss
<1>3. CASE FindScan
  <2>1. lv \in 0 .. maxLevel - 1 /\ Before(cur, lv)
    BY <1>1, <1>3 DEF FindScan, Inv, TypeOK, Frame, Cursor
  <2>2. Succ = Tail \/ Succ \in Below(cur, lv)
    BY <1>1, <2>1, Readable DEF Succ
  <2>3. CASE Right /\ Advance
    BY <1>1, <2>1, <2>2, <2>3, AdvanceStep DEF Right, KeyOf
  <2>4. CASE Found /\ Return("idle", ptr[Succ]) /\ UNCHANGED <<heap, list>>
    BY <1>1, <2>4, ReturnStep
  <2>5. CASE /\ ~Right /\ ~Found /\ lv' = lv - 1
             /\ UNCHANGED <<heap, list, pc, arg, cur, update, node, ret>>
    <3>1. \A n \in Members(lv) : key[n] # arg
      BY <1>1, <2>1, <2>5, SearchStop DEF Right, Found, KeyOf, Succ
    <3> QED BY <1>1, <2>1, <2>5, <3>1, DescendStep
  <2> QED BY <1>3, <2>3, <2>4, <2>5 DEF FindScan
<1> QED BY <1>2, <1>3

(* The search is over: update is complete and level 0 comes first. *)
LEMMA RelinkMembers ==
  ASSUME TypeOK, Frame, TypeOK', InsertRelink \/ RemoveRelink
  PROVE  \A i \in 0 .. maxLevel - 1 : Members(i)' = Members(i)
<1>1. /\ UNCHANGED <<heap, list, arg, cur, update, node, ret>> /\ lv' = 0
      /\ \/ pc = "insert" /\ pc' = "link"
         \/ pc = "remove" /\ pc' = "unlink"
  BY DEF InsertRelink, RemoveRelink, Relink
<1>2. CASE pc = "insert"
  BY <1>1, <1>2 DEF Members, Pending, Live, heap
<1>3. CASE pc = "remove"
  BY <1>1, <1>3, NonePending, NonePendingNext DEF Frame, heap, Live
<1> QED BY <1>1, <1>2, <1>3

LEMMA RelinkStep ==
  ASSUME Inv, TypeOK', InsertRelink \/ RemoveRelink
  PROVE  Inv'
<1>1. /\ UNCHANGED <<heap, list, arg, cur, update, node, ret>>
      /\ lv = -1 /\ lv' = 0
      /\ \/ pc = "insert" /\ pc' = "link"
         \/ pc = "remove" /\ pc' = "unlink"
  BY DEF InsertRelink, RemoveRelink, Relink
<1>2. \A i \in 0 .. maxLevel - 1 : Members(i)' = Members(i)
  BY RelinkMembers DEF Inv
<1>3. /\ (UniqueKeys /\ SuccessorExact)' /\ Live' = Live
      /\ \A i \in 0 .. maxLevel - 1 : \A m : Below(m, i)' = Below(m, i)
  BY <1>1, <1>2, Same
<1>4. Frame' /\ Cursor' /\ Victim'
  BY <1>1, <1>3, PointerAssumption
     DEF Inv, TypeOK, Frame, Searching, Cursor, Victim, heap, list, Live
<1>5. Places'
  BY <1>1, <1>2, <1>3
     DEF Inv, Places, LinkPlace, UnlinkPlace, Before, heap, list
<1> QED BY <1>3, <1>4, <1>5 DEF Inv

(* Linking the new node at one more level: everything after its place is
   smaller than its key, everything before is larger. *)
LEMMA InsertLinkStep ==
  ASSUME Inv, TypeOK', InsertLink
  PROVE  Inv'
<1>1. /\ pc = "link" /\ lv' = lv + 1 /\ CanRead(Pred, lv)
      /\ node \in Live /\ node \in Node /\ lv \in 0 .. height[node] - 1
      /\ lv \in 0 .. maxLevel - 1 /\ lv \in Levels
      /\ arg \in Key /\ arg \in Nat /\ key[node] = arg
      /\ UNCHANGED <<height, key, ptr, list, pc, arg, cur, update, node, ret>>
  <2>1. /\ pc = "link" /\ lv' = lv + 1 /\ CanRead(Pred, lv) /\ lv < height[node]
        /\ UNCHANGED <<height, key, ptr, list, pc, arg, cur, update, node, ret>>
    BY DEF InsertLink
  <2>2. /\ node \in Live /\ node \in Node /\ arg \in Key /\ key[node] = arg
        /\ lv \in 0 .. height[node] /\ height[node] <= maxLevel
        /\ maxLevel \in 0 .. MaxHeight /\ height[node] \in 0 .. MaxHeight
    BY <2>1 DEF Inv, TypeOK, Frame, Live
  <2> QED BY <2>1, <2>2, HeightAssumption, KeyAssumption DEF Levels
<1>2. /\ Before(Pred, lv) /\ \A n \in Below(Pred, lv) : key[n] < arg
      /\ LinkExact(Pred, lv)
  <2>1. LinkPlace(lv)
    BY <1>1 DEF Inv, Places
  <2> QED BY <1>1, <2>1, Readable DEF LinkPlace, Pred
<1>3. /\ node \notin Members(lv) /\ Pred # node /\ node # Head
      /\ Pred \in Node \cup {Head}
  BY <1>1, <1>2, PointerAssumption DEF Members, Pending, Before, Live
<1>4. /\ next'[node][lv] = next[Pred][lv] /\ next'[Pred][lv] = node
      /\ \A m \in Node \cup {Head}, i \in Levels :
           i # lv \/ (m # node /\ m # Pred) => next'[m][i] = next[m][i]
  <2> DEFINE mid == [next EXCEPT ![node][lv] = next[Pred][lv]]
  <2>1. /\ mid \in [Node \cup {Head} -> [Levels -> Link]]
        /\ mid[node][lv] = next[Pred][lv]
        /\ \A m \in Node \cup {Head}, i \in Levels :
             i # lv \/ m # node => mid[m][i] = next[m][i]
    BY <1>1, ReadLink DEF Inv, TypeOK
  <2>2. next' = [mid EXCEPT ![Pred][lv] = node]
    BY DEF InsertLink
  <2> HIDE DEF mid
  <2> QED BY <1>1, <1>3, <2>1, <2>2
<1>5. ASSUME NEW i \in 0 .. maxLevel - 1
      PROVE  Members(i)' = IF i = lv THEN Members(lv) \cup {node} ELSE Members(i)
  <2>1. /\ pc' = "link" /\ Live' = Live /\ node' = node /\ height' = height
        /\ lv \in Int /\ i \in Int /\ lv' = lv + 1 /\ lv < height[node]
    BY <1>1 DEF Live, Inv, TypeOK
  <2>2. ASSUME NEW n, n # node PROVE n \in Members(i)' <=> n \in Members(i)
    BY <1>1, <2>1, <2>2 DEF Members, Pending
  <2>3. node \in Members(i)' <=> i < height[node] /\ i < lv + 1
    BY <1>1, <2>1 DEF Members, Pending
  <2>4. node \in Members(i) <=> i < height[node] /\ i < lv
    BY <1>1, <2>1 DEF Members, Pending
  <2>5. CASE i = lv
    BY <1>3, <2>1, <2>2, <2>3, <2>5
  <2>6. CASE i # lv
    BY <2>1, <2>2, <2>3, <2>4, <2>6
  <2> QED BY <2>5, <2>6
<1>6. (Frame /\ UniqueKeys /\ Cursor /\ Victim)'
  <2>1. lv' \in 0 .. height[node] /\ Live' = Live
    BY <1>1 DEF Inv, TypeOK, Live
  <2> QED BY <1>1, <2>1
          DEF Inv, Frame, UniqueKeys, Cursor, Victim, Searching, list
<1>7. SuccessorExact'
  <2>1. SUFFICES ASSUME NEW i \in 0 .. maxLevel - 1,
                        NEW m \in Members(i)' \cup {Head}
                 PROVE  LinkExact(m, i)'
    BY <1>1 DEF SuccessorExact, list
  <2>2. i \in Levels /\ Members(i) \subseteq Node
    BY MemberType, HeightAssumption DEF Inv, TypeOK, Levels
  <2>3. CASE i # lv
    <3>1. Members(i)' = Members(i) /\ m \in Members(i) \cup {Head}
      BY <1>5, <2>1, <2>3
    <3>2. LinkExact(m, i) /\ next'[m][i] = next[m][i]
      BY <1>1, <1>4, <2>2, <2>3, <3>1 DEF Inv, SuccessorExact
    <3>3. Below(m, i)' = Below(m, i)
      BY <1>1, <3>1 DEF Below
    <3> QED BY <1>1, <3>2, <3>3 DEF LinkExact
  <2>4. CASE i = lv
    <3>1. Members(i)' = Members(lv) \cup {node}
      BY <1>5, <2>4
    <3>2. \A n \in Members(lv) : key[n] \in Nat /\ key[n] # arg /\ n # node
      BY <1>1, <1>3, MemberType DEF Inv, UniqueKeys
    <3>3. Pred # Head => Pred \in Members(lv) /\ key[Pred] > arg
      BY <1>2 DEF Before
    <3>4. CASE m = Pred
      <4>1. Below(m, i)' = Below(Pred, lv) \cup {node}
        BY <1>1, <1>3, <2>4, <3>1, <3>2, <3>3, <3>4 DEF Below
      <4>2. \A n \in Below(m, i)' : key[n] <= arg
        BY <1>1, <1>2, <3>2, <4>1, MemberType DEF Inv
      <4> QED BY <1>1, <1>4, <2>4, <3>4, <4>1, <4>2 DEF LinkExact
    <3>5. CASE m = node
      <4>1. \A n \in Members(lv) : n \in Below(Pred, lv) <=> key[n] < arg
        BY <1>1, <1>2, <3>2, <3>3 DEF Below
      <4>2. Below(m, i)' = Below(Pred, lv)
        BY <1>1, <1>3, <2>4, <3>1, <3>5, <4>1 DEF Below
      <4> QED BY <1>1, <1>2, <1>4, <2>4, <3>5, <4>2 DEF LinkExact
    <3>6. CASE m # Pred /\ m # node
      <4>1. m \in Members(lv) \cup {Head} /\ LinkExact(m, lv)
        BY <1>1, <2>1, <2>4, <3>1, <3>6 DEF Inv, SuccessorExact
      <4>2. next'[m][i] = next[m][i]
        BY <1>4, <2>2, <2>4, <3>6, <4>1
      <4>3. Below(m, i)' = IF m = Head \/ arg < key[m]
                           THEN Below(m, lv) \cup {node} ELSE Below(m, lv)
        BY <1>1, <2>4, <3>1 DEF Below
      <4>4. CASE m = Head \/ arg < key[m]
        <5>1. Pred \in Below(m, lv)
          <6>1. Pred # Head
            <7> SUFFICES ASSUME Pred = Head PROVE FALSE
              OBVIOUS
            <7>1. m \in Members(lv) /\ m \in Below(Pred, lv)
              BY <3>6, <4>1 DEF Below
            <7> QED BY <1>1, <1>2, <3>2, <3>6, <4>4, <7>1
          <6>2. m # Head => ~(key[m] < key[Pred]) /\ key[m] # key[Pred]
            <7>1. m # Head => m \in Members(lv) /\ m \in Live /\ Pred \in Live
              BY <3>3, <4>1, <6>1, MemberType DEF Inv
            <7>2. m # Head => key[m] # key[Pred]
              BY <3>6, <7>1 DEF Inv, UniqueKeys
            <7>3. m # Head /\ key[m] < key[Pred] => m \in Below(Pred, lv)
              BY <4>1 DEF Below
            <7> QED BY <1>1, <1>2, <3>2, <4>1, <4>4, <7>2, <7>3
          <6> QED BY <3>2, <3>3, <4>1, <6>1, <6>2 DEF Below
        <5>2. next[m][lv] \in Below(m, lv) /\ key[Pred] <= key[next[m][lv]]
              /\ \A n \in Below(m, lv) : key[n] <= key[next[m][lv]]
          BY <4>1, <5>1 DEF LinkExact
        <5>3. key[next[m][lv]] \in Nat /\ key[Pred] \in Nat /\ key[Pred] > arg
          BY <3>2, <3>3, <5>1, <5>2, MemberType, PointerAssumption DEF Inv, Below, Live
        <5>4. arg <= key[next[m][lv]]
          BY <1>1, <5>2, <5>3
        <5> QED BY <1>1, <2>4, <4>2, <4>3, <4>4, <5>2, <5>4 DEF LinkExact
      <4>5. CASE ~(m = Head \/ arg < key[m])
        BY <1>1, <2>4, <4>1, <4>2, <4>3, <4>5 DEF LinkExact
      <4> QED BY <4>4, <4>5
    <3> QED BY <3>4, <3>5, <3>6
  <2> QED BY <2>3, <2>4
<1>8. Places'
  <2>1. SUFFICES ASSUME NEW i \in 0 .. maxLevel - 1, i >= lv + 1
                 PROVE  LinkPlace(i)'
    BY <1>1 DEF Places, list
  <2>2. i # lv /\ LinkPlace(i)
    BY <1>1, <2>1 DEF Inv, Places
  <2>3. Members(i)' = Members(i)
    BY <1>5, <2>2
  <2>4. \A m : Below(m, i)' = Below(m, i)
    BY <1>1, <2>3 DEF Below
  <2> QED BY <1>1, <2>2, <2>3, <2>4 DEF LinkPlace, Before
<1> QED BY <1>6, <1>7, <1>8 DEF Inv

(* Insert returns once the new node is linked at all its levels. *)
LEMMA InsertReturnStep ==
  ASSUME Inv, TypeOK', InsertReturn
  PROVE  Inv'
<1>1. \A i \in 0 .. maxLevel - 1 : Members(i) = {n \in Live : i < height[n]}
  <2>1. pc = "link" /\ lv = height[node] /\ node \in Node /\ height[node] \in Nat
    BY DEF InsertReturn, Inv, TypeOK, Live
  <2>2. ASSUME NEW i \in 0 .. maxLevel - 1, NEW n \in Live, i < height[n]
        PROVE  ~Pending(n, i)
    BY <2>1, <2>2 DEF Pending, Inv, TypeOK
  <2> QED BY <2>2 DEF Members
<1> QED BY <1>1, ReturnStep DEF InsertReturn

(* Taking the node of arg out of one more level, if it is there. *)
LEMMA UnlinkStep ==
  ASSUME Inv, TypeOK', Unlink
  PROVE  Inv'
<1>1. /\ pc = "unlink" /\ lv' = lv + 1 /\ lv \in 0 .. maxLevel - 1
      /\ lv \in Levels /\ lv \in Int /\ maxLevel \in Nat
      /\ arg \in Key /\ arg \in Nat
      /\ UNCHANGED <<height, key, ptr, list, pc, arg, cur, update, ret>>
      /\ Live' = Live
  BY HeightAssumption, KeyAssumption
     DEF Unlink, Inv, TypeOK, Frame, Levels, Live
<1>2. UnlinkPlace(lv)
  BY <1>1 DEF Inv, Places
<1>3. CASE Pred = Null /\ UNCHANGED <<next, node>>
  <2>1. \A n \in Members(lv) : key[n] # arg
    BY <1>2, <1>3 DEF UnlinkPlace, Pred
  <2>2. node # Null => node \notin Members(lv)
    BY <1>1, <2>1 DEF Inv, Victim
  <2>3. ASSUME NEW i \in 0 .. maxLevel - 1 PROVE Members(i)' = Members(i)
    <3>1. CASE i = lv
      BY <1>1, <1>3, <2>2, <3>1, PointerAssumption DEF Members, Pending, Live
    <3>2. CASE i # lv
      BY <1>1, <1>3, <3>2 DEF Members, Pending, Live
    <3> QED BY <3>1, <3>2
  <2>4. UNCHANGED <<heap, list>>
    BY <1>1, <1>3 DEF heap
  <2>5. /\ (UniqueKeys /\ SuccessorExact)'
        /\ \A i \in 0 .. maxLevel - 1 : \A m : Below(m, i)' = Below(m, i)
    BY <1>1, <2>3, <2>4, Same
  <2>6. Victim'
    <3>1. lv = 0 => Members(lv) = Live \/ node # Null
      BY <1>1, PointerAssumption DEF Members, Pending, Live, Inv, TypeOK
    <3> QED BY <1>1, <1>3, <2>1, <3>1 DEF Inv, Victim
  <2>7. Places'
    <3>1. SUFFICES ASSUME NEW i \in 0 .. maxLevel - 1, i >= lv + 1
                   PROVE  UnlinkPlace(i)'
      BY <1>1 DEF Places, list
    <3>2. UnlinkPlace(i)
      BY <1>1, <3>1 DEF Inv, Places
    <3> QED BY <1>1, <1>3, <2>3, <3>2 DEF UnlinkPlace, Before
  <2>8. Frame' /\ Cursor'
    BY <1>1, <1>3 DEF Inv, Frame, Cursor, Searching, list
  <2> QED BY <2>5, <2>6, <2>7, <2>8 DEF Inv
<1>4. CASE /\ Pred # Null /\ UnlinkReads
           /\ node' = next[Pred][lv]
           /\ next' = [next EXCEPT ![Pred][lv] = next[next[Pred][lv]][lv]]
  <2> DEFINE v == next[Pred][lv]
  <2>1. /\ v \in Members(lv) /\ v \in Live /\ v \in Node /\ v # Null
        /\ key[v] = arg /\ Before(Pred, lv) /\ LinkExact(Pred, lv)
        /\ v \in Below(Pred, lv) /\ Pred \in Node \cup {Head}
    <3>1. v \in Members(lv) /\ key[v] = arg /\ Before(Pred, lv)
      BY <1>2, <1>4 DEF UnlinkPlace, Pred
    <3>2. v \in Live /\ v \in Node
      BY <3>1, MemberType DEF Inv
    <3>3. v # Null /\ v # Tail
      BY <3>2, PointerAssumption
    <3>4. LinkExact(Pred, lv) /\ v \in Below(Pred, lv)
      BY <1>1, <3>1, <3>3, Readable
    <3>5. Pred \in Node \cup {Head}
      BY <3>1 DEF Before, Members, Live
    <3> QED BY <3>1, <3>2, <3>3, <3>4, <3>5
  <2>2. node' = v /\ (node = v \/ (node = Null /\ lv = 0))
    BY <1>1, <1>4, <2>1 DEF Inv, Victim, UniqueKeys
  <2>3. /\ next'[Pred][lv] = next[v][lv]
        /\ \A m \in Node \cup {Head}, i \in Levels :
             i # lv \/ m # Pred => next'[m][i] = next[m][i]
    BY <1>1, <1>4, <2>1 DEF Inv, TypeOK
  <2>4. ASSUME NEW i \in 0 .. maxLevel - 1
        PROVE  Members(i)' = IF i = lv THEN Members(lv) \ {v} ELSE Members(i)
    <3>1. i \in Int
      OBVIOUS
    <3>2. \A n : n # v => (n \in Members(i)' <=> n \in Members(i))
      BY <1>1, <2>2, PointerAssumption DEF Members, Pending, Live
    <3>3. v \in Members(i)' <=> i < height[v] /\ ~(i < lv + 1)
      BY <1>1, <2>1, <2>2 DEF Members, Pending
    <3>4. v \in Members(i) <=> i < height[v] /\ ~(i < lv)
      BY <1>1, <2>1, <2>2, PointerAssumption, <3>1 DEF Members, Pending
    <3>5. CASE i = lv
      BY <1>1, <3>1, <3>2, <3>3, <3>5
    <3>6. CASE i # lv
      BY <1>1, <3>1, <3>2, <3>3, <3>4, <3>6
    <3> QED BY <3>5, <3>6
  <2>5. (Frame /\ UniqueKeys /\ Cursor /\ Victim)'
    BY <1>1, <2>1, <2>2 DEF Inv, Frame, UniqueKeys, Cursor, Victim, Searching, list
  <2>6. SuccessorExact'
    <3>1. SUFFICES ASSUME NEW i \in 0 .. maxLevel - 1,
                          NEW m \in Members(i)' \cup {Head}
                   PROVE  LinkExact(m, i)'
      BY <1>1 DEF SuccessorExact, list
    <3>2. i \in Levels /\ Members(i) \subseteq Node
      BY MemberType, HeightAssumption DEF Inv, TypeOK, Levels
    <3>3. CASE i # lv
      <4>1. Members(i)' = Members(i) /\ m \in Members(i) \cup {Head}
        BY <2>4, <3>1, <3>3
      <4>2. LinkExact(m, i) /\ next'[m][i] = next[m][i]
        BY <1>1, <2>3, <3>2, <3>3, <4>1 DEF Inv, SuccessorExact
      <4>3. Below(m, i)' = Below(m, i)
        BY <1>1, <4>1 DEF Below
      <4> QED BY <1>1, <4>2, <4>3 DEF LinkExact
    <3>4. CASE i = lv
      <4>1. /\ Members(i)' = Members(lv) \ {v}
            /\ m \in Members(lv) \cup {Head} /\ m # v
            /\ LinkExact(m, lv) /\ LinkExact(v, lv)
        BY <1>1, <2>1, <2>4, <3>1, <3>4, PointerAssumption DEF Inv, SuccessorExact
      <4>2. /\ \A n \in Members(lv) : key[n] \in Nat /\ (key[n] = arg => n = v)
            /\ Pred # Head => Pred \in Members(lv) /\ key[Pred] > arg
        BY <2>1, MemberType DEF Inv, UniqueKeys, Before
      <4>3. Below(m, i)' = Below(m, lv) \ {v}
        BY <1>1, <3>4, <4>1 DEF Below
      <4>4. \A n \in Below(Pred, lv) : key[n] <= arg
        BY <2>1 DEF LinkExact
      <4>5. CASE m = Pred
        <5>1. Below(v, lv) = Below(Pred, lv) \ {v}
          <6>1. \A n \in Members(lv) : n \in Below(v, lv) <=> key[n] < arg
            BY <2>1, PointerAssumption DEF Below
          <6>2. \A n \in Members(lv) \ {v} : n \in Below(Pred, lv) <=> key[n] < arg
            BY <1>1, <4>2, <4>4 DEF Below
          <6>3. v \notin Below(v, lv)
            BY <1>1, <2>1, <6>1
          <6> QED BY <6>1, <6>2, <6>3, MemberType DEF Inv
        <5> QED BY <1>1, <2>3, <3>4, <4>1, <4>3, <4>5, <5>1 DEF LinkExact
      <4>6. CASE m # Pred
        <5>1. next'[m][i] = next[m][i]
          BY <2>3, <3>2, <3>4, <4>1, <4>6
        <5>2. next[m][lv] # v
          <6> SUFFICES ASSUME next[m][lv] = v PROVE FALSE
            OBVIOUS
          <6>1. v \in Below(m, lv) /\ \A n \in Below(m, lv) : key[n] <= arg
            BY <2>1, <4>1, PointerAssumption DEF LinkExact
          <6>2. m # Head => m \in Members(lv) /\ key[m] > arg
            BY <1>1, <2>1, <4>1, <4>2, <6>1 DEF Below
          <6>3. Pred \notin Below(m, lv) /\ m \notin Below(Pred, lv)
            BY <1>1, <4>2, <4>4, <6>1, <6>2, MemberType, PointerAssumption
               DEF Inv, Live
          <6>4. m # Head /\ Pred # Head
            BY <4>1, <4>2, <4>6, <6>3 DEF Below
          <6>5. key[m] = key[Pred]
            BY <4>2, <6>2, <6>3, <6>4 DEF Below
          <6> QED BY <4>2, <4>6, <6>2, <6>4, <6>5, MemberType DEF Inv, UniqueKeys
        <5> QED BY <1>1, <3>4, <4>1, <4>3, <5>1, <5>2 DEF LinkExact
      <4> QED BY <4>5, <4>6
    <3> QED BY <3>3, <3>4
  <2>7. Places'
    <3>1. SUFFICES ASSUME NEW i \in 0 .. maxLevel - 1, i >= lv + 1
                   PROVE  UnlinkPlace(i)'
      BY <1>1 DEF Places, list
    <3>2. UnlinkPlace(i) /\ i # lv /\ i \in Levels
      BY <1>1, <3>1, HeightAssumption DEF Inv, TypeOK, Places, Levels
    <3>3. Members(i)' = Members(i)
      BY <2>4, <3>2
    <3>4. Before(update[i], i) => next'[update[i]][i] = next[update[i]][i]
      BY <2>3, <3>2, MemberType DEF Before, Inv
    <3> QED BY <1>1, <3>2, <3>3, <3>4 DEF UnlinkPlace, Before
  <2> QED BY <2>5, <2>6, <2>7 DEF Inv
<1> QED BY <1>3, <1>4 DEF Unlink

(* Remove frees a node no level refers to any more. *)
LEMMA RemoveReturnStep ==
  ASSUME Inv, TypeOK', RemoveReturn
  PROVE  Inv'
<1>1. /\ pc = "unlink" /\ lv = maxLevel /\ maxLevel \in Nat /\ UNCHANGED list
      /\ pc' = "idle" /\ node' = Null /\ arg' = Unset
  BY DEF RemoveReturn, Return, Inv, TypeOK
<1>2. CASE node = Null /\ Return("idle", -1) /\ UNCHANGED heap
  BY <1>1, <1>2, NonePending, ReturnStep DEF Inv
<1>3. CASE node # Null /\ Return("idle", 0) /\ Free(node, next)
  <2>1. node \in Live /\ node \in Node /\ node # Head
    BY <1>1, <1>3, MemberType, PointerAssumption DEF Inv, Victim
  <2>2. /\ height'[node] = 0
        /\ \A m \in Node \ {node} : height'[m] = height[m] /\ key'[m] = key[m]
        /\ \A m \in (Node \cup {Head}) \ {node} : next'[m] = next[m]
    BY <1>3, <2>1 DEF Free, Inv, TypeOK
  <2>3. Live' = Live \ {node}
    BY <2>1, <2>2 DEF Live
  <2>4. ASSUME NEW i \in 0 .. maxLevel - 1 PROVE Members(i)' = Members(i)
    <3>1. Members(i)' = {n \in Live' : i < height'[n]}
      BY <1>1, NonePendingNext
    <3>2. Members(i) = {n \in Live \ {node} : i < height[n]}
      BY <1>1 DEF Members, Pending
    <3> QED BY <2>2, <2>3, <3>1, <3>2, MemberType DEF Inv
  <2>5. UniqueKeys'
    BY <2>2, <2>3, MemberType DEF Inv, UniqueKeys
  <2>6. SuccessorExact'
    <3>1. SUFFICES ASSUME NEW i \in 0 .. maxLevel - 1,
                          NEW m \in Members(i) \cup {Head}
                   PROVE  LinkExact(m, i)'
      BY <1>1, <2>4 DEF SuccessorExact, list
    <3>2. Members(i) \subseteq Node \ {node}
      BY <1>1, MemberType DEF Members, Pending, Inv
    <3>3. next'[m] = next[m] /\ \A n \in Members(i) : key'[n] = key[n]
      BY <2>1, <2>2, <3>2
    <3>4. Below(m, i)' = Below(m, i)
      BY <2>4, <3>3 DEF Below
    <3>5. LinkExact(m, i)
      BY <1>1 DEF Inv, SuccessorExact
    <3>6. Below(m, i) \subseteq Members(i)
      BY DEF Below
    <3>7. CASE Below(m, i) = {}
      BY <3>3, <3>4, <3>5, <3>7 DEF LinkExact
    <3>8. CASE Below(m, i) # {}
      BY <3>3, <3>4, <3>5, <3>6, <3>8 DEF LinkExact
    <3> QED BY <3>7, <3>8
  <2>7. Frame'
    <3>1. \A m \in Node : height'[m] <= maxLevel
      BY <1>1, <2>2 DEF Inv, Frame
    <3> QED BY <1>1, <3>1 DEF Inv, Frame, Searching, list
  <2>8. (Cursor /\ Places /\ Victim)'
    BY <1>1 DEF Cursor, Places, Victim, Searching
  <2> QED BY <2>5, <2>6, <2>7, <2>8 DEF Inv
<1> QED BY <1>2, <1>3 DEF RemoveReturn

(* The teardown: the head's first node is the largest, so popping it leaves
   the rest of level 0 as it was. *)
LEMMA DestroyStart ==
  ASSUME Inv, pc = "destroy"
  PROVE  /\ maxLevel \in Nat \ {0} /\ 0 \in Levels /\ node = Null
         /\ Members(0) = Live /\ Below(Head, 0) = Live
         /\ LinkExact(Head, 0)
<1>1. maxLevel \in Nat \ {0} /\ node = Null /\ 0 \in Levels
  BY HeightAssumption DEF Inv, TypeOK, Frame, Levels
<1>2. Members(0) = Live
  BY <1>1, NonePending DEF Inv, Live
<1> QED BY <1>1, <1>2 DEF Below, Inv, SuccessorExact

LEMMA DestroyNodeStep ==
  ASSUME Inv, TypeOK', DestroyNode
  PROVE  Inv'
<1> DEFINE f == First
<1>1. /\ pc = "destroy" /\ UNCHANGED <<list, pc, locals, ret>>
      /\ f # Tail /\ f = next[Head][0]
      /\ Free(f, [next EXCEPT ![Head][0] = next[f][0]])
  BY DEF DestroyNode, First
<1>2. /\ maxLevel \in Nat \ {0} /\ 0 \in Levels /\ node = Null
      /\ Members(0) = Live /\ Below(Head, 0) = Live /\ LinkExact(Head, 0)
  BY <1>1, DestroyStart
<1>3. f \in Live /\ f \in Node /\ f # Head /\ \A n \in Live : key[n] <= key[f]
  BY <1>1, <1>2, MemberType, PointerAssumption DEF LinkExact, Inv
<1> HIDE DEF f
<1>4. /\ height'[f] = 0
      /\ \A m \in Node \ {f} : height'[m] = height[m] /\ key'[m] = key[m]
      /\ \A m \in Node \ {f} : next'[m] = next[m]
      /\ next'[Head][0] = next[f][0]
  <2>1. /\ height' = [height EXCEPT ![f] = 0] /\ key' = [key EXCEPT ![f] = Unset]
        /\ next' = [[next EXCEPT ![Head][0] = next[f][0]] EXCEPT ![f] = Blank]
    BY <1>1 DEF Free
  <2> QED BY <1>2, <1>3, <2>1, PointerAssumption DEF Inv, TypeOK
<1>5. Live' = Live \ {f}
  BY <1>3, <1>4 DEF Live
<1>6. Members(0)' = Live \ {f}
  <2>1. Members(0)' = {n \in Live' : 0 < height'[n]}
    BY <1>1, <1>2, NonePendingNext DEF locals
  <2> QED BY <1>4, <1>5, <2>1 DEF Live
<1>7. UniqueKeys'
  BY <1>4, <1>5, MemberType DEF Inv, UniqueKeys
<1>8. Frame'
  <2>1. \A m \in Node : height'[m] <= maxLevel
    BY <1>2, <1>4 DEF Inv, Frame
  <2> QED BY <1>1, <1>2, <2>1 DEF Inv, Frame, Searching, list, locals
<1>9. SuccessorExact'
  <2>1. SUFFICES ASSUME NEW m \in (Live \ {f}) \cup {Head}
                 PROVE  LinkExact(m, 0)'
    BY <1>1, <1>6 DEF SuccessorExact
  <2>2. \A n \in Live : n \in Node /\ key[n] \in Nat
    BY MemberType DEF Inv
  <2>3. \A n \in Live \ {f} : key'[n] = key[n]
    BY <1>4, <2>2
  <2>4. CASE m = Head
    <3>1. Below(m, 0)' = Live \ {f}
      BY <1>6, <2>4 DEF Below
    <3>2. Below(f, 0) = Live \ {f}
      <4>1. \A n \in Live \ {f} : key[n] < key[f]
        BY <1>3, <2>2 DEF Inv, UniqueKeys
      <4> QED BY <1>2, <1>3, <2>2, <4>1 DEF Below
    <3>3. LinkExact(f, 0)
      BY <1>1, <1>2, <1>3 DEF Inv, SuccessorExact
    <3>4. next'[m][0] = next[f][0]
      BY <1>4, <2>4
    <3>5. CASE Live \ {f} = {}
      BY <3>1, <3>2, <3>3, <3>4, <3>5 DEF LinkExact
    <3>6. CASE Live \ {f} # {}
      BY <2>3, <3>1, <3>2, <3>3, <3>4, <3>6 DEF LinkExact
    <3> QED BY <3>5, <3>6
  <2>5. CASE m # Head
    <3>1. m \in Live \ {f} /\ LinkExact(m, 0) /\ next'[m] = next[m]
      BY <1>1, <1>2, <1>4, <2>1, <2>2, <2>5 DEF Inv, SuccessorExact
    <3>2. f \notin Below(m, 0) /\ Below(m, 0) \subseteq Live \ {f}
      BY <1>2, <1>3, <2>2, <2>5, <3>1 DEF Below
    <3>3. Below(m, 0)' = Below(m, 0)
      BY <1>2, <1>6, <2>3, <2>5, <3>1, <3>2 DEF Below
    <3>4. CASE Below(m, 0) = {}
      BY <3>1, <3>3, <3>4 DEF LinkExact
    <3>5. CASE Below(m, 0) # {}
      BY <2>3, <3>1, <3>2, <3>3, <3>5 DEF LinkExact
    <3> QED BY <3>4, <3>5
  <2> QED BY <2>4, <2>5
<1>10. (Cursor /\ Places /\ Victim)'
  BY <1>1 DEF Cursor, Places, Victim, Searching
<1> QED BY <1>7, <1>8, <1>9, <1>10 DEF Inv

LEMMA DestroyListStep ==
  ASSUME Inv, TypeOK', DestroyList
  PROVE  Inv'
<1>1. /\ pc = "destroy" /\ pc' = "none" /\ maxLevel' = 0 /\ node' = Null
      /\ arg' = Unset
      /\ UNCHANGED <<height, key, ptr>> /\ next[Head][0] = Tail
  BY DEF DestroyList, Return, First
<1>2. Live = {} /\ Live' = {}
  <2>1. Live = {}
    BY <1>1, DestroyStart, MemberType, PointerAssumption DEF LinkExact, Inv
  <2> QED BY <1>1, <2>1 DEF Live
<1>3. Frame'
  BY <1>1, <1>2 DEF Frame, Searching, Live, Inv, TypeOK
<1>4. (UniqueKeys /\ SuccessorExact /\ Cursor /\ Places /\ Victim)'
  BY <1>1, <1>2
     DEF UniqueKeys, SuccessorExact, Cursor, Places, Victim, Searching
<1> QED BY <1>3, <1>4 DEF Inv

-----------------------------------------------------------------------------
LEMMA InvStep == ASSUME Disciplined, Inv, [Next]_vars PROVE Inv'
<1>1. TypeOK'
  BY TypeStep DEF Inv
<1>2. CASE UNCHANGED vars
  BY <1>2 DEF vars, heap, list, locals, Inv, TypeOK, Frame, UniqueKeys,
     SuccessorExact, LinkExact, Below, Members, Pending, Live, Cursor, Before,
     Places, LinkPlace, UnlinkPlace, Victim, Searching
<1> QED BY <1>1, <1>2, CreateStep, InsertStep, IdleStep, InsertScanStep,
           RemoveScanStep, FindStep, RelinkStep, InsertLinkStep,
           InsertReturnStep, UnlinkStep, RemoveReturnStep, DestroyNodeStep,
           DestroyListStep DEF Next, Caller, Step

(* Inv is an invariant of every disciplined use of the list. *)
THEOREM Invariant == ASSUME Disciplined PROVE Spec => []Inv
<1>1. Init => Inv
  BY InvInit
<1>2. Inv /\ [Next]_vars => Inv'
  BY InvStep
<1> QED BY <1>1, <1>2, PTL DEF Spec

(* MemorySafe: used with unique keys, and where the sentinel's unset fields
   happen to be harmless, no call of skip_list.c reads freed or unset memory. *)
THEOREM Safety == ASSUME Disciplined PROVE Spec => []MemorySafe
<1>1. Inv => MemorySafe
  BY InvSafe
<1> QED BY <1>1, Invariant, PTL

(* SuccessorExact: every level is an exact descending list of its members at
   every instant, also halfway through linking and unlinking a node. *)
THEOREM LinksExact == ASSUME Disciplined PROVE Spec => []SuccessorExact
<1>1. Inv => SuccessorExact
  BY DEF Inv
<1> QED BY <1>1, Invariant, PTL

-----------------------------------------------------------------------------
(* Every step of the list is a step of the store or leaves it alone. *)

(* What the store holds depends on level 0 and the payload of its members. *)
LEMMA EntriesKept ==
  ASSUME Members(0)' = Members(0),
         \A n \in Members(0) : key'[n] = key[n] /\ ptr'[n] = ptr[n]
  PROVE  storeEntries' = storeEntries
  BY DEF storeEntries

LEMMA EntriesDomain == DOMAIN storeEntries = Members(0)
  BY DEF storeEntries

(* The entries stored under k are the members of level 0 with that key. *)
LEMMA StoredIs ==
  ASSUME NEW k PROVE Store!Stored(k) = {n \in Members(0) : key[n] = k}
  BY DEF storeEntries, Store!Stored

LEMMA StoreInit == ASSUME Init PROVE Store!Init
<1>1. Members(0) = {}
  BY DEF Init, Members, Live
<1>2. storePhase = "none" /\ storeReq = Store!NoReq /\ ret = Unset
  BY DEF Init, storePhase, storeReq, Store!NoReq
<1>3. storeEntries = [e \in {} |-> Store!NoReq]
  BY <1>1 DEF storeEntries
<1> QED BY <1>2, <1>3 DEF Store!Init

(* Level 0 of a list with a level is one of the levels of the invariant. *)
LEMMA LevelZero == ASSUME TypeOK, Frame, pc # "none" PROVE 0 \in 0 .. maxLevel - 1
  BY DEF TypeOK, Frame

(* Steps that only search, or relink an upper level, leave the store alone. *)
LEMMA Stutter ==
  ASSUME Members(0)' = Members(0), UNCHANGED <<key, ptr, arg, node, ret>>,
         storePhase' = storePhase,
         pc \in {"insert", "link"} <=> pc' \in {"insert", "link"}
  PROVE  UNCHANGED Store!vars
<1>1. storeEntries' = storeEntries
  BY EntriesKept
<1>2. storeReq' = storeReq
  BY DEF storeReq
<1> QED BY <1>1, <1>2 DEF Store!vars

LEMMA CreateMaps ==
  ASSUME TypeOK, Frame, NEW r \in Requests, Create(r) PROVE Store!Open
<1>1. /\ pc = "none" /\ pc' = "idle" /\ ret' = Unset /\ Live = {} /\ Live' = {}
      /\ arg' = Unset
  BY DEF Create, Frame, Live, locals
<1>2. storeEntries' = storeEntries
  BY <1>1, EntriesKept DEF Members
<1>3. storePhase = "none" /\ storePhase' = "idle" /\ storeReq' = Store!NoReq
  BY <1>1 DEF storePhase, storeReq, Store!NoReq
<1> QED BY <1>1, <1>2, <1>3 DEF Store!Open, Store!Answer

LEMMA InsertMaps ==
  ASSUME TypeOK, Frame, TypeOK', NEW k \in Key, NEW v \in Val, Insert(k, v)
  PROVE  Store!Insert(k, v)
<1>1. PICK n \in Node \ Live, l \in RandomLevel :
        Alloc(n, k, v, l + 1) /\ node' = n
  BY DEF Insert
<1>2. pc = "idle" /\ pc' = "insert" /\ arg' = k /\ ret' = Unset /\ node = Null
  BY DEF Insert, Start, Frame
<1>3. /\ \A m \in Node \ {n} : /\ height'[m] = height[m]
                              /\ key'[m] = key[m] /\ ptr'[m] = ptr[m]
      /\ ptr'[n] = v
  BY <1>1 DEF Alloc, TypeOK
<1>4. Members(0)' = Members(0)
  <2>1. Members(0) = {m \in Live : 0 < height[m]}
    BY <1>2, NonePending
  <2>2. Members(0)' = {m \in Live' : 0 < height'[m] /\ m # n}
    BY <1>1, <1>2 DEF Members, Pending
  <2> QED BY <1>1, <1>3, <2>1, <2>2 DEF Live
<1>5. storeEntries' = storeEntries
  BY <1>1, <1>3, <1>4, EntriesKept, MemberType
<1>6. /\ storePhase = "idle" /\ storePhase' = "insert"
      /\ storeReq' = [key |-> k, ptr |-> v]
  BY <1>1, <1>2, <1>3 DEF storePhase, storeReq
<1> QED BY <1>2, <1>5, <1>6 DEF Store!Insert, Store!Call

LEMMA IdleMaps ==
  ASSUME TypeOK, Frame, TypeOK'
  PROVE  /\ InsertNoMemory => Store!InsertRefused
         /\ \A k \in Key : Remove(k) => Store!Remove(k)
         /\ \A k \in Key : Find(k) => Store!Find(k)
         /\ Destroy => Store!Close
<1> SUFFICES ASSUME InsertNoMemory \/ Destroy \/ \E k \in Key : Remove(k) \/ Find(k)
             PROVE  /\ InsertNoMemory => Store!InsertRefused
                    /\ \A k \in Key : Remove(k) => Store!Remove(k)
                    /\ \A k \in Key : Find(k) => Store!Find(k)
                    /\ Destroy => Store!Close
  OBVIOUS
<1>1. /\ pc = "idle" /\ pc' \in {"idle", "remove", "find", "destroy"}
      /\ UNCHANGED <<heap, list>> /\ node' = node /\ node = Null
  BY DEF InsertNoMemory, Remove, Find, Destroy, Start, locals, Frame
<1>2. storeEntries' = storeEntries
  <2>1. Members(0)' = Members(0)
    BY <1>1, NonePending, NonePendingNext DEF heap, Live
  <2> QED BY <1>1, <2>1, EntriesKept DEF heap
<1>3. storePhase = "idle" /\ storePhase' = pc'
      /\ storeReq' = [key |-> arg', ptr |-> Unset]
  BY <1>1 DEF storePhase, storeReq
<1>4. InsertNoMemory => Store!InsertRefused
  BY <1>1, <1>2, <1>3 DEF InsertNoMemory, locals, Frame,
     Store!InsertRefused, Store!Answer, Store!NoReq
<1>5. \A k \in Key : Remove(k) => Store!Remove(k)
  BY <1>2, <1>3 DEF Remove, Start, Store!Remove, Store!Call
<1>6. \A k \in Key : Find(k) => Store!Find(k)
  BY <1>2, <1>3 DEF Find, Start, Store!Find, Store!Call
<1>7. Destroy => Store!Close
  BY <1>2, <1>3 DEF Destroy, Start, Store!Close, Store!Call, Store!NoReq
<1> QED BY <1>4, <1>5, <1>6, <1>7

(* The search steps change neither memory nor what is pending. *)
LEMMA ScanStutters ==
  ASSUME TypeOK, Frame, TypeOK', Searching, pc' = pc,
         UNCHANGED <<heap, list, arg, node, ret>>
  PROVE  UNCHANGED Store!vars
<1>1. Members(0)' = Members(0)
  BY ScanMembers
<1>2. storePhase' = storePhase
  BY DEF storePhase, Searching
<1> QED BY <1>1, <1>2, Stutter DEF heap

LEMMA RelinkMaps ==
  ASSUME TypeOK, Frame, TypeOK', InsertRelink \/ RemoveRelink
  PROVE  UNCHANGED Store!vars
<1>1. /\ UNCHANGED <<heap, list, arg, cur, update, node, ret>> /\ lv' = 0
      /\ \/ pc = "insert" /\ pc' = "link"
         \/ pc = "remove" /\ pc' = "unlink"
  BY DEF InsertRelink, RemoveRelink, Relink
<1>2. Members(0)' = Members(0)
  BY <1>1, LevelZero, RelinkMembers
<1>3. storePhase' = storePhase
  BY <1>1 DEF storePhase, Frame
<1> QED BY <1>1, <1>2, <1>3, Stutter DEF heap

(* A return answers and leaves the entries: nothing was pending on level 0. *)
LEMMA ReturnMaps ==
  ASSUME TypeOK', NEW r, Return("idle", r), UNCHANGED <<heap, list>>,
         Members(0) = {n \in Live : 0 < height[n]}
  PROVE  Store!Answer(r)
<1>1. pc' = "idle" /\ node' = Null /\ arg' = Unset /\ ret' = r
  BY DEF Return
<1>2. Members(0)' = Members(0)
  BY <1>1, NonePendingNext DEF heap, Live
<1>3. storeEntries' = storeEntries
  BY <1>2, EntriesKept DEF heap
<1>4. storePhase' = "idle" /\ storeReq' = Store!NoReq
  BY <1>1 DEF storePhase, storeReq, Store!NoReq
<1> QED BY <1>1, <1>3, <1>4 DEF Store!Answer

(* Linking level 0 is the instant an insert takes effect. *)
LEMMA InsertLinkMaps ==
  ASSUME TypeOK, Frame, TypeOK', InsertLink
  PROVE  Store!InsertEffect \/ UNCHANGED Store!vars
<1>1. /\ pc = "link" /\ lv' = lv + 1 /\ lv \in Nat /\ node \in Live
      /\ lv < height[node] /\ height[node] \in Nat /\ key[node] = arg
      /\ node \in Node
      /\ UNCHANGED <<height, key, ptr, list, pc, arg, cur, update, node, ret>>
  BY DEF InsertLink, TypeOK, Frame, Live
<1>2. CASE lv = 0
  <2>1. Members(0)' = Members(0) \cup {node} /\ node \notin Members(0)
    BY <1>1, <1>2 DEF Members, Pending, Live
  <2>2. storeReq = [key |-> arg, ptr |-> ptr[node]] /\ storeReq' = storeReq
    BY <1>1 DEF storeReq
  <2>3. storePhase = "insert" /\ storePhase' = "inserted"
    BY <1>1, <1>2 DEF storePhase
  <2>4. storeEntries' = [x \in Members(0) \cup {node} |->
                           IF x = node THEN storeReq ELSE storeEntries[x]]
    BY <1>1, <2>1, <2>2 DEF storeEntries
  <2> QED BY <1>1, <2>1, <2>2, <2>3, <2>4, EntriesDomain DEF Store!InsertEffect
<1>3. CASE lv > 0
  <2>1. Members(0)' = Members(0)
    BY <1>1, <1>3 DEF Members, Pending, Live
  <2>2. storePhase' = storePhase
    BY <1>1, <1>3 DEF storePhase
  <2> QED BY <1>1, <2>1, <2>2, Stutter
<1> QED BY <1>1, <1>2, <1>3

LEMMA InsertReturnMaps ==
  ASSUME TypeOK, Frame, TypeOK', InsertReturn
  PROVE  Store!InsertReturn
<1>1. /\ pc = "link" /\ lv = height[node] /\ lv \in Nat \ {0}
      /\ Return("idle", 0) /\ UNCHANGED <<heap, list>>
  BY DEF InsertReturn, TypeOK, Live
<1>2. Members(0) = {n \in Live : 0 < height[n]}
  BY <1>1 DEF Members, Pending
<1>3. storePhase = "inserted"
  BY <1>1 DEF storePhase
<1> QED BY <1>1, <1>2, <1>3, ReturnMaps DEF Store!InsertReturn

(* Unlinking level 0 is the instant a remove takes effect. *)
LEMMA UnlinkMaps ==
  ASSUME Inv, Inv', Unlink
  PROVE  Store!RemoveEffect \/ UNCHANGED Store!vars
<1>1. /\ pc = "unlink" /\ lv' = lv + 1 /\ lv \in 0 .. maxLevel - 1 /\ lv \in Nat
      /\ UNCHANGED <<height, key, ptr, list, pc, arg, cur, update, ret>>
      /\ Live' = Live /\ storeReq' = storeReq
  BY DEF Unlink, Inv, TypeOK, Frame, Live, storeReq
<1>2. UnlinkPlace(lv)
  BY <1>1 DEF Inv, Places
<1>3. CASE node' = node
  <2>1. Members(0)' = Members(0)
    <3>1. CASE node = Null
      BY <1>1, <1>3, <3>1, PointerAssumption DEF Members, Pending, Live
    <3>2. CASE node # Null
      <4>1. lv > 0
        BY <1>1, <3>2 DEF Inv, Victim
      <4> QED BY <1>1, <1>3, <4>1 DEF Members, Pending
    <3> QED BY <3>1, <3>2
  <2>2. storePhase' = storePhase
    BY <1>1, <1>3 DEF storePhase
  <2> QED BY <1>1, <1>3, <2>1, <2>2, Stutter
<1>4. CASE node' # node
  <2>1. Pred # Null /\ node' = next[Pred][lv]
    BY <1>4 DEF Unlink
  <2>2. /\ node' \in Members(lv) /\ node' \in Live /\ node' \in Node
        /\ key[node'] = arg /\ node' # Null
    BY <1>2, <2>1, MemberType, PointerAssumption DEF UnlinkPlace, Pred, Inv
  <2>3. node = Null /\ lv = 0
    BY <1>1, <1>4, <2>2 DEF Inv, Victim, UniqueKeys
  <2>4. Members(0)' = Members(0) \ {node'} /\ node' \in Members(0)
    BY <1>1, <2>2, <2>3, PointerAssumption DEF Members, Pending, Live
  <2>5. storeEntries' = [x \in Members(0) \ {node'} |-> storeEntries[x]]
    BY <1>1, <2>4 DEF storeEntries
  <2>6. storePhase = "remove" /\ storePhase' = "removed"
    BY <1>1, <2>2, <2>3 DEF storePhase
  <2>7. storeReq.key = arg
    BY DEF storeReq
  <2>8. node' \in Store!Stored(storeReq.key)
    BY <2>2, <2>4, <2>7, StoredIs
  <2> QED BY <1>1, <2>5, <2>6, <2>8, EntriesDomain DEF Store!RemoveEffect
<1> QED BY <1>3, <1>4

LEMMA RemoveReturnMaps ==
  ASSUME Inv, Inv', RemoveReturn
  PROVE  Store!RemoveReturn \/ Store!RemoveMiss
<1>1. /\ pc = "unlink" /\ lv = maxLevel /\ maxLevel > 0 /\ maxLevel \in Nat
      /\ UNCHANGED list /\ storeReq.key = arg
  BY DEF RemoveReturn, Inv, TypeOK, Frame, storeReq
<1>2. CASE node = Null /\ Return("idle", -1) /\ UNCHANGED heap
  <2>1. Store!Answer(-1)
    BY <1>1, <1>2, NonePending, ReturnMaps DEF Inv
  <2>2. storePhase = "remove"
    BY <1>1, <1>2 DEF storePhase
  <2>3. Store!Stored(storeReq.key) = {}
    BY <1>1, <1>2, StoredIs, MemberType DEF Inv, Victim
  <2> QED BY <2>1, <2>2, <2>3 DEF Store!RemoveMiss
<1>3. CASE node # Null /\ Return("idle", 0) /\ Free(node, next)
  <2>1. pc' = "idle" /\ node' = Null /\ arg' = Unset /\ ret' = 0
    BY <1>3 DEF Return
  <2>2. /\ node \in Node
        /\ \A m \in Node \ {node} : /\ height'[m] = height[m]
                                   /\ key'[m] = key[m] /\ ptr'[m] = ptr[m]
        /\ height'[node] = 0
    BY <1>1, <1>3, MemberType DEF Inv, Victim, Free, TypeOK
  <2>3. Members(0)' = Members(0)
    <3>1. Members(0)' = {n \in Live' : 0 < height'[n]}
      BY <2>1, NonePendingNext DEF Inv
    <3>2. Members(0) = {n \in Live \ {node} : 0 < height[n]}
      BY <1>1 DEF Members, Pending
    <3> QED BY <2>2, <3>1, <3>2 DEF Live
  <2>4. node \notin Members(0)
    BY <1>1 DEF Members, Pending
  <2>5. storeEntries' = storeEntries
    BY <2>2, <2>3, <2>4, EntriesKept, MemberType DEF Inv
  <2>6. /\ storePhase = "removed" /\ storePhase' = "idle"
        /\ storeReq' = Store!NoReq
    BY <1>1, <1>3, <2>1 DEF storePhase, storeReq, Store!NoReq
  <2> QED BY <2>1, <2>5, <2>6 DEF Store!RemoveReturn, Store!Answer
<1> QED BY <1>2, <1>3 DEF RemoveReturn

(* A search answers what the store holds. *)
LEMMA FindMaps ==
  ASSUME Inv, Inv', FindScan \/ FindMiss
  PROVE  Store!FindHit \/ Store!FindMiss \/ UNCHANGED Store!vars
<1>1. /\ pc = "find" /\ Searching /\ storePhase = "find" /\ storeReq.key = arg
      /\ \A i : Members(i) = {n \in Live : i < height[n]}
      /\ 0 \in 0 .. maxLevel - 1
  BY NonePending, LevelZero
     DEF FindScan, FindMiss, Searching, Inv, Frame, storePhase, storeReq
<1>2. CASE FindMiss
  <2>1. Store!Answer(Null)
    BY <1>1, <1>2, ReturnMaps DEF FindMiss, Inv
  <2>2. \A n \in Members(0) : key[n] # arg
    BY <1>1, <1>2 DEF FindMiss, Inv, Places
  <2> QED BY <1>1, <2>1, <2>2, StoredIs DEF Store!FindMiss
<1>3. CASE FindScan
  <2>1. lv \in 0 .. maxLevel - 1 /\ Before(cur, lv)
    BY <1>1, <1>3 DEF FindScan, Inv, TypeOK, Frame, Cursor
  <2>2. Succ = Tail \/ Succ \in Members(lv)
    BY <1>1, <2>1, Readable, MemberType DEF Succ, Inv
  <2>3. CASE Found /\ Return("idle", ptr[Succ]) /\ UNCHANGED <<heap, list>>
    <3>1. Store!Answer(ptr[Succ])
      BY <1>1, <2>3, ReturnMaps DEF Inv
    <3>2. Succ \in Members(0) /\ key[Succ] = arg
      BY <1>1, <2>1, <2>2, <2>3 DEF Found, KeyOf, Live
    <3>3. Succ \in Store!Stored(storeReq.key) /\ storeEntries[Succ].ptr = ptr[Succ]
      BY <1>1, <3>2, StoredIs DEF storeEntries
    <3> QED BY <1>1, <3>1, <3>3 DEF Store!FindHit
  <2>4. CASE Advance
    BY <1>1, <2>4, ScanStutters DEF Advance, Inv
  <2>5. CASE UNCHANGED <<heap, list, pc, arg, cur, update, node, ret>>
    BY <1>1, <2>5, ScanStutters DEF Inv
  <2> QED BY <1>3, <2>3, <2>4, <2>5 DEF FindScan
<1> QED BY <1>2, <1>3

(* Freeing a node of level 0 drops its entry. *)
LEMMA DropMaps ==
  ASSUME TypeOK, TypeOK', pc = "destroy", node = Null, Members(0) = Live,
         First \in Live, UNCHANGED <<list, pc, locals, ret>>,
         Free(First, [next EXCEPT ![Head][0] = next[First][0]])
  PROVE  Store!Drop
<1>1. First \in Node /\ node' = Null
  BY DEF Live, locals
<1>2. /\ height'[First] = 0
      /\ \A m \in Node \ {First} : /\ height'[m] = height[m]
                                  /\ key'[m] = key[m] /\ ptr'[m] = ptr[m]
  BY <1>1 DEF Free, TypeOK
<1>3. Members(0)' = Members(0) \ {First}
  <2>1. Members(0)' = {n \in Live' : 0 < height'[n]}
    BY <1>1, NonePendingNext
  <2> QED BY <1>1, <1>2, <2>1 DEF Live
<1>4. storeEntries' = [x \in Members(0) \ {First} |-> storeEntries[x]]
  BY <1>1, <1>2, <1>3, MemberType DEF storeEntries
<1>5. storePhase = "destroy" /\ storePhase' = storePhase /\ storeReq' = storeReq
  BY DEF storePhase, storeReq, locals
<1> QED BY <1>1, <1>4, <1>5, EntriesDomain DEF Store!Drop

(* Closing a list with no node left closes an empty store. *)
LEMMA ClosedMaps ==
  ASSUME Live = {}, DestroyList
  PROVE  Store!Closed
<1>1. /\ pc = "destroy" /\ pc' = "none" /\ node' = Null /\ arg' = Unset
      /\ ret' = Unset /\ UNCHANGED <<height, key, ptr>>
  BY DEF DestroyList, Return
<1>2. Members(0) = {} /\ Members(0)' = {}
  BY <1>1 DEF Live, Members
<1>3. storeEntries' = storeEntries
  BY <1>2, EntriesKept
<1>4. /\ storePhase = "destroy" /\ storePhase' = "none"
      /\ storeReq' = Store!NoReq
  BY <1>1 DEF storePhase, storeReq, Store!NoReq
<1> QED BY <1>1, <1>2, <1>3, <1>4, EntriesDomain DEF Store!Closed

(* The teardown drops the entries one by one and closes an empty store. *)
LEMMA DestroyMaps ==
  ASSUME Inv, TypeOK'
  PROVE  /\ DestroyNode => Store!Drop
         /\ DestroyList => Store!Closed
<1>1. ASSUME DestroyNode PROVE Store!Drop
  <2>1. /\ pc = "destroy" /\ UNCHANGED <<list, pc, locals, ret>>
        /\ node = Null /\ Members(0) = Live /\ Below(Head, 0) = Live
        /\ LinkExact(Head, 0) /\ First # Tail /\ First = next[Head][0]
        /\ Free(First, [next EXCEPT ![Head][0] = next[First][0]])
    BY <1>1, DestroyStart DEF DestroyNode, First
  <2> QED BY <2>1, DropMaps DEF LinkExact, Inv
<1>2. ASSUME DestroyList PROVE Store!Closed
  <2>1. pc = "destroy" /\ next[Head][0] = Tail
    BY <1>2 DEF DestroyList, First
  <2>2. Live = {}
    BY <2>1, DestroyStart, MemberType, PointerAssumption DEF LinkExact, Inv
  <2> QED BY <1>2, <2>2, ClosedMaps
<1> QED BY <1>1, <1>2

-----------------------------------------------------------------------------
LEMMA StoreStep ==
  ASSUME Disciplined, Inv, Inv', [Next]_vars
  PROVE  [Store!Next]_(Store!vars)
<1>1. CASE UNCHANGED vars
  BY <1>1 DEF vars, heap, list, locals, Store!vars, storeEntries, storePhase,
     storeReq, Members, Pending, Live
<1>2. CASE InsertScan
  BY <1>2, ScanStutters DEF InsertScan, Advance, Descend, Searching, Inv
<1>3. CASE RemoveScan
  BY <1>3, ScanStutters DEF RemoveScan, Advance, Descend, Searching, Inv
<1>4. CASE \E k \in Key : Remove(k) \/ Find(k)
  BY <1>4, IdleMaps DEF Store!Next, Inv
<1>5. CASE \E k \in Key, v \in Val : Insert(k, v)
  BY <1>5, InsertMaps DEF Store!Next, Inv
<1>6. CASE (\E r \in Requests : Create(r)) \/ InsertNoMemory \/ Destroy
  BY <1>6, CreateMaps, IdleMaps DEF Store!Next, Inv
<1>7. CASE InsertRelink \/ RemoveRelink \/ InsertLink \/ InsertReturn
  BY <1>7, RelinkMaps, InsertLinkMaps, InsertReturnMaps DEF Store!Next, Inv
<1>8. CASE Unlink \/ RemoveReturn \/ FindScan \/ FindMiss
  BY <1>8, UnlinkMaps, RemoveReturnMaps, FindMaps DEF Store!Next
<1>9. CASE DestroyNode \/ DestroyList
  BY <1>9, DestroyMaps DEF Store!Next, Inv
<1> QED BY <1>1, <1>2, <1>3, <1>4, <1>5, <1>6, <1>7, <1>8, <1>9
        DEF Next, Caller, Step

(* StoreSpec: to its caller a disciplined list is a store of entries, with
   one call at a time taking effect at one instant, and a destroyed list has
   given up everything it held. *)
THEOREM Implements == ASSUME Disciplined PROVE Spec => StoreSpec
<1>1. Init => Store!Init
  BY StoreInit
<1>2. Inv /\ Inv' /\ [Next]_vars => [Store!Next]_(Store!vars)
  BY StoreStep
<1> QED BY <1>1, <1>2, Invariant, PTL DEF Spec, StoreSpec, Store!Spec

-----------------------------------------------------------------------------
(* Every step of a call is nearer to its return. *)

(* A step after which the running call has less left to do: it goes on to its
   next loop or returns; a search has gone down a level, or right to where
   fewer members are ahead; a relinking has gone up a level; or the teardown
   has one node less to free. *)
Nearer ==
  \/ pc = "insert" /\ pc' = "link"
  \/ pc = "remove" /\ pc' = "unlink"
  \/ Waiting'
  \/ /\ pc' = pc
     /\ \/ Searching /\ lv' \in -1 .. lv - 1
        \/ /\ Searching /\ lv' = lv
           /\ Below(cur, lv)' \subseteq Below(cur, lv) /\ Below(cur, lv)' # Below(cur, lv)
        \/ pc \in {"link", "unlink"} /\ lv' = lv + 1 /\ lv' \in 1 .. MaxHeight
        \/ pc = "destroy" /\ Live' \subseteq Live /\ Live' # Live

(* Going right, the member stepped on is no longer ahead. *)
LEMMA FewerAhead ==
  ASSUME Inv, Inv', Searching, Advance, lv >= 0, Succ \in Below(cur, lv)
  PROVE  Below(cur, lv)' \subseteq Below(cur, lv) /\ Below(cur, lv)' # Below(cur, lv)
<1>1. /\ lv \in 0 .. maxLevel - 1 /\ cur' = Succ /\ lv' = lv /\ pc' = pc
      /\ UNCHANGED <<heap, list, node, key>>
  BY DEF Inv, Frame, TypeOK, Advance, heap
<1>3. Below(cur, lv)' = Below(Succ, lv)
  <2>1. Below(cur, lv)' = {n \in Members(lv)' : Succ = Head \/ key[n] < key[Succ]}
    BY <1>1 DEF Below
  <2>2. Members(lv)' = Members(lv)
    BY <1>1, ScanSame DEF Inv
  <2> QED BY <2>1, <2>2 DEF Below
<1>4. /\ Succ \in Members(lv) /\ Succ \in Live /\ Succ # Head /\ key[Succ] \in Nat
      /\ cur = Head \/ (cur \in Live /\ key[Succ] < key[cur] /\ key[cur] \in Nat)
      /\ \A n \in Members(lv) : key[n] \in Nat
  <2>1. cur = Head \/ cur \in Live
    BY <1>1, MemberType DEF Inv, Cursor, Before
  <2> QED BY <2>1, MemberType, PointerAssumption DEF Inv, Below
<1>5. Succ \notin Below(Succ, lv)
  BY <1>4 DEF Below
<1>6. Below(Succ, lv) \subseteq Below(cur, lv)
  BY <1>4 DEF Below
<1> QED BY <1>3, <1>5, <1>6

LEMMA StepNearer ==
  ASSUME Disciplined, Inv, Inv', Next, ~Waiting
  PROVE  Nearer
<1>1. /\ Searching /\ lv >= 0 => lv \in 0 .. maxLevel - 1 /\ Before(cur, lv)
      /\ lv \in -1 .. MaxHeight /\ maxLevel \in 0 .. MaxHeight
  BY DEF Inv, TypeOK, Frame, Cursor
<1>2. ASSUME NEW u, Searching, lv >= 0, Descend(u) PROVE Nearer
  BY <1>1, <1>2 DEF Nearer, Descend
<1>3. CASE InsertScan
  <2>1. pc = "insert" /\ lv >= 0 /\ Searching
    BY <1>3 DEF InsertScan, Searching
  <2>2. /\ cur # Tail /\ (Succ = Tail \/ Succ \in Below(cur, lv))
    BY <1>1, <2>1, Readable DEF Succ
  <2>3. CASE ~InsertStops /\ Advance
    <3>1. Succ # Tail
      BY <2>1, <2>2, <2>3 DEF InsertStops, KeyOf, Disciplined, Harmless, Inv, Frame
    <3> QED BY <2>1, <2>2, <2>3, <3>1, FewerAhead DEF Nearer, Advance
  <2> QED BY <1>2, <1>3, <2>1, <2>3 DEF InsertScan
<1>4. CASE RemoveScan \/ FindScan
  <2>1. pc \in {"remove", "find"} /\ lv >= 0 /\ Searching
    BY <1>4 DEF RemoveScan, FindScan, Searching
  <2>2. Succ = Tail \/ Succ \in Below(cur, lv)
    BY <1>1, <2>1, Readable DEF Succ
  <2>3. CASE Right /\ Advance
    BY <2>1, <2>2, <2>3, FewerAhead DEF Nearer, Advance, Right
  <2>4. CASE \E u : Descend(u)
    BY <1>2, <2>1, <2>4
  <2>5. CASE lv' = lv - 1 /\ UNCHANGED <<heap, list, pc, arg, cur, update, node, ret>>
    BY <1>1, <2>1, <2>5 DEF Nearer
  <2>6. CASE Return("idle", ptr[Succ])
    BY <2>6 DEF Nearer, Return, Waiting
  <2> QED BY <1>4, <2>3, <2>4, <2>5, <2>6 DEF RemoveScan, FindScan
<1>5. CASE InsertRelink \/ RemoveRelink
  BY <1>5 DEF InsertRelink, RemoveRelink, Relink, Nearer
<1>6. CASE InsertLink \/ Unlink
  <2>1. lv \in 0 .. MaxHeight - 1
    <3>1. CASE InsertLink
      <4>1. pc = "link" /\ lv < height[node] /\ node \in Live
        BY <3>1 DEF InsertLink, Inv, TypeOK
      <4>2. lv \in 0 .. height[node] /\ height[node] \in 0 .. MaxHeight
        BY <4>1, MemberType DEF Inv, TypeOK, Frame
      <4> QED BY <4>1, <4>2, HeightAssumption
    <3>2. CASE Unlink
      <4>1. pc = "unlink" /\ lv < maxLevel /\ lv \in 0 .. maxLevel
        BY <3>2 DEF Unlink, Inv, Frame
      <4> QED BY <1>1, <4>1, HeightAssumption
    <3> QED BY <1>6, <3>1, <3>2
  <2>2. pc \in {"link", "unlink"} /\ pc' = pc /\ lv' = lv + 1
    BY <1>6 DEF InsertLink, Unlink
  <2>3. lv + 1 \in 1 .. MaxHeight
    BY <2>1, HeightAssumption
  <2> QED BY <2>2, <2>3 DEF Nearer
<1>7. CASE InsertReturn \/ RemoveReturn \/ FindMiss \/ DestroyList
  BY <1>7 DEF InsertReturn, RemoveReturn, FindMiss, DestroyList, Return, Nearer, Waiting
<1>8. CASE DestroyNode
  <2>1. /\ pc = "destroy" /\ pc' = pc /\ First # Tail
        /\ Free(First, [next EXCEPT ![Head][0] = next[First][0]])
    BY <1>8 DEF DestroyNode
  <2>2. First \in Live /\ First \in Node
    BY <2>1, DestroyStart, MemberType DEF LinkExact, First, Inv
  <2>3. Live' = Live \ {First}
    BY <2>1, <2>2 DEF Free, Live, Inv, TypeOK
  <2> QED BY <2>1, <2>2, <2>3 DEF Nearer
<1>9. ~Caller
  BY DEF Caller, Create, Remove, Find, Insert, InsertNoMemory, Destroy, Start, Waiting
<1> QED BY <1>3, <1>4, <1>5, <1>6, <1>7, <1>8, <1>9 DEF Next, Step

(* No call ever turns in circles: every step of it is nearer to its return, in
   the loops of all four calls (skip_list.c:85-181).  With finitely many nodes
   this bounds every call; that a next step is always there is MemorySafe. *)
THEOREM CallsProceed == ASSUME Disciplined PROVE Spec => [][~Waiting => Nearer]_vars
<1>1. Inv /\ Inv' /\ [Next]_vars => [~Waiting => Nearer]_vars
  BY StepNearer
<1> QED BY <1>1, Invariant, PTL DEF Spec

-----------------------------------------------------------------------------
(* Repeated keys and no removal: RepeatsInv *)

(* What a level looks like depends on its members and their links. *)
LEMMA NextKept ==
  ASSUME NEW R, NEW i, next' = next, Members(i)' = Members(i)
  PROVE  \A m : /\ Behind(R, m, i)' = Behind(R, m, i)
                /\ LinkNext(R, m, i)' <=> LinkNext(R, m, i)
  BY DEF Behind, LinkNext

(* A place a search has reached can be read, and leads to Tail or a member. *)
LEMMA Followed ==
  ASSUME NEW R, Listed(R), pc # "destroy", NEW i \in 0 .. maxLevel - 1, NEW m, Before(m, i)
  PROVE  /\ CanRead(m, i) /\ HasKey(next[m][i]) /\ m # Tail
         /\ LinkNext(R, m, i)
         /\ next[m][i] = Tail \/ next[m][i] \in Behind(R, m, i)
<1>1. m = Head \/ (m \in Node /\ i < height[m])
  BY DEF Before, Members, Live
<1>2. CanRead(m, i) /\ m # Tail
  BY <1>1, PointerAssumption DEF Listed, TypeOK, CanRead
<1>3. LinkNext(R, m, i)
  BY DEF Listed, Chained, Before
<1>4. next[m][i] = Tail \/ next[m][i] \in Behind(R, m, i)
  BY <1>3 DEF LinkNext
<1>5. Behind(R, m, i) \subseteq Live
  BY DEF Behind, Members
<1> QED BY <1>2, <1>3, <1>4, <1>5 DEF HasKey

(* Every read of every call is defined. *)
LEMMA ListedSafe == ASSUME NEW R, Listed(R) PROVE MemorySafe
<1> SUFFICES ASSUME Undefined PROVE FALSE
  BY DEF MemorySafe
<1>1. CASE pc = "insert" /\ lv >= 0 /\ ~InsertReads
  <2>1. lv \in 0 .. maxLevel - 1 /\ Before(cur, lv)
    BY <1>1 DEF Listed, TypeOK, Frame, Searching, Cursor
  <2> QED BY <1>1, <2>1, Followed DEF InsertReads, Succ
<1>2. CASE pc \in {"remove", "find"} /\ lv >= 0 /\ ~Reads
  <2>1. lv \in 0 .. maxLevel - 1 /\ Before(cur, lv)
    BY <1>2 DEF Listed, TypeOK, Frame, Searching, Cursor
  <2> QED BY <1>2, <2>1, Followed DEF Reads, Succ
<1>3. CASE pc = "link" /\ lv < height[node] /\ ~CanRead(Pred, lv)
  <2>1. node \in Node /\ lv \in 0 .. maxLevel - 1
    BY <1>3 DEF Listed, TypeOK, Frame, Live
  <2>2. Before(Pred, lv)
    BY <1>3, <2>1 DEF Listed, Reached, Pred
  <2> QED BY <1>3, <2>1, <2>2, Followed
<1>4. CASE pc = "destroy" /\ ~DestroyReads
  <2>1. maxLevel > 0 /\ tailNext = Null
    BY <1>4 DEF Listed, Frame
  <2>2. CanRead(Head, 0) /\ LinkNext(R, Head, 0)
    BY <1>4, <2>1 DEF Listed, TypeOK, Chained, CanRead
  <2>3. First = Tail \/ First \in Members(0)
    BY <2>2 DEF LinkNext, Behind, First
  <2>4. First # Tail => CanRead(First, 0)
    BY <2>3 DEF Members, Live, CanRead, Listed, TypeOK
  <2> QED BY <1>4, <2>1, <2>2, <2>4 DEF DestroyReads
<1> QED BY <1>1, <1>2, <1>3, <1>4 DEF Undefined, Listed

LEMMA ListedInit == ASSUME NEW R, Init PROVE Listed(R)
<1>1. Inv /\ Live = {}
  BY InvInit DEF Init, Live
<1> QED BY <1>1 DEF Inv, Listed, Ordering, Chained, Reached, Init

(* A new list has maxLevel empty levels. *)
LEMMA CreateListed ==
  ASSUME NEW R, Additive, Listed(R), NEW r \in Requests, Create(r)
  PROVE  Listed(R)'
<1>1. TypeOK'
  BY TypeStep DEF Listed, Next, Caller
<1>2. maxLevel' \in 1 .. MaxHeight
  BY HeightAssumption DEF Create, ClampLevel, Additive, Harmless
<1>3. Live' = {} /\ Live = {} /\ node' = Null /\ pc' = "idle"
  BY DEF Create, Listed, Frame, Live, locals
<1>4. Frame'
  <2>1. \A n \in Node : height'[n] = 0
    BY <1>1, <1>3 DEF TypeOK, Live
  <2>2. tailKey' \in TailKeys /\ tailNext' = Null /\ arg' = Unset
    BY DEF Create, Additive, Harmless, Listed, Frame, locals
  <2> QED BY <1>2, <1>3, <2>1, <2>2 DEF Frame, Searching
<1>5. Chained(R)'
  <2>0. ASSUME NEW i PROVE Members(i)' = {}
    BY <1>3 DEF Members
  <2>1. ASSUME NEW i, NEW m PROVE Behind(R, m, i)' = {}
    BY <2>0 DEF Behind
  <2>2. \A i \in 0 .. maxLevel' - 1 : next'[Head][i] = Tail
    BY <1>2, HeightAssumption DEF Create, Listed, TypeOK, Levels
  <2> QED BY <2>0, <2>1, <2>2 DEF Chained, LinkNext
<1>6. (Cursor /\ Ordering(R) /\ Reached(R))'
  BY <1>3 DEF Cursor, Ordering, Reached, Searching
<1> QED BY <1>1, <1>3, <1>4, <1>5, <1>6 DEF Listed

(* A new node comes first among the nodes that are not larger, and is pending
   on every level. *)
LEMMA InsertListed ==
  ASSUME NEW R, Additive, Listed(R), NEW k \in Key, NEW v \in Val, Insert(k, v)
  PROVE  \E Q \in SUBSET (Node \X Node) : Listed(Q)'
<1>1. TypeOK'
  BY TypeStep DEF Listed, Next, Caller
<1>2. PICK n \in Node \ Live, l \in RandomLevel :
        Alloc(n, k, v, l + 1) /\ node' = n
  BY DEF Insert
<1>3. /\ pc = "idle" /\ pc' = "insert" /\ arg' = k /\ cur' = Head
      /\ lv' = maxLevel - 1 /\ UNCHANGED list
  BY DEF Insert, Start
<1>4. maxLevel > 0 /\ maxLevel \in Nat /\ node = Null
  BY <1>3 DEF Listed, TypeOK, Frame
<1>5. l + 1 \in 1 .. maxLevel /\ l + 1 <= MaxHeight
  BY <1>4, HeightAssumption DEF RandomLevel, Listed, TypeOK
<1>6. Live' = Live \cup {n}
  BY <1>2, <1>5 DEF Alloc, Live, Listed, TypeOK
<1>7. /\ \A m \in Node \ {n} : height'[m] = height[m] /\ key'[m] = key[m]
      /\ height'[n] = l + 1 /\ key'[n] = k
      /\ \A m \in (Node \cup {Head}) \ {n} : next'[m] = next[m]
  <2>1. /\ height' = [height EXCEPT ![n] = l + 1]
        /\ key' = [key EXCEPT ![n] = k]
        /\ next' = [next EXCEPT ![n] = Blank]
    BY <1>2 DEF Alloc
  <2>2. n \in DOMAIN height /\ n \in DOMAIN key /\ DOMAIN next = Node \cup {Head}
        /\ DOMAIN height = Node /\ DOMAIN key = Node
    BY DEF Listed, TypeOK
  <2> QED BY <2>1, <2>2
<1>8. Frame'
  <2>1. \A m \in Node : height'[m] <= maxLevel'
    BY <1>3, <1>5, <1>7 DEF Listed, Frame, list
  <2> QED BY <1>2, <1>3, <1>4, <1>7, <2>1 DEF Listed, TypeOK, Frame, Searching, list
<1>9. /\ n \notin Live /\ Live \subseteq Node /\ n \in Node /\ k \in Nat
      /\ \A m \in Live : key[m] \in Nat /\ key'[m] = key[m]
  BY <1>2, <1>7, MemberType, KeyAssumption DEF Listed
<1>10. PICK Q \in SUBSET (Node \X Node) :
         /\ \A x, y \in Live : <<x, y>> \in Q <=> <<x, y>> \in R
         /\ \A x \in Live : /\ <<x, n>> \in Q <=> key[x] <= k
                            /\ <<n, x>> \in Q <=> ~(key[x] <= k)
         /\ <<n, n>> \notin Q
  <2> DEFINE Lower == {m \in Live : key[m] <= k}
             S == {p \in Node \X Node : \/ p[1] \in Live /\ p[2] \in Live /\ p \in R
                                        \/ p[1] \in Lower /\ p[2] = n
                                        \/ p[1] = n /\ p[2] \in Live \ Lower}
  <2>1. \A x, y \in Node : <<x, y>> \in S <=> \/ x \in Live /\ y \in Live /\ <<x, y>> \in R
                                              \/ x \in Lower /\ y = n
                                              \/ x = n /\ y \in Live \ Lower
    OBVIOUS
  <2>2. S \in SUBSET (Node \X Node)
    OBVIOUS
  <2> HIDE DEF S
  <2> QED BY <1>9, <2>1, <2>2
<1>11. Ordering(Q)'
  <2>1. /\ \A x, y \in Live : /\ <<x, y>> \in R => <<y, x>> \notin R
                              /\ x = y \/ <<x, y>> \in R \/ <<y, x>> \in R
                              /\ key[x] < key[y] => <<x, y>> \in R
        /\ \A x, y, z \in Live : <<x, y>> \in R /\ <<y, z>> \in R => <<x, z>> \in R
    BY DEF Listed, Ordering
  <2>2. \A x, y \in Live : ~(key[x] <= k) /\ <<x, y>> \in R => ~(key[y] <= k)
    <3>1. ASSUME NEW x \in Live, NEW y \in Live, ~(key[x] <= k), <<x, y>> \in R, key[y] <= k
          PROVE  FALSE
      <4>1. key[y] < key[x]
        BY <1>9, <3>1
      <4> QED BY <2>1, <3>1, <4>1
    <3> QED BY <3>1
  <2>3. \A x, y \in Live' : /\ <<x, y>> \in Q => <<y, x>> \notin Q
                            /\ x = y \/ <<x, y>> \in Q \/ <<y, x>> \in Q
                            /\ key'[x] < key'[y] => <<x, y>> \in Q
    <3> SUFFICES ASSUME NEW x \in Live', NEW y \in Live'
                 PROVE  /\ <<x, y>> \in Q => <<y, x>> \notin Q
                        /\ x = y \/ <<x, y>> \in Q \/ <<y, x>> \in Q
                        /\ key'[x] < key'[y] => <<x, y>> \in Q
      OBVIOUS
    <3>1. CASE x \in Live /\ y \in Live
      BY <1>9, <1>10, <2>1, <3>1
    <3>2. CASE x = n /\ y \in Live
      BY <1>7, <1>9, <1>10, <3>2
    <3>3. CASE x \in Live /\ y = n
      BY <1>7, <1>9, <1>10, <3>3
    <3>4. CASE x = n /\ y = n
      BY <1>7, <1>9, <1>10, <3>4
    <3> QED BY <1>6, <3>1, <3>2, <3>3, <3>4
  <2>4. \A x, y, z \in Live' : <<x, y>> \in Q /\ <<y, z>> \in Q => <<x, z>> \in Q
    <3> SUFFICES ASSUME NEW x \in Live', NEW y \in Live', NEW z \in Live',
                        <<x, y>> \in Q, <<y, z>> \in Q
                 PROVE  <<x, z>> \in Q
      OBVIOUS
    <3>1. CASE x \in Live /\ y \in Live /\ z \in Live
      BY <1>10, <2>1, <3>1
    <3>2. CASE x = n
      <4>1. y \in Live /\ ~(key[y] <= k)
        BY <1>6, <1>10, <3>2
      <4>2. z \in Live
        BY <1>6, <1>10, <4>1
      <4> QED BY <1>10, <2>2, <3>2, <4>1, <4>2
    <3>3. CASE y = n
      <4>1. x \in Live /\ z \in Live /\ key[x] <= k /\ ~(key[z] <= k)
        BY <1>6, <1>10, <3>3
      <4>2. key[x] < key[z]
        BY <1>9, <4>1
      <4> QED BY <1>10, <2>1, <4>1, <4>2
    <3>4. CASE z = n
      <4>1. y \in Live /\ key[y] <= k
        BY <1>6, <1>10, <3>4
      <4>2. x \in Live /\ <<x, y>> \in R
        BY <1>6, <1>10, <4>1
      <4>3. key[x] <= k
        BY <2>2, <4>1, <4>2
      <4> QED BY <1>10, <3>4, <4>2, <4>3
    <3> QED BY <1>6, <3>1, <3>2, <3>3, <3>4
  <2>5. \A x \in Live' \ {n} : key'[x] <= arg' => <<x, n>> \in Q
    BY <1>3, <1>6, <1>9, <1>10
  <2> QED BY <1>2, <2>3, <2>4, <2>5 DEF Ordering
<1>12. Chained(Q)'
  <2>1. \A i \in 0 .. maxLevel - 1 : Members(i)' = Members(i)
    BY <1>2, <1>3, <1>4, <1>6, <1>7, PointerAssumption
       DEF Members, Pending, Live
  <2>2. ASSUME NEW i \in 0 .. maxLevel - 1, NEW m \in Members(i) \cup {Head}
        PROVE  LinkNext(Q, m, i)'
    <3>1. m \in (Node \cup {Head}) \ {n} /\ Members(i) \subseteq Live
      BY <1>2, PointerAssumption DEF Members, Live
    <3>2. next'[m] = next[m]
      BY <1>7, <3>1
    <3>3. Behind(Q, m, i)' = Behind(R, m, i)
      BY <1>10, <2>1, <2>2, <3>1 DEF Behind
    <3>4. LinkNext(R, m, i)
      BY <1>3, <2>2 DEF Listed, Chained
    <3>5. Behind(R, m, i) \subseteq Live
      BY <3>1 DEF Behind
    <3>6. CASE Behind(R, m, i) = {}
      BY <3>2, <3>3, <3>4, <3>6 DEF LinkNext
    <3>7. CASE Behind(R, m, i) # {}
      BY <1>10, <3>2, <3>3, <3>4, <3>5, <3>7 DEF LinkNext
    <3> QED BY <3>6, <3>7
  <2> QED BY <1>3, <2>1, <2>2 DEF Chained, list
<1>13. (Cursor /\ Reached(Q))'
  BY <1>3, <1>4 DEF Cursor, Reached, Before, list
<1> QED BY <1>1, <1>3, <1>8, <1>10, <1>11, <1>12, <1>13 DEF Listed

(* A step that leaves memory and the members of every level alone keeps the
   list and its order. *)
LEMMA ListedSame ==
  ASSUME NEW R, Listed(R), UNCHANGED <<heap, list>>, pc # "destroy" \/ pc' = "destroy",
         pc' \in {"insert", "link"} => pc \in {"insert", "link"} /\ UNCHANGED <<node, arg>>,
         \A i \in 0 .. maxLevel - 1 : Members(i)' = Members(i)
  PROVE  /\ (Ordering(R) /\ Chained(R))' /\ Live' = Live
         /\ \A i \in 0 .. maxLevel - 1 : \A m : Behind(R, m, i)' = Behind(R, m, i)
<1>1. UNCHANGED <<key, next, maxLevel>> /\ Live' = Live
  BY DEF heap, list, Live
<1>2. \A i \in 0 .. maxLevel - 1 :
         \A m : /\ Behind(R, m, i)' = Behind(R, m, i)
                /\ LinkNext(R, m, i)' <=> LinkNext(R, m, i)
  BY <1>1, NextKept
<1>3. Chained(R)'
  BY <1>1, <1>2 DEF Listed, Chained
<1>4. Ordering(R)'
  BY <1>1 DEF Listed, Ordering
<1> QED BY <1>1, <1>2, <1>3, <1>4

(* A refused insert changes nothing; a find or a destroy starts at the head. *)
LEMMA IdleListed ==
  ASSUME NEW R, Listed(R), TypeOK',
         InsertNoMemory \/ Destroy \/ \E k \in Key : Find(k)
  PROVE  Listed(R)'
<1>1. /\ pc = "idle" /\ pc' \in {"idle", "find", "destroy"}
      /\ UNCHANGED <<heap, list>> /\ node' = node /\ node = Null
      /\ pc' = "find" => arg' \in Key
      /\ pc' \in {"idle", "destroy"} => arg' = Unset
      /\ pc' # "idle" => cur' = Head
      /\ pc' = "find" => lv' = maxLevel - 1
  BY DEF InsertNoMemory, Find, Destroy, Start, locals, Listed, Frame
<1>2. \A i \in 0 .. maxLevel - 1 : Members(i)' = Members(i)
  BY <1>1, NonePending, NonePendingNext DEF Listed, heap, Live
<1>3. (Ordering(R) /\ Chained(R))' /\ Live' = Live
  BY <1>1, <1>2, ListedSame
<1>4. Frame'
  BY <1>1, <1>3 DEF Listed, Frame, Searching, heap, list, TypeOK
<1>5. (Cursor /\ Reached(R))'
  BY <1>1 DEF Cursor, Reached, Searching, Before, list, Listed, TypeOK
<1> QED BY <1>1, <1>3, <1>4, <1>5 DEF Listed

LEMMA ScanListed ==
  ASSUME NEW R, Listed(R), TypeOK', Searching, pc' = pc, UNCHANGED <<heap, list, node, arg>>
  PROVE  /\ (Ordering(R) /\ Chained(R))' /\ Live' = Live
         /\ \A i \in 0 .. maxLevel - 1 :
              /\ Members(i)' = Members(i)
              /\ \A m : Behind(R, m, i)' = Behind(R, m, i)
<1>1. \A i : Members(i)' = Members(i)
  BY ScanMembers DEF Listed
<1> QED BY <1>1, ListedSame DEF Searching

(* Moving right along a level: the next member still has a larger key. *)
LEMMA AdvanceListed ==
  ASSUME NEW R, Listed(R), TypeOK', Searching, lv >= 0, Advance,
         Succ \in Behind(R, cur, lv), key[Succ] > arg
  PROVE  Listed(R)'
<1>1. /\ lv \in 0 .. maxLevel - 1 /\ Before(cur, lv) /\ pc # "destroy"
      /\ UNCHANGED <<heap, list, pc, arg, lv, update, node>> /\ cur' = Succ
  BY DEF Listed, TypeOK, Frame, Cursor, Searching, Advance
<1>2. /\ (Ordering(R) /\ Chained(R))' /\ Live' = Live
      /\ \A i \in 0 .. maxLevel - 1 :
              /\ Members(i)' = Members(i)
              /\ \A m : Behind(R, m, i)' = Behind(R, m, i)
  BY <1>1, ScanListed
<1>3. Frame'
  BY <1>1, <1>2 DEF Listed, Frame, Searching, heap, list
<1>4. Cursor'
  BY <1>1, <1>2 DEF Cursor, Before, Behind, heap
<1>5. Reached(R)'
  BY <1>1, <1>2 DEF Listed, Reached, Before, heap, list
<1> QED BY <1>1, <1>2, <1>3, <1>4, <1>5 DEF Listed

(* Going down a level: insert has noted its place, find has not met its key. *)
LEMMA DescendListed ==
  ASSUME NEW R, Listed(R), TypeOK', Searching, lv >= 0,
         \/ Descend(cur)
         \/ /\ pc = "find" /\ lv' = lv - 1
            /\ UNCHANGED <<heap, list, pc, arg, cur, update, node, ret>>,
         pc = "insert" => \A n \in Behind(R, cur, lv) : key[n] <= arg,
         pc = "find" => \A n \in Members(lv) : key[n] # arg
  PROVE  Listed(R)'
<1>1. /\ lv \in 0 .. maxLevel - 1 /\ Before(cur, lv) /\ pc \in {"insert", "find"}
      /\ maxLevel <= MaxHeight /\ maxLevel \in Nat
      /\ lv' = lv - 1 /\ UNCHANGED <<heap, list, pc, arg, cur, node>>
      /\ \/ update' = [update EXCEPT ![lv] = cur]
         \/ pc = "find" /\ update' = update
  BY DEF Listed, TypeOK, Frame, Cursor, Searching, Descend
<1>2. /\ (Ordering(R) /\ Chained(R))' /\ Live' = Live
      /\ \A i \in 0 .. maxLevel - 1 :
              /\ Members(i)' = Members(i)
              /\ \A m : Behind(R, m, i)' = Behind(R, m, i)
  BY <1>1, ScanListed
<1>3. Frame'
  BY <1>1, <1>2 DEF Listed, TypeOK, Frame, Searching, heap, list
<1>4. Cursor'
  <2>1. cur = Head \/ (lv - 1 >= 0 => cur \in Members(lv - 1) /\ key[cur] > arg)
    BY <1>1 DEF Before, Members, Pending, Live, Listed, TypeOK
  <2>2. (lv >= 0)' => cur = Head \/ (cur \in Members(lv) /\ key[cur] > arg)'
    BY <1>1, <2>1 DEF Members, Pending, Live, heap
  <2> QED BY <1>1, <2>2 DEF Cursor, Before
<1>5. Reached(R)'
  <2>1. \A i \in 0 .. maxLevel - 1 :
           /\ i > lv => (update[i])' = update[i]
           /\ i = lv => pc = "find" \/ (update[i])' = cur
    <3>1. \A i \in 0 .. maxLevel - 1 : i \in Levels /\ lv \in Levels
      BY <1>1, HeightAssumption DEF Listed, TypeOK, Levels
    <3>2. update \in [Levels -> Pointer]
      BY DEF Listed, TypeOK
    <3>3. CASE update' = [update EXCEPT ![lv] = cur]
      BY <1>1, <3>1, <3>2, <3>3
    <3>4. CASE pc = "find" /\ update' = update
      BY <1>1, <3>4
    <3> QED BY <1>1, <3>3, <3>4
  <2>2. ASSUME NEW i \in 0 .. maxLevel - 1, i > lv - 1, pc = "insert"
        PROVE  (Before(update[i], i) /\ \A n \in Behind(R, update[i], i) : key[n] <= arg)'
    BY <1>1, <1>2, <2>1, <2>2 DEF Listed, Reached, Before, heap
  <2>3. ASSUME NEW i \in 0 .. maxLevel - 1, i > lv - 1, pc = "find"
        PROVE  \A n \in Members(i)' : key'[n] # arg'
    BY <1>1, <1>2, <2>3 DEF Listed, Reached, heap
  <2> QED BY <1>1, <2>2, <2>3 DEF Reached, list
<1> QED BY <1>1, <1>2, <1>3, <1>4, <1>5 DEF Listed

(* No member behind a place is larger than the member it leads to. *)
LEMMA BehindNext ==
  ASSUME NEW R, Listed(R), NEW i, NEW m, LinkNext(R, m, i), NEW n \in Behind(R, m, i)
  PROVE  /\ next[m][i] \in Behind(R, m, i) /\ next[m][i] \in Live /\ n \in Live
         /\ next[m][i] # Tail /\ key[n] \in Nat /\ key[next[m][i]] \in Nat
         /\ key[n] <= key[next[m][i]]
<1>1. /\ next[m][i] \in Behind(R, m, i)
      /\ n = next[m][i] \/ <<n, next[m][i]>> \in R
  BY DEF LinkNext
<1>2. Behind(R, m, i) \subseteq Live /\ Live \subseteq Node
  BY DEF Behind, Members, Live
<1>3. next[m][i] \in Live /\ n \in Live
  BY <1>1, <1>2
<1>4. key[n] \in Nat /\ key[next[m][i]] \in Nat
  BY <1>3, MemberType DEF Listed
<1>5. <<n, next[m][i]>> \in R => ~(key[next[m][i]] < key[n])
  BY <1>3 DEF Listed, Ordering
<1> QED BY <1>1, <1>2, <1>3, <1>4, <1>5, PointerAssumption

LEMMA InsertScanListed ==
  ASSUME NEW R, Additive, Listed(R), TypeOK', InsertScan
  PROVE  Listed(R)'
<1>1. /\ pc = "insert" /\ Searching /\ lv \in 0 .. maxLevel - 1 /\ Before(cur, lv)
      /\ lv >= 0 /\ arg \in Key /\ arg \in Nat /\ tailKey \in TailKeys
  BY KeyAssumption DEF InsertScan, Searching, Listed, TypeOK, Frame, Cursor
<1>2. /\ cur # Tail /\ LinkNext(R, cur, lv)
      /\ Succ = Tail \/ Succ \in Behind(R, cur, lv)
  BY <1>1, Followed DEF Succ
<1>3. CASE ~InsertStops /\ Advance
  <2>1. ~(KeyOf(Succ) <= arg)
    BY <1>2, <1>3 DEF InsertStops
  <2>2. Succ # Tail
    BY <1>1, <2>1 DEF KeyOf, Additive, Harmless
  <2>3. Succ \in Behind(R, cur, lv) /\ key[Succ] \in Nat
    BY <1>2, <2>2, BehindNext DEF Succ
  <2>4. key[Succ] > arg
    BY <1>1, <2>1, <2>2, <2>3 DEF KeyOf
  <2> QED BY <1>1, <1>3, <2>3, <2>4, AdvanceListed
<1>4. CASE InsertStops /\ Descend(cur)
  <2>1. KeyOf(Succ) <= arg
    BY <1>2, <1>4 DEF InsertStops
  <2>2. ASSUME NEW n \in Behind(R, cur, lv) PROVE key[n] <= arg
    <3>1. key[n] <= key[Succ] /\ Succ # Tail /\ key[n] \in Nat /\ key[Succ] \in Nat
      BY <1>2, BehindNext DEF Succ
    <3> QED BY <1>1, <2>1, <3>1 DEF KeyOf
  <2> QED BY <1>1, <1>4, <2>2, DescendListed
<1> QED BY <1>3, <1>4 DEF InsertScan

(* A call returns to idle with nothing left pending. *)
LEMMA ReturnListed ==
  ASSUME NEW R, Listed(R), TypeOK', NEW r, Return("idle", r), UNCHANGED <<heap, list>>,
         pc \in {"find", "link"},
         \A i \in 0 .. maxLevel - 1 : Members(i) = {n \in Live : i < height[n]}
  PROVE  Listed(R)'
<1>1. pc' = "idle" /\ node' = Null /\ arg' = Unset /\ pc # "destroy"
  BY DEF Return
<1>2. \A i \in 0 .. maxLevel - 1 : Members(i)' = Members(i)
  BY <1>1, NonePendingNext DEF heap, Live
<1>3. (Ordering(R) /\ Chained(R))' /\ Live' = Live
  BY <1>1, <1>2, ListedSame
<1>4. (Frame /\ Cursor /\ Reached(R))'
  BY <1>1, <1>3 DEF Listed, Frame, Cursor, Reached, Searching, heap, list
<1> QED BY <1>1, <1>3, <1>4 DEF Listed

LEMMA FindListed ==
  ASSUME NEW R, Listed(R), TypeOK', FindScan \/ FindMiss
  PROVE  Listed(R)'
<1>1. /\ pc = "find" /\ Searching /\ arg \in Key /\ arg \in Nat
      /\ \A i : Members(i) = {n \in Live : i < height[n]}
  BY NonePending, KeyAssumption DEF FindScan, FindMiss, Searching, Listed, Frame
<1>2. CASE FindMiss
  BY <1>1, <1>2, ReturnListed DEF FindMiss
<1>3. CASE FindScan
  <2>1. lv \in 0 .. maxLevel - 1 /\ Before(cur, lv) /\ lv >= 0
    BY <1>1, <1>3 DEF FindScan, Listed, TypeOK, Frame, Cursor
  <2>2. Succ = Tail \/ Succ \in Behind(R, cur, lv)
    BY <1>1, <2>1, Followed DEF Succ
  <2>3. CASE Right /\ Advance
    BY <1>1, <2>1, <2>2, <2>3, AdvanceListed DEF Right, KeyOf
  <2>4. CASE Found /\ Return("idle", ptr[Succ]) /\ UNCHANGED <<heap, list>>
    BY <1>1, <2>4, ReturnListed
  <2>5. CASE /\ ~Right /\ ~Found /\ lv' = lv - 1
             /\ UNCHANGED <<heap, list, pc, arg, cur, update, node, ret>>
    <3>1. ASSUME NEW n \in Members(lv), key[n] = arg PROVE FALSE
      <4>1. LinkNext(R, cur, lv)
        BY <1>1, <2>1, Followed
      <4>2. n \in Live /\ (cur = Head \/ (cur \in Live /\ key[cur] > arg))
        BY <2>1, <3>1, MemberType DEF Before, Listed
      <4>3. n \in Behind(R, cur, lv)
        BY <1>1, <3>1, <4>2, MemberType DEF Listed, Ordering, Behind
      <4>4. key[n] <= key[Succ] /\ Succ # Tail /\ key[Succ] \in Nat
        BY <4>1, <4>3, BehindNext DEF Succ
      <4> QED BY <1>1, <2>5, <3>1, <4>4 DEF Right, Found, KeyOf
    <3> QED BY <1>1, <2>1, <2>5, <3>1, DescendListed
  <2> QED BY <1>3, <2>3, <2>4, <2>5 DEF FindScan
<1> QED BY <1>2, <1>3

(* The search is over: every place is noted and level 0 comes first. *)
LEMMA RelinkListed ==
  ASSUME NEW R, Listed(R), TypeOK', InsertRelink
  PROVE  Listed(R)'
<1>1. /\ UNCHANGED <<heap, list, arg, cur, update, node, ret>>
      /\ lv = -1 /\ lv' = 0 /\ pc = "insert" /\ pc' = "link"
  BY DEF InsertRelink, Relink
<1>2. \A i \in 0 .. maxLevel - 1 : Members(i)' = Members(i)
  BY RelinkMembers DEF Listed
<1>3. /\ (Ordering(R) /\ Chained(R))' /\ Live' = Live
      /\ \A i \in 0 .. maxLevel - 1 : \A m : Behind(R, m, i)' = Behind(R, m, i)
  BY <1>1, <1>2, ListedSame
<1>4. Frame' /\ Cursor'
  BY <1>1, <1>3, PointerAssumption
     DEF Listed, TypeOK, Frame, Searching, Cursor, heap, list, Live
<1>5. Reached(R)'
  BY <1>1, <1>2, <1>3 DEF Listed, Reached, Before, heap, list
<1> QED BY <1>1, <1>3, <1>4, <1>5 DEF Listed
(* Linking the new node at one more level: what comes after its place comes
   after it, what comes before is larger. *)
LEMMA InsertLinkListed ==
  ASSUME NEW R, Listed(R), TypeOK', InsertLink
  PROVE  Listed(R)'
<1>1. /\ pc = "link" /\ lv' = lv + 1 /\ CanRead(Pred, lv)
      /\ node \in Live /\ node \in Node /\ lv \in 0 .. height[node] - 1
      /\ lv \in 0 .. maxLevel - 1 /\ lv \in Levels
      /\ arg \in Key /\ arg \in Nat /\ key[node] = arg
      /\ UNCHANGED <<height, key, ptr, list, pc, arg, cur, update, node, ret>>
  <2>1. /\ pc = "link" /\ lv' = lv + 1 /\ CanRead(Pred, lv) /\ lv < height[node]
        /\ UNCHANGED <<height, key, ptr, list, pc, arg, cur, update, node, ret>>
    BY DEF InsertLink
  <2>2. /\ node \in Live /\ node \in Node /\ arg \in Key /\ key[node] = arg
        /\ lv \in 0 .. height[node] /\ height[node] <= maxLevel
        /\ maxLevel \in 0 .. MaxHeight /\ height[node] \in 0 .. MaxHeight
    BY <2>1 DEF Listed, TypeOK, Frame, Live
  <2> QED BY <2>1, <2>2, HeightAssumption, KeyAssumption DEF Levels
<1>2. /\ Before(Pred, lv) /\ \A n \in Behind(R, Pred, lv) : key[n] <= arg
      /\ LinkNext(R, Pred, lv)
  <2>1. Before(Pred, lv) /\ \A n \in Behind(R, Pred, lv) : key[n] <= arg
    BY <1>1 DEF Listed, Reached, Pred
  <2> QED BY <1>1, <2>1, Followed
<1>3. /\ node \notin Members(lv) /\ Pred # node /\ node # Head
      /\ Pred \in Node \cup {Head}
  BY <1>1, <1>2, PointerAssumption DEF Members, Pending, Before, Live
<1>4. /\ next'[node][lv] = next[Pred][lv] /\ next'[Pred][lv] = node
      /\ \A m \in Node \cup {Head}, i \in Levels :
           i # lv \/ (m # node /\ m # Pred) => next'[m][i] = next[m][i]
  <2> DEFINE mid == [next EXCEPT ![node][lv] = next[Pred][lv]]
  <2>1. /\ mid \in [Node \cup {Head} -> [Levels -> Link]]
        /\ mid[node][lv] = next[Pred][lv]
        /\ \A m \in Node \cup {Head}, i \in Levels :
             i # lv \/ m # node => mid[m][i] = next[m][i]
    BY <1>1, ReadLink DEF Listed, TypeOK
  <2>2. next' = [mid EXCEPT ![Pred][lv] = node]
    BY DEF InsertLink
  <2> HIDE DEF mid
  <2> QED BY <1>1, <1>3, <2>1, <2>2
<1>5. ASSUME NEW i \in 0 .. maxLevel - 1
      PROVE  Members(i)' = IF i = lv THEN Members(lv) \cup {node} ELSE Members(i)
  <2>1. /\ pc' = "link" /\ Live' = Live /\ node' = node /\ height' = height
        /\ lv \in Int /\ i \in Int /\ lv' = lv + 1 /\ lv < height[node]
    BY <1>1 DEF Live, Listed, TypeOK
  <2>2. ASSUME NEW n, n # node PROVE n \in Members(i)' <=> n \in Members(i)
    BY <1>1, <2>1, <2>2 DEF Members, Pending
  <2>3. node \in Members(i)' <=> i < height[node] /\ i < lv + 1
    BY <1>1, <2>1 DEF Members, Pending
  <2>4. node \in Members(i) <=> i < height[node] /\ i < lv
    BY <1>1, <2>1 DEF Members, Pending
  <2>5. CASE i = lv
    BY <1>3, <2>1, <2>2, <2>3, <2>5
  <2>6. CASE i # lv
    BY <2>1, <2>2, <2>3, <2>4, <2>6
  <2> QED BY <2>5, <2>6
<1>6. (Frame /\ Cursor /\ Ordering(R))'
  <2>1. lv' \in 0 .. height[node] /\ Live' = Live
    BY <1>1 DEF Listed, TypeOK, Live
  <2>2. Ordering(R)'
    BY <1>1, <2>1 DEF Listed, Ordering
  <2> QED BY <1>1, <2>1, <2>2 DEF Listed, Frame, Cursor, Searching, list
<1>7. Chained(R)'
  <2>1. SUFFICES ASSUME NEW i \in 0 .. maxLevel - 1,
                        NEW m \in Members(i)' \cup {Head}
                 PROVE  LinkNext(R, m, i)'
    BY <1>1 DEF Chained, list
  <2>2. i \in Levels /\ Members(i) \subseteq Node
    BY MemberType, HeightAssumption DEF Listed, TypeOK, Levels
  <2>3. CASE i # lv
    <3>1. Members(i)' = Members(i) /\ m \in Members(i) \cup {Head}
      BY <1>5, <2>1, <2>3
    <3>2. LinkNext(R, m, i) /\ next'[m][i] = next[m][i]
      BY <1>1, <1>4, <2>2, <2>3, <3>1 DEF Listed, Chained
    <3>3. Behind(R, m, i)' = Behind(R, m, i)
      BY <3>1 DEF Behind
    <3> QED BY <3>2, <3>3 DEF LinkNext
  <2>4. CASE i = lv
    <3>1. Members(i)' = Members(lv) \cup {node}
      BY <1>5, <2>4
    <3>2. \A n \in Members(lv) : n \in Live /\ key[n] \in Nat /\ n # node
      BY <1>3, MemberType DEF Listed
    <3>3. Pred # Head => Pred \in Members(lv) /\ key[Pred] > arg
      BY <1>2 DEF Before
    <3>4. /\ \A x, y \in Live : /\ <<x, y>> \in R => <<y, x>> \notin R
                                /\ x = y \/ <<x, y>> \in R \/ <<y, x>> \in R
                                /\ key[x] < key[y] => <<x, y>> \in R
          /\ \A x, y, z \in Live : <<x, y>> \in R /\ <<y, z>> \in R => <<x, z>> \in R
          /\ \A x \in Live \ {node} : key[x] <= arg => <<x, node>> \in R
      BY <1>1 DEF Listed, Ordering
    <3>5. \A n \in Members(lv) : n \in Behind(R, Pred, lv) <=> <<n, node>> \in R
      <4> SUFFICES ASSUME NEW n \in Members(lv)
                   PROVE  n \in Behind(R, Pred, lv) <=> <<n, node>> \in R
        OBVIOUS
      <4>1. ASSUME n \in Behind(R, Pred, lv) PROVE <<n, node>> \in R
        BY <1>2, <3>2, <3>4, <4>1
      <4>2. ASSUME <<n, node>> \in R PROVE n \in Behind(R, Pred, lv)
        <5>1. CASE Pred = Head
          BY <5>1 DEF Behind
        <5>2. CASE Pred # Head
          <6>1. Pred \in Live /\ key[Pred] \in Nat /\ <<node, Pred>> \in R
            BY <1>1, <3>2, <3>3, <3>4, <5>2
          <6> QED BY <1>1, <3>2, <3>4, <4>2, <6>1 DEF Behind
        <5> QED BY <5>1, <5>2
      <4> QED BY <4>1, <4>2
    <3>6. CASE m = Pred
      <4>1. Behind(R, m, i)' = Behind(R, Pred, lv) \cup {node}
        <5>1. node \in Behind(R, m, i)'
          BY <1>1, <2>4, <3>1, <3>2, <3>3, <3>4, <3>6 DEF Behind
        <5> QED BY <2>4, <3>1, <3>6, <5>1 DEF Behind
      <4>2. \A n \in Behind(R, m, i)' : n = node \/ <<n, node>> \in R
        BY <3>5, <4>1 DEF Behind
      <4> QED BY <1>4, <2>4, <3>6, <4>1, <4>2 DEF LinkNext
    <3>7. CASE m = node
      <4>1. Behind(R, m, i)' = Behind(R, Pred, lv)
        <5>1. <<node, node>> \notin R
          BY <1>1, <3>4
        <5>2. Behind(R, m, i)' = {n \in Members(lv) : <<n, node>> \in R}
          BY <1>3, <2>4, <3>1, <3>7, <5>1 DEF Behind
        <5> QED BY <3>5, <5>2 DEF Behind
      <4> QED BY <1>2, <1>4, <2>4, <3>7, <4>1 DEF LinkNext
    <3>8. CASE m # Pred /\ m # node
      <4>1. m \in Members(lv) \cup {Head} /\ LinkNext(R, m, lv)
        BY <1>1, <2>1, <2>4, <3>1, <3>8 DEF Listed, Chained
      <4>2. next'[m][i] = next[m][i]
        BY <1>4, <2>2, <2>4, <3>8, <4>1
      <4>3. Behind(R, m, i)' = IF m = Head \/ <<node, m>> \in R
                               THEN Behind(R, m, lv) \cup {node} ELSE Behind(R, m, lv)
        BY <2>4, <3>1 DEF Behind
      <4>4. CASE m = Head \/ <<node, m>> \in R
        <5>1. Pred \in Behind(R, m, lv)
          <6>1. CASE m = Head
            BY <3>3, <3>8, <6>1 DEF Behind
          <6>2. CASE m # Head
            <7>1. m \in Members(lv) /\ m \in Live /\ <<m, node>> \notin R
              BY <1>1, <3>2, <3>4, <4>1, <4>4, <6>2
            <7>2. m \notin Behind(R, Pred, lv)
              BY <3>5, <7>1
            <7>3. Pred # Head /\ <<m, Pred>> \notin R
              BY <7>1, <7>2 DEF Behind
            <7> QED BY <3>2, <3>3, <3>4, <3>8, <7>1, <7>3 DEF Behind
          <6> QED BY <6>1, <6>2
        <5>2. /\ next[m][lv] \in Behind(R, m, lv)
              /\ \A n \in Behind(R, m, lv) : n = next[m][lv] \/ <<n, next[m][lv]>> \in R
          BY <4>1, <5>1 DEF LinkNext
        <5>3. next[m][lv] \in Live /\ Pred \in Live /\ <<node, Pred>> \in R
          <6>1. next[m][lv] \in Members(lv) /\ Pred \in Members(lv)
            BY <5>1, <5>2 DEF Behind
          <6>2. Pred # Head
            BY <3>2, <6>1, MemberType, PointerAssumption DEF Listed
          <6> QED BY <1>1, <3>2, <3>3, <3>4, <6>1, <6>2
        <5>4. <<node, next[m][lv]>> \in R
          BY <1>1, <3>4, <5>1, <5>2, <5>3
        <5> QED BY <2>4, <4>2, <4>3, <4>4, <5>2, <5>4 DEF LinkNext
      <4>5. CASE ~(m = Head \/ <<node, m>> \in R)
        BY <2>4, <4>1, <4>2, <4>3, <4>5 DEF LinkNext
      <4> QED BY <4>4, <4>5
    <3> QED BY <3>6, <3>7, <3>8
  <2> QED BY <2>3, <2>4
<1>8. Reached(R)'
  <2>1. SUFFICES ASSUME NEW i \in 0 .. maxLevel - 1, i >= lv + 1
                 PROVE  (Before(update[i], i) /\ \A n \in Behind(R, update[i], i) : key[n] <= arg)'
    BY <1>1 DEF Reached, list
  <2>2. i # lv /\ Before(update[i], i) /\ \A n \in Behind(R, update[i], i) : key[n] <= arg
    BY <1>1, <2>1 DEF Listed, Reached
  <2>3. Members(i)' = Members(i)
    BY <1>5, <2>2
  <2>4. \A m : Behind(R, m, i)' = Behind(R, m, i)
    BY <2>3 DEF Behind
  <2> QED BY <1>1, <2>2, <2>3, <2>4 DEF Before
<1> QED BY <1>1, <1>6, <1>7, <1>8 DEF Listed

(* Insert returns once the new node is linked at all its levels. *)
LEMMA InsertReturnListed ==
  ASSUME NEW R, Listed(R), TypeOK', InsertReturn
  PROVE  Listed(R)'
<1>1. \A i \in 0 .. maxLevel - 1 : Members(i) = {n \in Live : i < height[n]}
  <2>1. pc = "link" /\ lv = height[node] /\ node \in Node /\ height[node] \in Nat
    BY DEF InsertReturn, Listed, TypeOK, Live
  <2>2. ASSUME NEW i \in 0 .. maxLevel - 1, NEW n \in Live, i < height[n]
        PROVE  ~Pending(n, i)
    BY <2>1, <2>2 DEF Pending, Listed, TypeOK
  <2> QED BY <2>2 DEF Members
<1> QED BY <1>1, ReturnListed DEF InsertReturn

(* The teardown: the head's first node comes before all others, so popping it
   leaves the rest of level 0 as it was. *)
LEMMA DestroyListed ==
  ASSUME NEW R, Listed(R), pc = "destroy"
  PROVE  /\ maxLevel \in Nat \ {0} /\ 0 \in Levels /\ node = Null
         /\ Members(0) = Live /\ Behind(R, Head, 0) = Live
         /\ LinkNext(R, Head, 0)
<1>1. maxLevel \in Nat \ {0} /\ node = Null /\ 0 \in Levels
  BY HeightAssumption DEF Listed, TypeOK, Frame, Levels
<1>2. Members(0) = Live
  BY <1>1, NonePending DEF Listed, Live
<1> QED BY <1>1, <1>2 DEF Behind, Listed, Chained

LEMMA DestroyNodeListed ==
  ASSUME NEW R, Listed(R), TypeOK', DestroyNode
  PROVE  Listed(R)'
<1> DEFINE f == First
<1>1. /\ pc = "destroy" /\ UNCHANGED <<list, pc, locals, ret>>
      /\ f # Tail /\ f = next[Head][0]
      /\ Free(f, [next EXCEPT ![Head][0] = next[f][0]])
  BY DEF DestroyNode, First
<1>2. /\ maxLevel \in Nat \ {0} /\ 0 \in Levels /\ node = Null
      /\ Members(0) = Live /\ Behind(R, Head, 0) = Live /\ LinkNext(R, Head, 0)
  BY <1>1, DestroyListed
<1>3. /\ f \in Live /\ f \in Node /\ f # Head
      /\ \A n \in Live : n = f \/ <<n, f>> \in R
  <2>1. f \in Live /\ \A n \in Live : n = f \/ <<n, f>> \in R
    BY <1>1, <1>2 DEF LinkNext
  <2> QED BY <2>1, MemberType, PointerAssumption DEF Listed
<1> HIDE DEF f
<1>4. /\ height'[f] = 0
      /\ \A m \in Node \ {f} : height'[m] = height[m] /\ key'[m] = key[m]
      /\ \A m \in Node \ {f} : next'[m] = next[m]
      /\ next'[Head][0] = next[f][0]
  <2>1. /\ height' = [height EXCEPT ![f] = 0] /\ key' = [key EXCEPT ![f] = Unset]
        /\ next' = [[next EXCEPT ![Head][0] = next[f][0]] EXCEPT ![f] = Blank]
    BY <1>1 DEF Free
  <2> QED BY <1>2, <1>3, <2>1, PointerAssumption DEF Listed, TypeOK
<1>5. Live' = Live \ {f}
  BY <1>3, <1>4 DEF Live
<1>6. Members(0)' = Live \ {f}
  <2>1. Members(0)' = {n \in Live' : 0 < height'[n]}
    BY <1>1, <1>2, NonePendingNext DEF locals
  <2> QED BY <1>4, <1>5, <2>1 DEF Live
<1>7. Ordering(R)'
  <2>1. \A n \in Live' : n \in Live /\ key'[n] = key[n]
    BY <1>4, <1>5, MemberType DEF Listed
  <2>2. pc' = "destroy"
    BY <1>1
  <2> QED BY <2>1, <2>2 DEF Listed, Ordering
<1>8. Frame'
  <2>1. \A m \in Node : height'[m] <= maxLevel
    BY <1>2, <1>4 DEF Listed, Frame
  <2> QED BY <1>1, <1>2, <2>1 DEF Listed, Frame, Searching, list, locals
<1>9. Chained(R)'
  <2>1. SUFFICES ASSUME NEW m \in (Live \ {f}) \cup {Head}
                 PROVE  LinkNext(R, m, 0)'
    BY <1>1, <1>6 DEF Chained
  <2>2. \A x, y \in Live : <<x, y>> \in R => <<y, x>> \notin R
    BY DEF Listed, Ordering
  <2>3. CASE m = Head
    <3>1. Behind(R, m, 0)' = Live \ {f}
      BY <1>6, <2>3 DEF Behind
    <3>2. Behind(R, f, 0) = Live \ {f}
      BY <1>2, <1>3, <2>2 DEF Behind
    <3>3. LinkNext(R, f, 0)
      BY <1>1, <1>2, <1>3 DEF Listed, Chained
    <3>4. next'[m][0] = next[f][0]
      BY <1>4, <2>3
    <3> QED BY <3>1, <3>2, <3>3, <3>4 DEF LinkNext
  <2>4. CASE m # Head
    <3>1. m \in Live \ {f} /\ LinkNext(R, m, 0) /\ next'[m] = next[m]
      BY <1>1, <1>2, <1>4, <2>1, <2>4, MemberType DEF Listed, Chained
    <3>2. <<f, m>> \notin R
      BY <1>3, <2>2, <3>1
    <3>3. Behind(R, m, 0)' = Behind(R, m, 0)
      BY <1>2, <1>6, <2>4, <3>2 DEF Behind
    <3> QED BY <3>1, <3>3 DEF LinkNext
  <2> QED BY <2>3, <2>4
<1>10. (Cursor /\ Reached(R))'
  BY <1>1 DEF Cursor, Reached, Searching
<1> QED BY <1>1, <1>7, <1>8, <1>9, <1>10 DEF Listed

LEMMA DestroyListListed ==
  ASSUME NEW R, Listed(R), TypeOK', DestroyList
  PROVE  Listed(R)'
<1>1. /\ pc = "destroy" /\ pc' = "none" /\ maxLevel' = 0 /\ node' = Null
      /\ arg' = Unset
      /\ UNCHANGED <<height, key, ptr>> /\ next[Head][0] = Tail
  BY DEF DestroyList, Return, First
<1>2. Live = {} /\ Live' = {}
  <2>1. Live = {}
    <3> SUFFICES ASSUME Live # {} PROVE FALSE
      OBVIOUS
    <3>1. Tail \in Live
      BY <1>1, DestroyListed DEF LinkNext
    <3> QED BY <3>1, PointerAssumption DEF Live
  <2> QED BY <1>1, <2>1 DEF Live
<1>3. Frame'
  BY <1>1, <1>2 DEF Frame, Searching, Live, Listed, TypeOK
<1>4. (Ordering(R) /\ Chained(R) /\ Cursor /\ Reached(R))'
  BY <1>1, <1>2 DEF Ordering, Chained, Cursor, Reached, Searching
<1> QED BY <1>1, <1>3, <1>4 DEF Listed
-----------------------------------------------------------------------------
LEMMA ListedStep ==
  ASSUME Additive, NEW R \in SUBSET (Node \X Node), Listed(R), [Next]_vars
  PROVE  RepeatsInv'
<1>1. TypeOK'
  BY TypeStep DEF Listed
<1>2. Listed(R)' => RepeatsInv'
  BY DEF RepeatsInv
<1>3. ASSUME NEW r \in Requests, Create(r) PROVE RepeatsInv'
  BY <1>2, <1>3, CreateListed
<1>4. ASSUME NEW k \in Key, NEW v \in Val, Insert(k, v) PROVE RepeatsInv'
  BY <1>4, InsertListed DEF RepeatsInv
<1>5. CASE InsertNoMemory \/ Destroy \/ \E k \in Key : Find(k)
  BY <1>1, <1>2, <1>5, IdleListed
<1>6. CASE InsertScan \/ InsertRelink \/ InsertLink \/ InsertReturn
  BY <1>1, <1>2, <1>6, InsertScanListed, RelinkListed, InsertLinkListed, InsertReturnListed
<1>7. CASE FindScan \/ FindMiss
  BY <1>1, <1>2, <1>7, FindListed
<1>8. CASE DestroyNode \/ DestroyList
  BY <1>1, <1>2, <1>8, DestroyNodeListed, DestroyListListed
<1>9. ASSUME NEW k \in Key PROVE ~Remove(k)
  BY DEF Remove, Additive
<1>10. ~(RemoveScan \/ RemoveRelink \/ Unlink \/ RemoveReturn)
  BY DEF Listed, RemoveScan, RemoveRelink, Unlink, RemoveReturn
<1>11. CASE UNCHANGED vars
  <2>1. Listed(R)'
    BY <1>1, <1>11 DEF vars, heap, list, locals, Listed, Frame, Ordering,
       Chained, LinkNext, Behind, Members, Pending, Live, Cursor, Before,
       Reached, Searching
  <2> QED BY <1>2, <2>1
<1> QED BY <1>3, <1>4, <1>5, <1>6, <1>7, <1>8, <1>9, <1>10, <1>11 DEF Next, Caller, Step

(* RepeatsInv: also when keys repeat, as long as nothing is removed, every
   level is at every instant the list of its members in one order, larger keys
   first and of equal keys the last inserted first (skip_list.c:85-104): the
   levels never disagree about the order of equal keys. *)
THEOREM RepeatsInvariant == ASSUME Additive PROVE Spec => []RepeatsInv
<1>1. Init => RepeatsInv
  <2> SUFFICES ASSUME Init PROVE RepeatsInv
    OBVIOUS
  <2>1. {} \in SUBSET (Node \X Node) /\ Listed({})
    BY ListedInit
  <2> QED BY <2>1 DEF RepeatsInv
<1>2. RepeatsInv /\ [Next]_vars => RepeatsInv'
  BY ListedStep DEF RepeatsInv
<1> QED BY <1>1, <1>2, PTL DEF Spec

(* MemorySafe: inserting the same key again and again, searching and
   destroying reads no freed or unset memory. *)
THEOREM RepeatsSafe == ASSUME Additive PROVE Spec => []MemorySafe
<1>1. RepeatsInv => MemorySafe
  BY ListedSafe DEF RepeatsInv
<1> QED BY <1>1, RepeatsInvariant, PTL

(* A search answers what the store holds. *)
LEMMA FindListedMaps ==
  ASSUME NEW R, Listed(R), TypeOK', FindScan \/ FindMiss
  PROVE  Store!FindHit \/ Store!FindMiss \/ UNCHANGED Store!vars
<1>1. /\ pc = "find" /\ Searching /\ storePhase = "find" /\ storeReq.key = arg
      /\ \A i : Members(i) = {n \in Live : i < height[n]}
      /\ 0 \in 0 .. maxLevel - 1
  BY NonePending, LevelZero
     DEF FindScan, FindMiss, Searching, Listed, Frame, storePhase, storeReq
<1>2. CASE FindMiss
  <2>1. Store!Answer(Null)
    BY <1>1, <1>2, ReturnMaps DEF FindMiss
  <2>2. \A n \in Members(0) : key[n] # arg
    BY <1>1, <1>2 DEF FindMiss, Listed, Reached
  <2> QED BY <1>1, <2>1, <2>2, StoredIs DEF Store!FindMiss
<1>3. CASE FindScan
  <2>1. lv \in 0 .. maxLevel - 1 /\ Before(cur, lv)
    BY <1>1, <1>3 DEF FindScan, Listed, TypeOK, Frame, Cursor
  <2>2. Succ = Tail \/ Succ \in Members(lv)
    BY <1>1, <2>1, Followed DEF Succ, Behind
  <2>3. CASE Found /\ Return("idle", ptr[Succ]) /\ UNCHANGED <<heap, list>>
    <3>1. Store!Answer(ptr[Succ])
      BY <1>1, <2>3, ReturnMaps
    <3>2. Succ \in Members(0) /\ key[Succ] = arg
      BY <1>1, <2>1, <2>2, <2>3 DEF Found, KeyOf, Live
    <3>3. Succ \in Store!Stored(storeReq.key) /\ storeEntries[Succ].ptr = ptr[Succ]
      BY <1>1, <3>2, StoredIs DEF storeEntries
    <3> QED BY <1>1, <3>1, <3>3 DEF Store!FindHit
  <2>4. CASE Advance
    BY <1>1, <2>4, ScanStutters DEF Advance, Listed
  <2>5. CASE UNCHANGED <<heap, list, pc, arg, cur, update, node, ret>>
    BY <1>1, <2>5, ScanStutters DEF Listed
  <2> QED BY <1>3, <2>3, <2>4, <2>5 DEF FindScan
<1> QED BY <1>2, <1>3

(* The teardown drops the entries one by one and closes an empty store. *)
LEMMA DestroyListedMaps ==
  ASSUME NEW R, Listed(R), TypeOK'
  PROVE  /\ DestroyNode => Store!Drop
         /\ DestroyList => Store!Closed
<1>1. ASSUME DestroyNode PROVE Store!Drop
  <2>1. /\ pc = "destroy" /\ UNCHANGED <<list, pc, locals, ret>>
        /\ First # Tail /\ First = next[Head][0] /\ node = Null /\ node' = Null
        /\ Members(0) = Live /\ Behind(R, Head, 0) = Live /\ LinkNext(R, Head, 0)
        /\ Free(First, [next EXCEPT ![Head][0] = next[First][0]])
    BY <1>1, DestroyListed DEF DestroyNode, First, locals
  <2>2. First \in Live /\ First \in Node
    BY <2>1 DEF LinkNext, Live
  <2> QED BY <2>1, <2>2, DropMaps DEF Listed
<1>2. ASSUME DestroyList PROVE Store!Closed
  <2>1. pc = "destroy" /\ next[Head][0] = Tail
    BY <1>2 DEF DestroyList, First
  <2>2. Live = {}
    <3> SUFFICES ASSUME Live # {} PROVE FALSE
      OBVIOUS
    <3>1. Tail \in Live
      BY <2>1, DestroyListed DEF LinkNext
    <3> QED BY <3>1, PointerAssumption DEF Live
  <2> QED BY <1>2, <2>2, ClosedMaps
<1> QED BY <1>1, <1>2

LEMMA ListedMaps ==
  ASSUME NEW R, Listed(R), TypeOK', Additive, [Next]_vars
  PROVE  [Store!Next]_(Store!vars)
<1>0. TypeOK /\ Frame
  BY DEF Listed
<1>1. CASE UNCHANGED vars
  BY <1>1 DEF vars, heap, list, locals, Store!vars, storeEntries, storePhase,
     storeReq, Members, Pending, Live
<1>2. CASE InsertScan
  BY <1>0, <1>2, ScanStutters DEF InsertScan, Advance, Descend, Searching
<1>3. ASSUME NEW k \in Key PROVE ~Remove(k)
  BY DEF Remove, Additive
<1>4. CASE \E k \in Key : Find(k)
  BY <1>0, <1>4, IdleMaps DEF Store!Next
<1>5. CASE \E k \in Key, v \in Val : Insert(k, v)
  BY <1>0, <1>5, InsertMaps DEF Store!Next
<1>6. CASE (\E r \in Requests : Create(r)) \/ InsertNoMemory \/ Destroy
  BY <1>0, <1>6, CreateMaps, IdleMaps DEF Store!Next
<1>7. CASE InsertRelink \/ InsertLink \/ InsertReturn
  BY <1>0, <1>7, RelinkMaps, InsertLinkMaps, InsertReturnMaps DEF Store!Next
<1>8. ~(RemoveScan \/ RemoveRelink \/ Unlink \/ RemoveReturn)
  BY DEF Listed, RemoveScan, RemoveRelink, Unlink, RemoveReturn
<1>9. CASE FindScan \/ FindMiss \/ DestroyNode \/ DestroyList
  BY <1>9, FindListedMaps, DestroyListedMaps DEF Store!Next
<1> QED BY <1>1, <1>2, <1>3, <1>4, <1>5, <1>6, <1>7, <1>8, <1>9
        DEF Next, Caller, Step

(* StoreSpec: with repeated keys the list is still the store of KeyStore, where
   one key names several entries: a search finds one of them, never misses
   them all, and destroy gives up every one. *)
THEOREM RepeatsImplement == ASSUME Additive PROVE Spec => StoreSpec
<1>1. Init => Store!Init
  BY StoreInit
<1>2. RepeatsInv /\ RepeatsInv' /\ [Next]_vars => [Store!Next]_(Store!vars)
  <2>1. RepeatsInv' => TypeOK'
    BY DEF RepeatsInv, Listed
  <2> QED BY <2>1, ListedMaps DEF RepeatsInv
<1> QED BY <1>1, <1>2, RepeatsInvariant, PTL DEF Spec, StoreSpec, Store!Spec
=============================================================================
