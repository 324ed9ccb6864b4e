------------------------------ MODULE KeyStore ------------------------------
(***************************************************************************)
(* What skip_list.h promises a caller, with no list in it: a store of      *)
(* entries <<key, ptr>>, one call at a time.  A call is issued, takes      *)
(* effect at one instant and then returns.  Entries are named by abstract  *)
(* identifiers because one key may be stored more than once.               *)
(*                                                                         *)
(* SkipList implements this specification (see Store in that module).      *)
(***************************************************************************)
EXTENDS Integers

CONSTANTS
  Id,       \* names of the entries the store can hold at once
  Key,      \* keys (uint32_t in the code)
  Val,      \* the caller's non-null pointers
  Null,     \* what find answers for a key that is not stored
  Unset     \* no argument, or no result yet

VARIABLES
  entries,  \* the entries held: a function from a subset of Id to [key, ptr]
  phase,    \* "none", "idle", or how far the current call has come
  req,      \* key and pointer of the current call
  ret       \* what the last call returned

vars == <<entries, phase, req, ret>>

NoReq == [key |-> Unset, ptr |-> Unset]
Stored(k) == {e \in DOMAIN entries : entries[e].key = k}

Call(p, r) == /\ phase = "idle" /\ phase' = p /\ req' = r /\ ret' = Unset
              /\ UNCHANGED entries
Answer(r)  == /\ phase' = "idle" /\ req' = NoReq /\ ret' = r
              /\ UNCHANGED entries

Init == /\ entries = [e \in {} |-> NoReq]
        /\ phase = "none" /\ req = NoReq /\ ret = Unset

Open == phase = "none" /\ Answer(Unset)

(* Memory may run out: the call changes nothing and answers -1. *)
InsertRefused == phase = "idle" /\ Answer(-1)

Insert(k, v) == Call("insert", [key |-> k, ptr |-> v])
InsertEffect ==
  /\ phase = "insert"
  /\ \E e \in Id \ DOMAIN entries :
        entries' = [x \in DOMAIN entries \cup {e} |->
                      IF x = e THEN req ELSE entries[x]]
  /\ phase' = "inserted"
  /\ UNCHANGED <<req, ret>>
InsertReturn == phase = "inserted" /\ Answer(0)

Remove(k) == Call("remove", [key |-> k, ptr |-> Unset])
RemoveEffect ==
  /\ phase = "remove"
  /\ \E e \in Stored(req.key) :
        entries' = [x \in DOMAIN entries \ {e} |-> entries[x]]
  /\ phase' = "removed"
  /\ UNCHANGED <<req, ret>>
RemoveReturn == phase = "removed" /\ Answer(0)
RemoveMiss   == phase = "remove" /\ Stored(req.key) = {} /\ Answer(-1)

Find(k)  == Call("find", [key |-> k, ptr |-> Unset])
FindHit  == /\ phase = "find"
            /\ \E e \in Stored(req.key) : Answer(entries[e].ptr)
FindMiss == phase = "find" /\ Stored(req.key) = {} /\ Answer(Null)

(* Closing gives the entries up one by one. *)
Close == Call("destroy", NoReq)
Drop  == /\ phase = "destroy"
         /\ \E e \in DOMAIN entries :
               entries' = [x \in DOMAIN entries \ {e} |-> entries[x]]
         /\ UNCHANGED <<phase, req, ret>>
Closed == /\ phase = "destroy" /\ DOMAIN entries = {}
          /\ phase' = "none" /\ req' = NoReq /\ ret' = Unset
          /\ UNCHANGED entries

Next ==
  \/ Open \/ InsertRefused \/ InsertEffect \/ InsertReturn
  \/ RemoveEffect \/ RemoveReturn \/ RemoveMiss
  \/ FindHit \/ FindMiss
  \/ Close \/ Drop \/ Closed
  \/ \E k \in Key : Remove(k) \/ Find(k) \/ \E v \in Val : Insert(k, v)

Spec == Init /\ [][Next]_vars
=============================================================================
