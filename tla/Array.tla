------------------------------- MODULE Array --------------------------------
(***************************************************************************)
(* The dynamic array of array.c over an explicit heap: the header of each  *)
(* array and the blocks malloc and realloc gave.  realloc may move a block *)
(* or refuse.  A client stores a value through the pointer array_push      *)
(* answers, and reads through the ones array_get, array_top and array_pop  *)
(* answer.  array_each runs element by element; its callback may push.     *)
(* The asserts of array.c are the client's part of the contract: guards.   *)
(***************************************************************************)
EXTENDS Integers, Sequences, Functions

CONSTANTS
  Arr,     \* the arrays
  Val,     \* element values, in the order array_sort is given
  Block,   \* heap blocks
  Sizes,   \* how many elements array_create is asked for
  MaxLen,  \* bound: elements of all arrays together
  Null, Junk

ASSUME ArrayAssumption ==
  /\ Val \subseteq Int /\ Sizes \subseteq Nat \ {0} /\ MaxLen \in Nat
  /\ Null \notin Block \cup Arr \cup Seq(Val \cup {Junk}) /\ Junk \notin Val

VARIABLES
  head,    \* struct array: elem, nelem and nalloc
  mem,     \* what is in a block; Null when it is not allocated
  each,    \* the running array_each: its array, i, nelem and the values seen
  answer   \* the value last read

arrayVars == <<head, mem, each, answer>>

Idle   == [arr |-> Null, i |-> 0, n |-> 0, seen |-> <<>>]
NoHead == [elem |-> Null, nelem |-> 0, nalloc |-> 0]

ArrayInit == /\ head = [a \in Arr |-> NoHead]
             /\ mem = [b \in Block |-> Null]
             /\ each = Idle /\ answer = 0

Made(a)    == head[a].elem # Null
Cells(a)   == mem[head[a].elem]
Content(a) == SubSeq(Cells(a), 1, head[a].nelem)
Filled(a)  == Made(a) /\ head[a].nelem # 0
Unused     == {b \in Block : mem[b] = Null}

Room == FoldFunction(LAMBDA h, n : h.nelem + n, 0, head) < MaxLen

(* A running array_each has read the number of elements. *)
Quiet(a) == each.arr # a

-----------------------------------------------------------------------------
(* array_create, array_init; array_destroy, array_deinit *)

Fresh(n) == [k \in 1 .. n |-> Junk]

Create(a) ==
  /\ ~Made(a)
  /\ \E b \in Unused, n \in Sizes :
       /\ head' = [head EXCEPT ![a] = [elem |-> b, nelem |-> 0, nalloc |-> n]]
       /\ mem' = [mem EXCEPT ![b] = Fresh(n)]
  /\ UNCHANGED <<each, answer>>

Destroy(a) ==
  /\ Made(a) /\ head[a].nelem = 0
  /\ mem' = [mem EXCEPT ![head[a].elem] = Null]
  /\ head' = [head EXCEPT ![a] = NoHead]
  /\ UNCHANGED <<each, answer>>

-----------------------------------------------------------------------------
(* array_push *)

Full(a) == head[a].nelem = head[a].nalloc
Store(cells, a, v) == [cells EXCEPT ![head[a].nelem + 1] = v]

Push(a, v) ==
  /\ Made(a) /\ ~Full(a) /\ Room
  /\ mem' = [mem EXCEPT ![head[a].elem] = Store(@, a, v)]
  /\ head' = [head EXCEPT ![a].nelem = @ + 1]
  /\ UNCHANGED <<each, answer>>

(* mutant: the new block is not stored when it has moved *)
GrowLost(a, v) ==
  /\ Made(a) /\ Full(a) /\ Room
  /\ \E b \in Unused \cup {head[a].elem} :
       /\ mem' = [mem EXCEPT ![head[a].elem] = Null,
                             ![b] = Store(Cells(a) \o Fresh(head[a].nalloc), a, v)]
       /\ head' = [head EXCEPT ![a].nalloc = 2 * @, ![a].nelem = @ + 1]
  /\ UNCHANGED <<each, answer>>
Grown(a) == Cells(a) \o Fresh(head[a].nalloc)

(* The block may move. *)
GrowPush(a, v) ==
  /\ Made(a) /\ Full(a) /\ Room
  /\ \E b \in Unused \cup {head[a].elem} :
       /\ mem' = [mem EXCEPT ![head[a].elem] = Null, ![b] = Store(Grown(a), a, v)]
       /\ head' = [head EXCEPT ![a] = [elem   |-> b, nelem |-> @.nelem + 1,
                                       nalloc |-> 2 * @.nalloc]]
  /\ UNCHANGED <<each, answer>>

(* mutant: the answer of realloc goes to elem untested *)
PushFailsLost(a) == /\ Made(a) /\ Full(a)
                    /\ head' = [head EXCEPT ![a].elem = Null]
                    /\ UNCHANGED <<mem, each, answer>>
PushFails(a) == Made(a) /\ Full(a) /\ UNCHANGED arrayVars

-----------------------------------------------------------------------------
(* array_pop; array_get and array_top *)

Pop(a) ==
  /\ Filled(a) /\ Quiet(a)
  /\ head' = [head EXCEPT ![a].nelem = @ - 1]
  /\ answer' = Cells(a)[head[a].nelem]
  /\ UNCHANGED <<mem, each>>

Get(a, idx) ==
  /\ Filled(a) /\ idx < head[a].nelem
  /\ answer' = Cells(a)[idx + 1]
  /\ UNCHANGED <<head, mem, each>>

Onto(p) == {p[k] : k \in DOMAIN p} = DOMAIN p
InOrder(cells, n) == \A k \in 1 .. n - 1 : cells[k] <= cells[k + 1]
Moved(a, p) ==
  [k \in DOMAIN Cells(a) |-> IF k <= head[a].nelem THEN Cells(a)[p[k]] ELSE Cells(a)[k]]

(* array_sort: qsort of the elements, not of the room behind them *)
Sort(a) ==
  /\ Filled(a) /\ Quiet(a)
  /\ \E p \in [1 .. head[a].nelem -> 1 .. head[a].nelem] :
       /\ Onto(p) /\ InOrder(Moved(a, p), head[a].nelem)
       /\ mem' = [mem EXCEPT ![head[a].elem] = Moved(a, p)]
  /\ UNCHANGED <<head, each, answer>>

Swap(a, b) ==
  /\ Made(a) /\ Made(b) /\ Quiet(a) /\ Quiet(b)
  /\ head' = [head EXCEPT ![a] = head[b], ![b] = head[a]]
  /\ UNCHANGED <<mem, each, answer>>

-----------------------------------------------------------------------------
(* array_each *)

EachStart(a) == /\ each = Idle /\ Filled(a)
                /\ each' = [arr |-> a, i |-> 0, n |-> head[a].nelem, seen |-> <<>>]
                /\ UNCHANGED <<head, mem, answer>>

Running == each.arr # Null
(* mutant: the first element again and again *)
VisitedFirst == Append(each.seen, Cells(each.arr)[1])
Visited == Append(each.seen, Cells(each.arr)[each.i + 1])

EachVisit == /\ Running /\ each.i < each.n
             /\ each' = [each EXCEPT !.i = @ + 1, !.seen = Visited]
             /\ UNCHANGED <<head, mem, answer>>

(* After the last element, or after a callback that answered an error. *)
EachEnd == /\ Running /\ each.i > 0
           /\ each' = Idle
           /\ UNCHANGED <<head, mem, answer>>

-----------------------------------------------------------------------------
ArrayNext ==
  \/ \E a \in Arr : \/ Create(a) \/ Destroy(a) \/ PushFails(a) \/ Pop(a) \/ Sort(a)
                    \/ EachStart(a)
                    \/ \E v \in Val : Push(a, v) \/ GrowPush(a, v)
                    \/ \E idx \in 0 .. MaxLen - 1 : Get(a, idx)
                    \/ \E b \in Arr : Swap(a, b)
  \/ EachVisit \/ EachEnd

ArraySpec == ArrayInit /\ [][ArrayNext]_arrayVars

-----------------------------------------------------------------------------
(* Properties *)

ArrayTypeOK ==
  /\ head \in [Arr -> [elem : Block \cup {Null}, nelem : Nat, nalloc : Nat]]
  /\ \A b \in Block : mem[b] = Null \/ mem[b] \in Seq(Val \cup {Junk})
  /\ each.i \in 0 .. each.n /\ each.seen \in Seq(Val)

(* Every block is the elements of exactly one array, has the room the array
   believes it has, and its first nelem cells have been stored: after any
   growth, move, refusal and swap no block is lost, shared or overrun
   (array.c:84-152). *)
OneOwner ==
  /\ \A b \in Block : mem[b] # Null => \E a \in Arr : head[a].elem = b
  /\ \A a \in Arr : Made(a) =>
       /\ mem[head[a].elem] # Null /\ Len(Cells(a)) = head[a].nalloc
       /\ head[a].nelem <= head[a].nalloc
       /\ \A k \in 1 .. head[a].nelem : Cells(a)[k] \in Val
       /\ \A b \in Arr \ {a} : head[b].elem # head[a].elem

(* array_each visits the elements there were when it began, each once and in
   order, although its callback pushes and the block moves (array.c:169-190). *)
EachInOrder ==
  Running => /\ each.n <= head[each.arr].nelem
             /\ each.seen = SubSeq(Cells(each.arr), 1, each.i)

S == INSTANCE Stacks WITH
       open  <- [a \in Arr |-> Made(a)],
       stack <- [a \in Arr |-> IF Made(a) THEN Content(a) ELSE <<>>]

(* The arrays implement Stacks: that one grows, moves or cannot grow is not
   seen in any other (array.c:5-190). *)
StackSpec == S!Spec
=============================================================================
