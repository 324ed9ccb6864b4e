------------------------------- MODULE Stacks -------------------------------
(***************************************************************************)
(* What array.h promises: an array is a stack of values that can also be   *)
(* read anywhere, sorted, and swapped with another.                        *)
(***************************************************************************)
EXTENDS Integers, Sequences

CONSTANTS Arr, Val

VARIABLES open, stack, answer
vars == <<open, stack, answer>>

Init == /\ open = [a \in Arr |-> FALSE]
        /\ stack = [a \in Arr |-> <<>>]
        /\ answer = 0

Open(a)  == /\ ~open[a] /\ open' = [open EXCEPT ![a] = TRUE]
            /\ UNCHANGED <<stack, answer>>
Close(a) == /\ open[a] /\ stack[a] = <<>>
            /\ open' = [open EXCEPT ![a] = FALSE]
            /\ UNCHANGED <<stack, answer>>

Push(a, v) == /\ open[a] /\ stack' = [stack EXCEPT ![a] = Append(@, v)]
              /\ UNCHANGED <<open, answer>>
Pop(a)     == /\ stack[a] # <<>>
              /\ stack' = [stack EXCEPT ![a] = SubSeq(@, 1, Len(@) - 1)]
              /\ answer' = stack[a][Len(stack[a])]
              /\ UNCHANGED open
Get(a)     == /\ \E k \in 1 .. Len(stack[a]) : answer' = stack[a][k]
              /\ UNCHANGED <<open, stack>>
Sort(a)    == /\ \E p \in [DOMAIN stack[a] -> DOMAIN stack[a]] :
                   LET sorted == [k \in DOMAIN stack[a] |-> stack[a][p[k]]]
                   IN  /\ {p[k] : k \in DOMAIN p} = DOMAIN p
                       /\ \A k \in 1 .. Len(sorted) - 1 : sorted[k] <= sorted[k + 1]
                       /\ stack' = [stack EXCEPT ![a] = sorted]
              /\ UNCHANGED <<open, answer>>
Swap(a, b) == /\ open[a] /\ open[b]
              /\ stack' = [stack EXCEPT ![a] = stack[b], ![b] = stack[a]]
              /\ UNCHANGED <<open, answer>>

Next == \E a \in Arr : \/ Open(a) \/ Close(a) \/ Pop(a) \/ Get(a) \/ Sort(a)
                       \/ \E v \in Val : Push(a, v)
                       \/ \E b \in Arr : Swap(a, b)

Spec == Init /\ [][Next]_vars
=============================================================================
