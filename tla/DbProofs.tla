------------------------------ MODULE DbProofs ------------------------------
(***************************************************************************)
(* The process tree of Db, for any pools and failures.  The inductive      *)
(* invariant adds Ordered: the loop counter of a process is past the       *)
(* pools it is named by, or at its own while the server runs.  That makes  *)
(* the name of a forked child new, and tells who its parent is.            *)
(***************************************************************************)
EXTENDS Db, TLAPS

Ordered ==
  \A s \in Process :
    /\ pc[s] \in Serving => i[s] \in s
    /\ pc[s] \in Serving => \A q \in s : q <= i[s]
    /\ pc[s] = "loop" => \A q \in s : q < i[s]

IInv == TypeOK /\ Ordered /\ ForksAfterServer /\ HeldOnPath

-----------------------------------------------------------------------------
LEMMA PoolNat == /\ Len(Pools) \in Nat /\ \A p \in Pool : p \in Nat
                 /\ \A s \in Process : \A q \in s : q \in Nat
  BY PoolsAssumption DEF Pool, Process

(* The child of a process in its loop has a name no process has had. *)
LEMMA ChildNew ==
  ASSUME IInv, NEW s \in Process, Looping(s)
  PROVE  /\ Child(s) \in Process /\ Child(s) # s
         /\ pc[Child(s)] = "absent"
<1>1. i[s] \in Pool /\ \A q \in s : q < i[s]
  BY DEF IInv, Ordered, Looping
<1>2. Child(s) \in Process
  BY <1>1 DEF Child, Process
<1>3. i[s] \notin s
  BY <1>1, PoolNat
<1>4. ~Started(Child(s))
  BY <1>1, PoolNat DEF IInv, ForksAfterServer, Child
<1> QED BY <1>2, <1>3, <1>4 DEF Child, Started

(* Its name tells its parent and its pool. *)
LEMMA ParentKnown ==
  ASSUME NEW s \in Process, NEW p \in Pool, \A q \in s : q < p,
         NEW t \in Process, NEW r \in Pool, \A q \in t : q < r,
         s \cup {p} = t \cup {r}
  PROVE  s = t /\ p = r
<1>1. p <= r /\ r <= p
  BY PoolNat
<1>2. p = r
  BY <1>1, PoolNat
<1>3. p \notin s /\ r \notin t
  BY PoolNat
<1> QED BY <1>2, <1>3

-----------------------------------------------------------------------------
LEMMA IInvInit == Init => IInv
<1> SUFFICES ASSUME Init PROVE IInv
  OBVIOUS
<1>1. TypeOK
  BY PoolNat DEF Init, TypeOK, Stages, LifeStages, Process
<1>2. Ordered /\ HeldOnPath
  BY DEF Init, Ordered, HeldOnPath, Serving
<1>3. ForksAfterServer
  BY DEF Init, ForksAfterServer, Started, Main, Process
<1> QED BY <1>1, <1>2, <1>3 DEF IInv

(* A step of one process alone: it gets no earlier in its loop, and does not
   go back to its server. *)
Past == {"loop", "wait", "cleanup", "ended"}
Local(s, x) ==
  /\ Started(s) /\ x \in Past \cup Serving
  /\ pc' = [pc EXCEPT ![s] = x]
  /\ i' = i \/ i' = [i EXCEPT ![s] = @ + 1]
  /\ i'[s] \in 1 .. Len(Pools) + 1
  /\ pc[s] \in Past => x \in Past
  /\ x \in Serving => i'[s] \in s /\ \A q \in s : q <= i'[s]
  /\ x = "loop" => \A q \in s : q < i'[s]
  /\ open' \in [Process -> SUBSET Pool]
  /\ \A t \in Process \ {s} : open'[t] = open[t]
  /\ open'[s] \subseteq s

LEMMA LocalStep ==
  ASSUME IInv, NEW s \in Process, NEW x, Local(s, x)
  PROVE  IInv'
<1>0. /\ x \in Stages \ {"returned", "absent"} /\ Started(s)
      /\ i' \in [Process -> 1 .. Len(Pools) + 1]
      /\ \A t \in Process \ {s} : i'[t] = i[t]
      /\ i'[s] = i[s] \/ i'[s] = i[s] + 1
  BY DEF Local, IInv, TypeOK, Past, Serving, Stages, LifeStages
<1>1. \A t \in Process : pc'[t] = IF t = s THEN x ELSE pc[t]
  BY DEF Local, IInv, TypeOK
<1>2. Ordered'
  BY <1>0, <1>1 DEF Local, IInv, Ordered
<1>3. ForksAfterServer'
  <2> SUFFICES ASSUME NEW t \in Process, NEW p \in Pool, \A q \in t : q < p,
                      Started(t \cup {p})'
               PROVE  pc'[t] \in {"loop", "wait", "cleanup", "ended"} /\ p < i'[t]
    BY DEF ForksAfterServer
  <2>1. t \cup {p} \in Process
    BY DEF Process
  <2>2. Started(t \cup {p})
    BY <1>0, <1>1, <2>1 DEF Started
  <2>3. pc[t] \in Past /\ p < i[t]
    BY <2>2 DEF IInv, ForksAfterServer, Past
  <2>4. i[t] \in Nat /\ p \in Nat
    BY PoolNat DEF IInv, TypeOK
  <2>5. i'[t] = i[t] \/ i'[t] = i[t] + 1
    BY <1>0
  <2>6. p < i'[t]
    BY <2>3, <2>4, <2>5
  <2>7. pc'[t] \in Past
    BY <1>1, <2>3 DEF Local
  <2> QED BY <2>6, <2>7 DEF Past
<1>4. TypeOK'
  BY <1>0 DEF Local, IInv, TypeOK
<1>5. HeldOnPath'
  BY DEF Local, IInv, HeldOnPath
<1> QED BY <1>2, <1>3, <1>4, <1>5 DEF IInv

LEMMA ForkStep ==
  ASSUME IInv, NEW s \in Process, Fork(s)
  PROVE  IInv'
<1> DEFINE c == Child(s)
<1>1. Looping(s)
  BY DEF Fork
<1>2. /\ c \in Process /\ c # s /\ pc[c] = "absent"
      /\ i[s] \in Pool /\ \A q \in s : q < i[s]
  BY <1>1, ChildNew DEF IInv, Ordered, Looping
<1>3. \A t \in Process : /\ pc'[t] = IF t = c THEN "start" ELSE pc[t]
                         /\ i'[t] = IF t = c THEN i[s]
                                    ELSE IF t = s THEN i[s] + 1 ELSE i[t]
                         /\ open'[t] = IF t = c THEN open[s] ELSE open[t]
  BY <1>2 DEF Fork, IInv, TypeOK
<1>4. TypeOK'
  <2>1. i[s] + 1 \in 1 .. Len(Pools) + 1
    BY <1>2, PoolNat DEF Pool
  <2>2. "start" \in Stages \ {"returned"}
    BY DEF Stages, LifeStages
  <2> QED BY <1>2, <2>1, <2>2 DEF Fork, IInv, TypeOK
<1>5. Ordered'
  <2>1. i[s] \in c /\ \A q \in c : q <= i[s]
    BY <1>2, PoolNat DEF Child
  <2>2. pc[s] = "loop"
    BY <1>1 DEF Looping
  <2>3. \A q \in s : q < i[s] + 1
    BY <1>2, PoolNat
  <2> QED BY <1>2, <1>3, <2>1, <2>2, <2>3 DEF IInv, Ordered, Serving
<1>6. ForksAfterServer'
  <2> SUFFICES ASSUME NEW t \in Process, NEW p \in Pool, \A q \in t : q < p,
                      Started(t \cup {p})'
               PROVE  pc'[t] \in {"loop", "wait", "cleanup", "ended"} /\ p < i'[t]
    BY DEF ForksAfterServer
  <2>1. t \cup {p} \in Process
    BY DEF Process
  <2>2. CASE t \cup {p} = c
    <3>1. t = s /\ p = i[s]
      BY <1>2, <2>2, ParentKnown DEF Child
    <3>2. p < i'[t] /\ pc'[t] = "loop"
      BY <1>1, <1>2, <1>3, <3>1, PoolNat DEF Looping
    <3> QED BY <3>2
  <2>3. CASE t \cup {p} # c
    <3>1. Started(t \cup {p})
      BY <1>3, <2>1, <2>3 DEF Started
    <3>2. pc[t] \in {"loop", "wait", "cleanup", "ended"} /\ p < i[t]
      BY <3>1 DEF IInv, ForksAfterServer
    <3>3. t # c
      BY <1>2, <3>2
    <3>4. i'[t] = i[t] \/ i'[t] = i[t] + 1
      BY <1>3, <3>3
    <3>5. i[t] \in Nat /\ p \in Nat
      BY PoolNat DEF IInv, TypeOK
    <3> QED BY <1>3, <3>2, <3>3, <3>4, <3>5
  <2> QED BY <2>2, <2>3
<1>7. HeldOnPath'
  <2>1. open[s] \subseteq c
    BY <1>2 DEF IInv, HeldOnPath, Child
  <2> QED BY <1>3, <2>1 DEF IInv, HeldOnPath
<1> QED BY <1>4, <1>5, <1>6, <1>7 DEF IInv

-----------------------------------------------------------------------------
LEMMA IInvStep == IInv /\ [Next]_vars => IInv'
<1> SUFFICES ASSUME IInv, [Next]_vars PROVE IInv'
  OBVIOUS
<1>t. /\ pc \in [Process -> Stages \ {"returned"}]
      /\ i \in [Process -> 1 .. Len(Pools) + 1]
      /\ open \in [Process -> SUBSET Pool]
      /\ \A s \in Process : i[s] \in Nat /\ open[s] \subseteq s
  BY PoolNat DEF IInv, TypeOK, HeldOnPath
<1>m. Main \in Process /\ \A q \in Main : q < i[Main]
  BY DEF Main, Process
<1>1. CASE Boot
  <2>1. Local(Main, "loop")
    BY <1>1, <1>m, <1>t DEF Boot, Local, Past, Serving, Started
  <2> QED BY <1>m, <2>1, LocalStep
<1>2. CASE ConfFails
  <2>1. Local(Main, "ended")
    BY <1>2, <1>m, <1>t DEF ConfFails, Local, Past, Serving, Started
  <2> QED BY <1>m, <2>1, LocalStep
<1>3. ASSUME NEW s \in Process, Fork(s) PROVE IInv'
  BY <1>3, ForkStep
<1>4. ASSUME NEW s \in Process, LoopDone(s) PROVE IInv'
  <2>1. Local(s, "wait")
    BY <1>4, <1>t DEF LoopDone, Local, Past, Serving, Started
  <2> QED BY <2>1, LocalStep
<1>5. ASSUME NEW s \in Process, Wait(s) PROVE IInv'
  <2>1. Local(s, "cleanup")
    BY <1>5, <1>t DEF Wait, Local, Past, Serving, Started
  <2> QED BY <2>1, LocalStep
<1>6. ASSUME NEW s \in Process, Cleanup(s) \/ Crash(s) PROVE IInv'
  <2>1. Local(s, "ended")
    BY <1>6, <1>t DEF Cleanup, Crash, End, Local, Past, Serving, Started
  <2> QED BY <2>1, LocalStep
<1>7. ASSUME NEW s \in Process, ForkFails(s) PROVE IInv'
  <2>1. i[s] \in Pool /\ pc[s] = "loop" /\ \A q \in s : q < i[s]
    BY <1>7 DEF ForkFails, Looping, IInv, Ordered
  <2>2. \A q \in s : q < i[s] + 1
    BY <2>1, PoolNat
  <2>3. i[s] + 1 \in 1 .. Len(Pools) + 1
    BY <2>1, PoolNat DEF Pool
  <2>4. Local(s, "loop")
    BY <1>7, <1>t, <2>1, <2>2, <2>3 DEF ForkFails, Local, Past, Serving, Started
  <2> QED BY <2>4, LocalStep
<1>8. ASSUME NEW s \in Process, Return(s) PROVE IInv'
  <2>1. i[s] \in s /\ \A q \in s : q <= i[s]
    BY <1>8 DEF Return, IInv, Ordered, Serving
  <2>2. i[s] \in Pool /\ \A q \in s : q < i[s] + 1
    BY <2>1, PoolNat DEF Process
  <2>3. i[s] + 1 \in 1 .. Len(Pools) + 1
    BY <2>2, PoolNat DEF Pool
  <2>4. Local(s, "loop")
    BY <1>8, <1>t, <2>2, <2>3 DEF Return, Local, Past, Serving, Started
  <2> QED BY <2>4, LocalStep
<1>9. ASSUME NEW s \in Process,
             Listen(s) \/ BindFails(s) \/ ListenFails(s) \/ Accept(s)
      PROVE  IInv'
  <2>1. PICK x \in {"listening", "deaf"} :
          pc[s] \in Serving /\ pc' = [pc EXCEPT ![s] = x] /\ i' = i
    BY <1>9, <1>t DEF Listen, BindFails, ListenFails, Accept, Move, Serving
  <2>2. /\ i[s] \in s /\ i[s] \in Pool /\ \A q \in s : q <= i[s]
    BY <2>1 DEF IInv, Ordered, Process
  <2>3. open' = open \/ open' = [open EXCEPT ![s] = @ \cup {i[s]}]
    BY <1>9 DEF Listen, BindFails, ListenFails, Accept
  <2>4. /\ open' \in [Process -> SUBSET Pool] /\ open'[s] \subseteq s
        /\ \A t \in Process \ {s} : open'[t] = open[t]
    BY <1>t, <2>2, <2>3
  <2>5. Local(s, x)
    BY <1>t, <2>1, <2>2, <2>4 DEF Local, Past, Serving, Started
  <2> QED BY <2>5, LocalStep
<1>10. CASE UNCHANGED vars
  BY <1>10 DEF vars, IInv, TypeOK, Ordered, ForksAfterServer, HeldOnPath, Started
<1> QED
  BY <1>1, <1>2, <1>3, <1>4, <1>5, <1>6, <1>7, <1>8, <1>9, <1>10 DEF Next, Run

-----------------------------------------------------------------------------
(* In every reachable state the tree is well formed. *)
THEOREM TreeCorrect == Spec => []IInv
  BY IInvInit, IInvStep, PTL DEF Spec

(* Types, for any number of pools. *)
THEOREM DbTypeCorrect == Spec => []TypeOK
<1>1. IInv => TypeOK
  BY DEF IInv
<1> QED BY <1>1, TreeCorrect, PTL

(* A second server of a pool is only started by a process whose own server has
   returned, and every process forked has a name of its own. *)
THEOREM ServersBeforeForks == Spec => []ForksAfterServer
<1>1. IInv => ForksAfterServer
  BY DEF IInv
<1> QED BY <1>1, TreeCorrect, PTL

(* What keeps the port of a pool is in the processes that ran its servers and
   in those they have forked since. *)
THEOREM PortsOnPath == Spec => []HeldOnPath
<1>1. IInv => HeldOnPath
  BY DEF IInv
<1> QED BY <1>1, TreeCorrect, PTL
=============================================================================
