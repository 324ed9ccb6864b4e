--------------------------------- MODULE Db ---------------------------------
(***************************************************************************)
(* The processes of the database: main of db.c.  It forks a process per    *)
(* pool, which runs the server of that pool.  The child shares the loop    *)
(* with its parent, so one whose server returns goes on to fork servers of *)
(* the pools that follow; a process is therefore named by the set of pools *)
(* whose servers it and its ancestors ran, main being {}.                  *)
(*                                                                         *)
(* Of a server the processes see what ServerLife says, the port it is      *)
(* bound to, and the descriptors it leaves open.                           *)
(***************************************************************************)
EXTENDS Integers, Sequences, ServerLife

CONSTANTS
  Pools,     \* the pools conf_create found, sorted: their [addr, port]
  Unset,     \* the address of a pool that has none: a NULL host
  Names,     \* addresses inet_pton cannot read: it answers 0, not -1
  Any,       \* INADDR_ANY, what a name therefore stands for
  Failures,  \* may conf_create, fork, bind, listen or epoll_wait fail?
  Steady     \* pools spared by failures of bind, listen, accept and the wait

Pool == 1 .. Len(Pools)

ASSUME PoolsAssumption ==
  /\ Pools \in Seq([addr : {Pools[p].addr : p \in Pool}, port : Nat])
  /\ Steady \subseteq Pool /\ Failures \in BOOLEAN

VARIABLES
  pc,    \* where a process is
  i,     \* its loop counter: the pool its server is of, or the next to fork
  open   \* pools whose port one of its descriptors, not listening, is bound to

vars == <<pc, i, open>>

Process == SUBSET Pool
Main    == {}

Stages  == {"absent", "boot", "loop", "wait", "cleanup", "ended"} \cup LifeStages
Serving == {"start", "listening", "deaf"}

TypeOK == /\ pc \in [Process -> Stages \ {"returned"}]
          /\ i \in [Process -> 1 .. Len(Pools) + 1]
          /\ open \in [Process -> SUBSET Pool]

Init == /\ pc = [s \in Process |-> IF s = Main THEN "boot" ELSE "absent"]
        /\ i = [s \in Process |-> 1]
        /\ open = [s \in Process |-> {}]

Started(s)  == pc[s] # "absent"
Children(s) == {s \cup {p} : p \in {p \in Pool : \A q \in s : q < p}}
Forked(s)   == {c \in Children(s) : Started(c)}

-----------------------------------------------------------------------------
(* init_net_socket: the address it binds *)

SinAddr(p) == IF Pools[p].addr \in Names THEN Any ELSE Pools[p].addr
SinPort(p) == Pools[p].port % 2^16

(* Port 0 is any free port, another one each time. *)
Clash(p, q) == /\ SinPort(p) = SinPort(q) /\ SinPort(p) # 0
               /\ SinAddr(p) = SinAddr(q) \/ Any \in {SinAddr(p), SinAddr(q)}

(* SO_REUSEADDR is set after bind: any socket on the port is in the way. *)
Bound(s) == open[s] \cup (IF pc[s] = "listening" THEN {i[s]} ELSE {})
Taken(p) == \E q \in {q \in Pool : Clash(p, q)}, s \in Process : q \in Bound(s)

-----------------------------------------------------------------------------
(* main *)

Boot == /\ pc[Main] = "boot"
        /\ pc' = [pc EXCEPT ![Main] = "loop"]
        /\ UNCHANGED <<i, open>>

ConfFails == /\ Failures /\ pc[Main] = "boot"
             /\ pc' = [pc EXCEPT ![Main] = "ended"]
             /\ UNCHANGED <<i, open>>

(* mutant: the loop runs to cpn included *)
LoopingOver(s) == pc[s] = "loop" /\ i[s] \in 1 .. Len(Pools) + 1
Looping(s) == pc[s] = "loop" /\ i[s] \in Pool
Child(s)   == s \cup {i[s]}

(* mutant: the parent does not go on to the next pool *)
ForkAgain(s) == /\ Looping(s)
                /\ pc' = [pc EXCEPT ![Child(s)] = "start"]
                /\ i' = [i EXCEPT ![Child(s)] = i[s]]
                /\ open' = [open EXCEPT ![Child(s)] = open[s]]
Fork(s) == /\ Looping(s)
           /\ pc' = [pc EXCEPT ![Child(s)] = "start"]
           /\ i' = [i EXCEPT ![Child(s)] = i[s], ![s] = @ + 1]
           /\ open' = [open EXCEPT ![Child(s)] = open[s]]

(* A fork that fails is not told from one in the parent. *)
ForkFails(s) == /\ Failures /\ Looping(s)
                /\ i' = [i EXCEPT ![s] = @ + 1]
                /\ UNCHANGED <<pc, open>>

LoopDone(s) == /\ pc[s] = "loop" /\ i[s] \notin Pool
               /\ pc' = [pc EXCEPT ![s] = "wait"]
               /\ UNCHANGED <<i, open>>

(* mutant: waits for the last child, as waitpid(pid) would *)
WaitLast(s) == /\ pc[s] = "wait"
               /\ \A c \in Forked(s) :
                    (\A d \in Forked(s) : \A p \in d : \E q \in c : p <= q) => pc[c] = "ended"
               /\ pc' = [pc EXCEPT ![s] = "cleanup"]
               /\ UNCHANGED <<i, open>>
(* wait answers when one child has ended, or when there is none. *)
Wait(s) == /\ pc[s] = "wait"
           /\ Forked(s) = {} \/ \E c \in Forked(s) : pc[c] = "ended"
           /\ pc' = [pc EXCEPT ![s] = "cleanup"]
           /\ UNCHANGED <<i, open>>

End(s) == /\ pc' = [pc EXCEPT ![s] = "ended"]
          /\ open' = [open EXCEPT ![s] = {}]
          /\ UNCHANGED i

(* conf_dump, conf_destroy and the end of the process *)
Cleanup(s) == pc[s] = "cleanup" /\ End(s)

-----------------------------------------------------------------------------
(* init_server_instance: the life of the server of pool i[s] *)

Move(s, stage) == /\ pc[s] \in Serving /\ LifeStep(pc[s], stage)
                  /\ pc' = [pc EXCEPT ![s] = stage]
                  /\ UNCHANGED i

HasAddr(s) == Pools[i[s]].addr # Unset

Crash(s)  == pc[s] = "start" /\ ~HasAddr(s) /\ End(s)

(* mutant: bind, but no listen *)
OnlyBind(s) == /\ pc[s] = "start" /\ HasAddr(s) /\ ~Taken(i[s])
               /\ Move(s, "deaf")
               /\ open' = [open EXCEPT ![s] = @ \cup {i[s]}]
Listen(s) == /\ pc[s] = "start" /\ HasAddr(s) /\ ~Taken(i[s])
             /\ Move(s, "listening")
             /\ UNCHANGED open

MayFail(p) == Failures /\ p \notin Steady

BindFails(s) == /\ pc[s] = "start" /\ HasAddr(s)
                /\ Taken(i[s]) \/ MayFail(i[s])
                /\ Move(s, "deaf")
                /\ UNCHANGED open

(* The socket stays bound, and stays open.  (setsockopt would leave it
   listening as well, but has no reason to fail.) *)
ListenFails(s) == /\ pc[s] = "start" /\ HasAddr(s) /\ ~Taken(i[s]) /\ MayFail(i[s])
                  /\ Move(s, "deaf")
                  /\ open' = [open EXCEPT ![s] = @ \cup {i[s]}]

(* mutant: the child takes the pool after its own *)
AcceptNext(s) == /\ pc[s] = "listening" /\ i[s] + 1 \in Pool \ open[s]
                 /\ open' = [open EXCEPT ![s] = @ \cup {i[s] + 1}]
                 /\ UNCHANGED <<pc, i>>
(* A descriptor that was accepted is never closed. *)
Accept(s) == /\ pc[s] = "listening" /\ i[s] \notin open[s]
             /\ open' = [open EXCEPT ![s] = @ \cup {i[s]}]
             /\ UNCHANGED <<pc, i>>

(* The listening socket is closed, and the child goes on with the loop. *)
Return(s) == /\ pc[s] \in {"listening", "deaf"} /\ LifeStep(pc[s], "returned")
             /\ MayFail(i[s])
             /\ pc' = [pc EXCEPT ![s] = "loop"]
             /\ i' = [i EXCEPT ![s] = @ + 1]
             /\ UNCHANGED open

-----------------------------------------------------------------------------
Run(s) == \/ Fork(s) \/ LoopDone(s) \/ Wait(s) \/ Cleanup(s)
          \/ Crash(s) \/ Listen(s) \/ BindFails(s)

Next == \/ Boot \/ ConfFails
        \/ \E s \in Process : \/ Run(s) \/ ForkFails(s) \/ ListenFails(s)
                              \/ Accept(s) \/ Return(s)

Spec == Init /\ [][Next]_vars

(* Every process is scheduled. *)
FairSpec == Spec /\ WF_vars(Boot) /\ \A s \in Process : WF_vars(Run(s))

-----------------------------------------------------------------------------
(* Properties *)

(* However often a server returns and its process forks others, a process
   that has forked is past its own server, the children it has are of pools
   its loop has passed, and the next one is new (db.c:34-43): a second server
   of a pool is only ever started by a process whose server has returned. *)
ForksAfterServer ==
  \A s \in Process, p \in Pool :
    (\A q \in s : q < p) /\ Started(s \cup {p}) =>
      pc[s] \in {"loop", "wait", "cleanup", "ended"} /\ p < i[s]

(* A socket on the port of a pool is open only in the processes that ran a
   server of that pool and in the ones those have forked since (util.c:75-91,
   net_wrapper.c:74-84): when these have ended, no process has a socket on
   the port. *)
HeldOnPath == \A s \in Process : open[s] \subseteq s

(* No server of a pool that is not made to fail is lost for a second one, or
   for the servers of other pools that fail and start again: once there is a
   process for it, the pool is in the end listened to for ever (db.c:34-43,
   net_wrapper.c:57-97). *)
ListenedTo(p) == \E s \in Process : pc[s] = "listening" /\ i[s] = p
SteadyListened ==
  <>[](\A p \in Steady :
         (\E s \in Process : p \in s /\ Started(s)) => ListenedTo(p))

(* The processes come to rest: in the end one listens, is deaf, waits for
   children of which none has ended, or has ended itself (db.c:34-46). *)
AtRest(s) == \/ pc[s] \in {"absent", "listening", "deaf", "ended"}
             \/ /\ pc[s] = "wait" /\ Forked(s) # {}
                /\ \A c \in Forked(s) : pc[c] # "ended"
ComesToRest == <>[](\A s \in Process : AtRest(s))
=============================================================================
