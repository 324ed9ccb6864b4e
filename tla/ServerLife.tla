----------------------------- MODULE ServerLife -----------------------------
(***************************************************************************)
(* What net_select_run and net_epoll_run (net_wrapper.c) promise the       *)
(* process that calls them.  The server starts; then it listens, or is     *)
(* deaf (the epoll loop on a set without a socket), or returns at once.    *)
(* Nothing makes a deaf server listen, or a listening one deaf, and a call *)
(* that has returned is over.  Server implements this; Db builds on it.    *)
(***************************************************************************)

LifeStages == {"start", "listening", "deaf", "returned"}

After ==
  [start     |-> {"listening", "deaf", "returned"},
   listening |-> {"returned"},
   deaf      |-> {"returned"},
   returned  |-> {}]

LifeStep(from, to) == to \in After[from]
=============================================================================
