------------------------------- MODULE Server -------------------------------
(***************************************************************************)
(* The server of one pool: the select and epoll loops of net_wrapper.c,    *)
(* read_n of io.c and init_net_socket of util.c, with the clients that     *)
(* connect to it.  The loops differ in what a failed init_net_socket does. *)
(*                                                                         *)
(* net_wrapper.c does not compile as committed.  It is read here with the  *)
(* slips of lines 25, 63, 87 and 88 undone in the way the two loops        *)
(* suggest to each other: no empty argument of select, evts for evnts,     *)
(* read_n for ead_n, and for the len tested before it is declared the      *)
(* result of read_n.                                                       *)
(*                                                                         *)
(* A client sends units; Block of them fill the 1024-byte buffer.  A unit  *)
(* is "text" or starts with a NUL.  No handler for a signal is installed,  *)
(* so no read is interrupted and errno is taken never to be EINTR.  Both   *)
(* calls are level triggered and have room for every descriptor.           *)
(***************************************************************************)
EXTENDS Integers, Sequences, FiniteSets, FiniteSetsExt, ServerLife

CONSTANTS
  Client,
  TextOnly,  \* clients that never send a NUL
  Block,     \* units that fill the buffer
  MaxSend,   \* bound: units a client sends
  Failures,  \* may bind, listen, epoll_wait or accept fail?
  Listener,  \* the listening socket
  Loops      \* which of the loops "select" and "epoll" may be the one that runs

ASSUME ClientAssumption == TextOnly \subseteq Client /\ Listener \notin Client
ASSUME BlockAssumption == Block \in Nat \ {0} /\ MaxSend \in Nat
ASSUME FailuresAssumption == Failures \in BOOLEAN
ASSUME LoopsAssumption == Loops \subseteq {"select", "epoll"} /\ Loops # {}

VARIABLES
  kind,     \* the loop
  pc,       \* where it is
  watched,  \* the descriptors in the epoll set, or in read_set[0]
  batch,    \* those the last wait answered that are still to be handled
  cur,      \* the client read_n is called for
  got,      \* its readn
  first,    \* the first byte of its buffer
  conn,     \* how far the connection of a client has come
  closed,   \* has the client closed its end?
  sent,     \* units the client has sent, and of these,
  inbox     \* the ones the server has not read

loop    == <<kind, pc, watched, batch>>
reading == <<cur, got, first>>
clients == <<conn, closed, sent, inbox>>
vars    == <<loop, reading, clients>>

Units == {"text", "nul"}

TypeOK ==
  /\ kind \in Loops /\ pc \in {"init", "wait", "batch", "read", "returned"}
  /\ watched \subseteq Client \cup {Listener}
  /\ batch \subseteq watched
  /\ cur \in Client \cup {Listener} /\ got \in 0 .. Block /\ first \in Units
  /\ conn \in [Client -> {"away", "queued", "open"}]
  /\ closed \in [Client -> BOOLEAN]
  /\ sent \in [Client -> 0 .. MaxSend]
  /\ inbox \in [Client -> Seq(Units)]

Init ==
  /\ kind \in Loops /\ pc = "init" /\ watched = {} /\ batch = {}
  /\ cur = Listener /\ got = 0 /\ first = "nul"
  /\ conn = [c \in Client |-> "away"] /\ closed = [c \in Client |-> FALSE]
  /\ sent = [c \in Client |-> 0] /\ inbox = [c \in Client |-> <<>>]

-----------------------------------------------------------------------------
(* The clients *)

Listening == Listener \in watched

Connect(c) == /\ Listening /\ conn[c] = "away"
              /\ conn' = [conn EXCEPT ![c] = "queued"]
              /\ UNCHANGED <<loop, reading, closed, sent, inbox>>

Up(c) == conn[c] # "away" /\ ~closed[c]

Send(c, u) == /\ Up(c) /\ sent[c] < MaxSend
              /\ c \in TextOnly => u = "text"
              /\ sent' = [sent EXCEPT ![c] = @ + 1]
              /\ inbox' = [inbox EXCEPT ![c] = Append(@, u)]
              /\ UNCHANGED <<loop, reading, conn, closed>>

Hangup(c) == /\ Up(c)
             /\ closed' = [closed EXCEPT ![c] = TRUE]
             /\ UNCHANGED <<loop, reading, conn, sent, inbox>>

MidBlock(c) == sent[c] % Block # 0

-----------------------------------------------------------------------------
(* net_select_run, net_epoll_run *)

Listen == /\ pc = "init" /\ pc' = "wait" /\ watched' = {Listener}
          /\ UNCHANGED <<kind, batch, reading, clients>>

(* socket, bind or listen fails; setsockopt, which follows, is given a socket,
   a known option and an int, and does not.  The epoll loop does not test the
   result of init_net_socket: without a socket it waits on an empty set. *)
ListenFails == /\ Failures /\ pc = "init"
               /\ pc' = IF kind = "select" THEN "returned" ELSE "wait"
               /\ UNCHANGED <<kind, watched, batch, reading, clients>>

Readable(c) == inbox[c] # <<>> \/ closed[c]
Ready ==
  {d \in watched : IF d = Listener THEN \E c \in Client : conn[c] = "queued"
                   ELSE Readable(d)}

Wait == /\ pc = "wait" /\ Ready # {}
        /\ pc' = "batch" /\ batch' = Ready
        /\ UNCHANGED <<kind, watched, reading, clients>>

(* mutant: a failing accept leaves the loop over the batch only *)
ReturnToWait == /\ pc' = "wait" /\ batch' = {} /\ watched' = watched \ {Listener}
                /\ UNCHANGED <<kind, reading, clients>>
(* All ways out close the listening socket, and nothing else. *)
Return == /\ pc' = "returned" /\ batch' = {} /\ watched' = watched \ {Listener}
          /\ UNCHANGED <<kind, reading, clients>>
WaitFails   == Failures /\ pc = "wait" /\ Return
AcceptFails == Failures /\ pc = "batch" /\ Listener \in batch /\ Return

(* mutant: the new descriptor is not added to the set *)
AcceptUnwatched(c) ==
  /\ pc = "batch" /\ Listener \in batch /\ conn[c] = "queued"
  /\ conn' = [conn EXCEPT ![c] = "open"]
  /\ batch' = batch \ {Listener}
  /\ UNCHANGED <<kind, pc, watched, reading, closed, sent, inbox>>
Accept(c) ==
  /\ pc = "batch" /\ Listener \in batch /\ conn[c] = "queued"
  /\ conn' = [conn EXCEPT ![c] = "open"]
  /\ watched' = watched \cup {c} /\ batch' = batch \ {Listener}
  /\ UNCHANGED <<kind, pc, reading, closed, sent, inbox>>

BatchDone == /\ pc = "batch" /\ batch = {} /\ pc' = "wait"
             /\ UNCHANGED <<kind, watched, batch, reading, clients>>

-----------------------------------------------------------------------------
(* read_n: until the buffer is full, or the end of the stream *)

StartRead(c) ==
  /\ pc = "batch" /\ c \in batch \ {Listener}
  /\ pc' = "read" /\ cur' = c /\ batch' = batch \ {c}
  /\ UNCHANGED <<kind, watched, got, first, clients>>

(* mutant: a whole block is asked for again after a short read *)
ReadOver ==
  /\ pc = "read" /\ got < Block /\ inbox[cur] # <<>>
  /\ \E k \in 1 .. Min({Block, Len(inbox[cur])}) :
       /\ got' = got + k
       /\ inbox' = [inbox EXCEPT ![cur] = SubSeq(@, k + 1, Len(@))]
  /\ first' = Head(inbox[cur])
  /\ UNCHANGED <<loop, cur, conn, closed, sent>>
(* Every read goes to the front of the buffer. *)
Read ==
  /\ pc = "read" /\ got < Block /\ inbox[cur] # <<>>
  /\ \E k \in 1 .. Min({Block - got, Len(inbox[cur])}) :
       /\ got' = got + k
       /\ inbox' = [inbox EXCEPT ![cur] = SubSeq(@, k + 1, Len(@))]
  /\ first' = Head(inbox[cur])
  /\ UNCHANGED <<loop, cur, conn, closed, sent>>

EndRead == /\ pc' = "batch" /\ cur' = Listener /\ got' = 0 /\ first' = "nul"
           /\ UNCHANGED <<kind, batch, clients>>

(* A full buffer that reads as the empty string ends the connection as far as
   the set goes: its descriptor is not closed.  One without any NUL is no
   string: strlen reads on behind it, undefined in C, and is taken to find
   some length that is not 0. *)
Full == pc = "read" /\ got = Block
FullBlock == /\ Full /\ EndRead
             /\ watched' = IF first = "nul" THEN watched \ {cur} ELSE watched

(* mutants: a short read is returned as it is; the end of the stream is not
   told from an empty string *)
ShortRead == /\ pc = "read" /\ got < Block /\ inbox[cur] = <<>>
             /\ got > 0 \/ closed[cur]
             /\ EndRead /\ UNCHANGED watched
EndDropped == /\ pc = "read" /\ got < Block /\ inbox[cur] = <<>> /\ closed[cur]
              /\ EndRead
              /\ watched' = IF first = "nul" THEN watched \ {cur} ELSE watched
(* At the end of the stream read_n answers -1, and the loop goes on. *)
EndOfStream == /\ pc = "read" /\ got < Block /\ inbox[cur] = <<>> /\ closed[cur]
               /\ EndRead /\ UNCHANGED watched

-----------------------------------------------------------------------------
Loop == \/ Listen \/ Wait \/ BatchDone \/ Read \/ FullBlock \/ EndOfStream
        \/ \E c \in Client : Accept(c) \/ StartRead(c)

Next == \/ Loop \/ ListenFails \/ WaitFails \/ AcceptFails
        \/ \E c \in Client : \/ Connect(c) \/ Hangup(c)
                             \/ \E u \in Units : Send(c, u)

Spec == Init /\ [][Next]_vars

(* The process runs.  A client in the middle of a block sends the rest or
   hangs up: the code has no timeout, one that does neither stops the loop. *)
GoesOn(c) == MidBlock(c) /\ (Hangup(c) \/ \E u \in Units : Send(c, u))
FairSpec == Spec /\ WF_vars(Loop) /\ \A c \in Client : WF_vars(GoesOn(c))

-----------------------------------------------------------------------------
(* Properties *)

(* Blocks stay aligned: however its units arrive and read returns them,
   between two reads the server has taken whole blocks from a client that is
   still there (io.c:38-54).  A tail without a block is lost only once the
   client has hung up and everything was read. *)
Aligned ==
  \A c \in Client \ {cur} :
    (sent[c] - Len(inbox[c])) % Block = 0 \/ (closed[c] /\ inbox[c] = <<>>)

(* A client that never sends a NUL is never dropped from the set, also not
   after it has hung up: read_n answers -1 then and the loop goes on
   (net_wrapper.c:87-95), so that its descriptor stays readable for good. *)
TextStays ==
  \A c \in TextOnly : conn[c] = "open" => c \in watched

(* The calls live as ServerLife says, and db.c builds on it: nothing a client
   sends and nothing that fails makes a listening server deaf or a deaf one
   listen, and a call that has returned closed its socket
   (net_wrapper.c:14-56, 57-101). *)
Stage == IF pc = "init" THEN "start"
         ELSE IF pc = "returned" THEN "returned"
         ELSE IF Listening THEN "listening" ELSE "deaf"
LifeKept == [][LifeStep(Stage, Stage') /\ (Stage' = "returned" => ~Listening')]_Stage

(* Every block a client has sent is read, however many others have hung up
   meanwhile and keep their descriptors readable, unless the client was
   dropped, having sent a NUL, or the server has returned
   (net_wrapper.c:69-97). *)
BlocksRead ==
  \A c \in Client :
    Len(inbox[c]) >= Block ~>
      \/ Len(inbox[c]) < Block
      \/ c \notin TextOnly /\ conn[c] = "open" /\ c \notin watched
      \/ pc = "returned"
=============================================================================
