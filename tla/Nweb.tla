-------------------------------- MODULE Nweb --------------------------------
(***************************************************************************)
(* The web server of nweb.c: a daemon that accepts, one child per          *)
(* connection that answers one request and exits, and the clients.  A      *)
(* connection lives as long as some process has a descriptor of it open:   *)
(* fork copies the daemon's descriptors, exit closes all of a process.     *)
(*                                                                         *)
(* logger opens, writes and closes nweb.log within one call, so that it    *)
(* leaves no trace but the answers of 403 and 404 and the exit after them. *)
(* The daemon has closed the descriptors it was started with (nweb.c:169-170). *)
(***************************************************************************)
EXTENDS Naturals, Sequences

CONSTANTS
  Client,    \* each connects once; its connection and child bear its name
  Requests,  \* what a client may send: the set of checks of web it fails
  PageSize,  \* blocks of BUFSIZE bytes of a page
  Daemon, Listener, Page

(* The first four: not "GET ", or too long to be read in one go; "..", a
   file type of no extension, a file that cannot be opened. *)
Checks == {"method", "parent", "type", "open"}

ASSUME NwebAssumption ==
  /\ Requests \subseteq SUBSET Checks /\ PageSize \in Nat
  /\ Daemon \notin Client /\ Listener # Page /\ {Listener, Page} \cap Client = {}

VARIABLES
  daemon,   \* where main is; "exited" is for good
  child,    \* where web is, for each client
  open,     \* the descriptors each process has open, by what they lead to
  peer,     \* the client's end: "away", "queued", "there", or "left"
  request,  \* what it has sent: <<>> or <<r>>
  reply,    \* what it was sent
  sent      \* the blocks of its page web has written

webVars == <<daemon, child, open, peer, request, reply, sent>>

WebInit == /\ daemon = "socket"
           /\ child = [c \in Client |-> "none"]
           /\ open = [p \in Client \cup {Daemon} |-> {}]
           /\ peer = [c \in Client |-> "away"]
           /\ request = [c \in Client |-> <<>>]
           /\ reply = [c \in Client |-> <<>>]
           /\ sent = [c \in Client |-> 0]

Processes == Client \cup {Daemon}
Accepting == \E p \in Processes : Listener \in open[p]
Accepted  == open[Daemon] \cap Client

-----------------------------------------------------------------------------
(* main, after it has become a daemon *)

Socket == /\ daemon = "socket"
          /\ open' = [open EXCEPT ![Daemon] = {Listener}]
          /\ daemon' = "accept"
          /\ UNCHANGED <<child, peer, request, reply, sent>>

Accept(c) == /\ daemon = "accept" /\ peer[c] = "queued"
             /\ open' = [open EXCEPT ![Daemon] = @ \cup {c}]
             /\ peer' = [peer EXCEPT ![c] = "there"]
             /\ daemon' = "fork"
             /\ UNCHANGED <<child, request, reply, sent>>

Fork == /\ daemon = "fork"
        /\ \E c \in Accepted :
             /\ child[c] = "none"
             /\ child' = [child EXCEPT ![c] = "forked"]
             /\ open' = [open EXCEPT ![c] = open[Daemon]]
        /\ daemon' = "close"
        /\ UNCHANGED <<peer, request, reply, sent>>

(* mutant: the parent keeps the connection it has handed over *)
CloseNot == /\ daemon = "close" /\ daemon' = "accept"
            /\ UNCHANGED <<child, open, peer, request, reply, sent>>
Close == /\ daemon = "close" /\ daemon' = "accept"
         /\ open' = [open EXCEPT ![Daemon] = {Listener}]
         /\ UNCHANGED <<child, peer, request, reply, sent>>

(* logger(ERROR, ...): no socket, no bind, no listen, no accept, no fork. *)
DaemonFails == /\ daemon \in {"socket", "accept", "fork"}
               /\ daemon' = "exited"
               /\ open' = [open EXCEPT ![Daemon] = {}]
               /\ UNCHANGED <<child, peer, request, reply, sent>>

-----------------------------------------------------------------------------
(* web *)

(* mutant: the child keeps the socket that listens *)
ChildStartListening(c) ==
  /\ child[c] = "forked" /\ child' = [child EXCEPT ![c] = "read"]
  /\ UNCHANGED <<daemon, open, peer, request, reply, sent>>
ChildStart(c) == /\ child[c] = "forked"
                 /\ child' = [child EXCEPT ![c] = "read"]
                 /\ open' = [open EXCEPT ![c] = @ \ {Listener}]
                 /\ UNCHANGED <<daemon, peer, request, reply, sent>>

(* What is written to a client that has left is lost, and may raise SIGPIPE. *)
Told(c, x)   == reply' = IF peer[c] = "there" THEN [reply EXCEPT ![c] = Append(@, x)] ELSE reply
GoesTo(c, s) == child' = [child EXCEPT ![c] = s]
Killed(c)    == peer[c] = "left" /\ GoesTo(c, "exit")

After == [read |-> "check", check |-> "open", open |-> "header"]
Passes(c) == GoesTo(c, After[child[c]]) /\ UNCHANGED reply

(* mutant: logger returns after it has answered 403 or 404 *)
RefuseOn(c, status) == Told(c, status) /\ GoesTo(c, After[child[c]])
(* logger(FORBIDDEN, ...) and logger(NOTFOUND, ...) *)
Refuse(c, status) == Told(c, status) /\ GoesTo(c, "exit")

Read(c) ==
  /\ child[c] = "read" /\ (request[c] # <<>> \/ peer[c] = "left")
  /\ IF request[c] = <<>> THEN Refuse(c, 403) ELSE Passes(c)
  /\ UNCHANGED <<daemon, open, peer, request, sent>>

Fails(c, checks) == request[c] # <<>> /\ request[c][1] \cap checks # {}

Check(c) ==
  /\ child[c] = "check"
  /\ IF Fails(c, Checks \ {"open"}) THEN Refuse(c, 403) ELSE Passes(c)
  /\ UNCHANGED <<daemon, open, peer, request, sent>>

OpenPage(c) ==
  /\ child[c] = "open"
  /\ IF Fails(c, {"open"}) THEN Refuse(c, 404) /\ UNCHANGED open
     ELSE Passes(c) /\ open' = [open EXCEPT ![c] = @ \cup {Page}]
  /\ UNCHANGED <<daemon, peer, request, sent>>

Header(c) == /\ child[c] = "header" /\ Told(c, 200)
             /\ GoesTo(c, "send") \/ Killed(c)
             /\ UNCHANGED <<daemon, open, peer, request, sent>>

SendBlock(c) == /\ child[c] = "send" /\ sent[c] < PageSize
                /\ Told(c, sent[c] + 1) /\ sent' = [sent EXCEPT ![c] = @ + 1]
                /\ UNCHANGED child \/ Killed(c)
                /\ UNCHANGED <<daemon, open, peer, request>>

Drain(c) == /\ child[c] = "send" /\ sent[c] = PageSize /\ GoesTo(c, "exit")
            /\ open' = [open EXCEPT ![c] = @ \ {c}]
            /\ UNCHANGED <<daemon, peer, request, reply, sent>>

(* SIGCHLD is ignored: nothing is left of the process. *)
Exit(c) == /\ child[c] = "exit" /\ GoesTo(c, "exited")
           /\ open' = [open EXCEPT ![c] = {}]
           /\ UNCHANGED <<daemon, peer, request, reply, sent>>

-----------------------------------------------------------------------------
(* The clients; one that leaves the queue is accepted all the same. *)

Connect(c) == /\ peer[c] = "away" /\ Accepting
              /\ peer' = [peer EXCEPT ![c] = "queued"]
              /\ UNCHANGED <<daemon, child, open, request, reply, sent>>

SendRequest(c) == /\ peer[c] \in {"queued", "there"} /\ request[c] = <<>>
                  /\ \E r \in Requests : request' = [request EXCEPT ![c] = <<r>>]
                  /\ UNCHANGED <<daemon, child, open, peer, reply, sent>>

HangUp(c) == /\ peer[c] = "there"
             /\ peer' = [peer EXCEPT ![c] = "left"]
             /\ UNCHANGED <<daemon, child, open, request, reply, sent>>

-----------------------------------------------------------------------------
Main   == Socket \/ (\E c \in Client : Accept(c)) \/ Fork \/ Close
Web(c) == \/ ChildStart(c) \/ Read(c) \/ Check(c) \/ OpenPage(c) \/ Header(c)
          \/ SendBlock(c) \/ Drain(c) \/ Exit(c)

WebNext == \/ Main \/ DaemonFails
           \/ \E c \in Client : Web(c) \/ Connect(c) \/ SendRequest(c) \/ HangUp(c)

WebSpec == WebInit /\ [][WebNext]_webVars

(* Processes are scheduled.  web has no timeout: that a client sends its
   request or hangs up is an assumption on the client. *)
WebFairness == /\ WF_webVars(Main)
               /\ \A c \in Client : WF_webVars(Web(c)) /\ WF_webVars(SendRequest(c) \/ HangUp(c))

-----------------------------------------------------------------------------
(* Properties *)

WebTypeOK ==
  /\ daemon \in {"socket", "accept", "fork", "close", "exited"}
  /\ child \in [Client -> {"none", "forked", "read", "check", "open", "header",
                           "send", "exit", "exited"}]
  /\ open \in [Processes -> SUBSET ({Listener, Page} \cup Client)]
  /\ request \in [Client -> {<<>>} \cup {<<r>> : r \in Requests}]
  /\ reply \in [Client -> Seq({200, 403, 404} \cup 1 .. PageSize)]
  /\ sent \in [Client -> 0 .. PageSize]
  /\ peer \in [Client -> {"away", "queued", "there", "left"}]

(* A connection is open in the daemon for the moment it is handed over and in
   its own child only, and the listening socket is in no child that serves: no
   client waits for another one's child to end, and the port is free once the
   daemon is gone (nweb.c:169-170, 190-199). *)
Private ==
  /\ daemon \in {"socket", "accept", "exited"} => Accepted = {}
  /\ \A c \in Client :
       /\ open[c] \cap Client \subseteq {c}
       /\ Listener \in open[c] => child[c] = "forked"

Right(r) == IF r \cap (Checks \ {"open"}) # {} THEN <<403>>
            ELSE IF r # {} THEN <<404>>
            ELSE <<200>> \o [k \in 1 .. PageSize |-> k]

Starts(s, t) == \E k \in 1 .. Len(t) : s = SubSeq(t, 1, k)

(* A client is given one answer, header first and never two, whichever check
   of web and whichever exit of logger its request meets, and all of it if it
   stays (nweb.c:36-61, 64-128). *)
OneAnswer ==
  \A c \in Client :
    /\ reply[c] # <<>> => request[c] # <<>> /\ Starts(reply[c], Right(request[c][1]))
    /\ child[c] = "exited" /\ peer[c] = "there" => reply[c] = Right(request[c][1])

(* The end of its connection reaches every client, whatever the others do and
   also when the daemon has exited (nweb.c:126-127, 186-201). *)
Gone(c) == /\ \A p \in Processes : c \notin open[p]
           /\ peer[c] = "queued" => ~Accepting
Released == \A c \in Client : peer[c] = "queued" ~> Gone(c)
=============================================================================
