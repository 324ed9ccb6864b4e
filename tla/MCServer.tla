------------------------------ MODULE MCServer ------------------------------
(* Either loop with two clients, one of which may send a NUL; a block is two
   units. *)
EXTENDS Server

BothLoops == {"select", "epoll"}
=============================================================================
