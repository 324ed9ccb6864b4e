-------------------------------- MODULE MCDb --------------------------------
EXTENDS Db

CONSTANTS a, b

(* The first has no address.  The second and the last want one port: the
   number of the last is cut to 16 bits, and its address is a name. *)
PoolsMC == <<[addr |-> Unset, port |-> 82], [addr |-> a, port |-> 80],
             [addr |-> b, port |-> 81],
             [addr |-> "localhost", port |-> 80 + 2^16]>>
NamesMC == {"localhost"}
=============================================================================
