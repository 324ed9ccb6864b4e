------------------------------ MODULE MCUnits --------------------------------
(* The parts that share no state with any other: the array, the digest, the
   hashes, the web server and the logger.  A behaviour runs one of them. *)
EXTENDS Array, Md5, Hashkit, Nweb, Log

VARIABLE unit
unitVars == <<unit, arrayVars, digestVars, hashVars, webVars, loggerVars>>

ValMC       == {1, 2}
RequestsMC  == {{}, {"method"}, {"type", "open"}, {"open"}}
LevelArgsMC == {-1, 5, 6, 12}   \* within the bounds of a level and outside

UnitsInit == /\ unit \in {"array", "digest", "hash", "web", "log"}
             /\ ArrayInit /\ DigestInit /\ HashInit /\ WebInit /\ LoggerInit

UnitsNext ==
  /\ UNCHANGED unit
  /\ \/ /\ unit = "array" /\ ArrayNext
        /\ UNCHANGED <<digestVars, hashVars, webVars, loggerVars>>
     \/ /\ unit = "digest" /\ DigestNext
        /\ UNCHANGED <<arrayVars, hashVars, webVars, loggerVars>>
     \/ /\ unit = "hash" /\ HashNext
        /\ UNCHANGED <<arrayVars, digestVars, webVars, loggerVars>>
     \/ /\ unit = "web" /\ WebNext
        /\ UNCHANGED <<arrayVars, digestVars, hashVars, loggerVars>>
     \/ /\ unit = "log" /\ LoggerNext
        /\ UNCHANGED <<arrayVars, digestVars, hashVars, webVars>>

UnitsSpec == /\ UnitsInit /\ [][UnitsNext]_unitVars
             /\ unit = "web" => WebFairness

UnitsTypeOK == /\ ArrayTypeOK /\ DigestTypeOK /\ HashTypeOK /\ WebTypeOK
               /\ LoggerTypeOK
=============================================================================
