----------------------------- MODULE LogProofs -----------------------------
(***************************************************************************)
(* Proofs about Log, for any number of descriptors and any levels asked    *)
(* for: the logger writes to and closes nothing but its own file, and      *)
(* never has that open twice or lost.                                      *)
(***************************************************************************)
EXTENDS Log, TLAPS, WellFoundedInduction

(* A set of natural numbers that is not empty has a least element. *)
LEMMA MinNat == ASSUME NEW S \in SUBSET Nat, S # {} PROVE Min(S) \in S
<1> DEFINE Less == {p \in Nat \X Nat : p[1] < p[2]}
<1>1. IsWellFoundedOn(Less, Nat)
  BY NatLessThanWellFounded DEF OpToRel
<1>2. PICK x \in S : \A y \in S : ~(<<y, x>> \in Less)
  <2> HIDE DEF Less
  <2> QED BY <1>1, WFMin
<1>3. ASSUME NEW y \in S PROVE x <= y
  <2>1. <<y, x>> \notin Less
    BY <1>2
  <2>2. ~(y < x)
    BY <2>1
  <2> QED BY <2>2
<1> QED BY <1>3 DEF Min

(* open gives a free descriptor or none, and touches no other. *)
LEMMA Opening ==
  ASSUME LoggerTypeOK, NEW t \in [0 .. MaxFd -> Kinds \cup {"free"}],
         NEW kind \in Kinds, NEW r \in Opened(t, kind)
  PROVE  /\ r.fd \in 0 .. MaxFd /\ t[r.fd] = "free"
         /\ r.file = [t EXCEPT ![r.fd] = kind]
<1>1. Free(t) \in SUBSET Nat /\ Free(t) # {}
  BY MaxFdAssumption DEF Free, Opened
<1>2. Min(Free(t)) \in Free(t)
  BY <1>1, MinNat
<1> DEFINE m == Min(Free(t))
<1>3. m \in 0 .. MaxFd /\ t[m] = "free"
  BY <1>2 DEF Free
<1>4. r = [fd |-> m, file |-> [t EXCEPT ![m] = kind]]
  BY <1>1 DEF Opened
<1> HIDE DEF m
<1> QED BY <1>3, <1>4

(* Opening the log in a process that has it open nowhere, or failing to,
   gives a logger with a name what LogInv asks for. *)
LEMMA OpeningLog ==
  ASSUME LoggerTypeOK, NEW t \in [0 .. MaxFd -> Kinds \cup {"free"}],
         \A d \in 0 .. MaxFd : t[d] # "log" /\ (t[d] = "std" <=> d <= STDERR),
         OpenLog(t)
  PROVE  /\ fd' \in -1 .. MaxFd /\ fd' # STDERR
         /\ fd' = -1 \/ (fd' > STDERR /\ t[fd'] = "free")
         /\ file' \in [0 .. MaxFd -> Kinds \cup {"free"}]
         /\ \A d \in 0 .. MaxFd : (file')[d] = IF d = fd' THEN "log" ELSE t[d]
<1> USE MaxFdAssumption DEF STDERR
<1>1. CASE fd' = -1 /\ file' = t
  BY <1>1
<1>2. ASSUME NEW r \in Opened(t, "log"), fd' = r.fd, file' = r.file
      PROVE  /\ fd' \in -1 .. MaxFd /\ fd' # STDERR
             /\ fd' = -1 \/ (fd' > STDERR /\ t[fd'] = "free")
             /\ file' \in [0 .. MaxFd -> Kinds \cup {"free"}]
             /\ \A d \in 0 .. MaxFd : (file')[d] = IF d = fd' THEN "log" ELSE t[d]
  <2>1. /\ r.fd \in 0 .. MaxFd /\ t[r.fd] = "free"
        /\ r.file = [t EXCEPT ![r.fd] = "log"]
    BY Opening DEF Kinds
  <2>2. ~(r.fd <= STDERR)
    BY <2>1
  <2>3. file' = [t EXCEPT ![fd'] = "log"] /\ fd' \in 0 .. MaxFd /\ t[fd'] = "free"
    BY <1>2, <2>1
  <2>4. fd' > STDERR
    BY <1>2, <2>2, <2>3
  <2>5. file' \in [0 .. MaxFd -> Kinds \cup {"free"}]
    BY <2>3 DEF Kinds
  <2> QED BY <2>3, <2>4, <2>5
<1> QED BY <1>1, <1>2 DEF OpenLog, Failed

(* What a message goes to is not a file of the program's. *)
LEMMA WritingLog ==
  ASSUME LoggerTypeOK, OwnMessages, NEW t \in [0 .. MaxFd -> Kinds \cup {"free"}],
         NEW d, d \in 0 .. MaxFd => t[d] # "other", Written(d, t)
  PROVE  wrote' \subseteq {"log", "std"}
  BY DEF Written, OwnMessages, LoggerTypeOK, Kinds

LEMMA LogInitInv == ASSUME LoggerInit PROVE LogInv
<1> USE MaxFdAssumption
<1>1. LoggerTypeOK
  <2>1. file \in [0 .. MaxFd -> Kinds \cup {"free"}]
    BY DEF LoggerInit, Kinds
  <2>2. fd \in -1 .. MaxFd /\ level \in LOG_EMERG .. LOG_PVERB
    BY DEF LoggerInit, LOG_EMERG, LOG_PVERB
  <2> QED BY <2>1, <2>2 DEF LoggerInit, LoggerTypeOK
<1>2. \A d \in 0 .. MaxFd : file[d] # "log" /\ (file[d] = "std" <=> d <= STDERR)
  BY DEF LoggerInit
<1>3. LogOpenOnce
  BY <1>1, <1>2 DEF LoggerInit, LogOpenOnce, LoggerTypeOK
<1> QED BY <1>1, <1>2, <1>3 DEF LoggerInit, LogInv, InUse, Streams, OwnMessages

(* A level between the bounds is what Clamped answers. *)
LEMMA ClampedType == \A l \in Int : Clamped(l) \in LOG_EMERG .. LOG_PVERB
<1> SUFFICES ASSUME NEW l \in Int PROVE Clamped(l) \in LOG_EMERG .. LOG_PVERB
  OBVIOUS
<1>1. Min({l, LOG_PVERB}) = IF l <= LOG_PVERB THEN l ELSE LOG_PVERB
  BY DEF Min, LOG_PVERB
<1> DEFINE m == Min({l, LOG_PVERB})
<1>2. m \in Int /\ m <= LOG_PVERB
  BY <1>1 DEF LOG_PVERB
<1> HIDE DEF m
<1>3. Max({LOG_EMERG, m}) = IF m <= LOG_EMERG THEN LOG_EMERG ELSE m
  BY <1>2 DEF Max, LOG_EMERG
<1> QED BY <1>2, <1>3 DEF Clamped, m, LOG_EMERG, LOG_PVERB

(* A logger in use: closing its file leaves the log open nowhere. *)
LEMMA ClosingLog ==
  ASSUME LogInv, pc # "off", fd # STDERR
  PROVE  /\ Closed(file, fd) \in [0 .. MaxFd -> Kinds \cup {"free"}]
         /\ \A d \in 0 .. MaxFd : Closed(file, fd)[d] =
                                 IF file[d] = "log" THEN "free" ELSE file[d]
<1> USE MaxFdAssumption DEF STDERR
<1>1. named /\ (fd = -1 \/ (fd > STDERR /\ fd <= MaxFd)) /\ fd \in -1 .. MaxFd
  BY DEF LogInv, InUse, LoggerTypeOK
<1>2. CASE fd = -1
  <2>1. Closed(file, fd) = file
    BY <1>2 DEF LogInv, LoggerTypeOK, Closed
  <2>2. \A d \in 0 .. MaxFd : file[d] # "log"
    BY <1>2 DEF LogInv, LoggerTypeOK, LogOpenOnce
  <2> QED BY <2>1, <2>2 DEF LogInv, LoggerTypeOK
<1>3. CASE fd # -1
  <2>1. fd \in 0 .. MaxFd /\ fd > 2 /\ Closed(file, fd) = [file EXCEPT ![fd] = "free"]
    BY <1>1, <1>3 DEF LogInv, LoggerTypeOK, Closed
  <2>2. file[fd] = "log" /\ \A d \in 0 .. MaxFd : file[d] = "log" => d = fd
    BY <1>1, <1>3, <2>1 DEF LogInv, LogOpenOnce, LoggerTypeOK
  <2> QED BY <2>1, <2>2 DEF LogInv, LoggerTypeOK
<1> QED BY <1>2, <1>3

LEMMA LogStepInv == ASSUME LogInv, [LoggerNext]_loggerVars PROVE LogInv'
<1> USE MaxFdAssumption DEF STDERR
<1>0. LoggerTypeOK /\ InUse /\ Streams /\ LogOpenOnce /\ OwnMessages
  BY DEF LogInv
<1>1. ASSUME NEW l \in LevelArgs, NEW n \in BOOLEAN, LogInit(l, n) PROVE LogInv'
  <2>1. level' \in LOG_EMERG .. LOG_PVERB
    BY <1>1, LevelAssumption, ClampedType DEF LogInit
  <2>2. \A d \in 0 .. MaxFd : file[d] # "log" /\ (file[d] = "std" <=> d <= STDERR)
    BY <1>0, <1>1 DEF LogInit, LogOpenOnce, Streams, LoggerTypeOK
  <2>3. OwnMessages'
    <3>1. STDERR \in 0 .. MaxFd => file[STDERR] # "other"
      BY <1>0, <2>2
    <3>2. CASE Written(STDERR, file)
      BY <1>0, <3>1, <3>2, WritingLog DEF OwnMessages, LoggerTypeOK
    <3> QED BY <1>0, <1>1, <3>2 DEF LogInit, OwnMessages
  <2>4. wrote' \subseteq Kinds
    BY <2>3 DEF OwnMessages, Kinds
  <2>5. CASE n
    <3>1. /\ fd' \in -1 .. MaxFd /\ fd' # STDERR /\ (fd' = -1 \/ fd' > STDERR)
          /\ file' \in [0 .. MaxFd -> Kinds \cup {"free"}]
          /\ \A d \in 0 .. MaxFd : (file')[d] = IF d = fd' THEN "log" ELSE file[d]
      BY <1>0, <1>1, <2>2, <2>5, OpeningLog DEF LogInit, LoggerTypeOK
    <3>2. LoggerTypeOK'
      BY <1>1, <2>1, <2>4, <2>5, <3>1 DEF LogInit, LoggerTypeOK
    <3>3. InUse' /\ Streams'
      BY <1>1, <2>2, <2>5, <3>1 DEF LogInit, InUse, Streams
    <3>4. LogOpenOnce'
      BY <1>1, <2>2, <2>5, <3>1 DEF LogInit, LogOpenOnce
    <3> QED BY <2>3, <3>2, <3>3, <3>4 DEF LogInv
  <2>6. CASE ~n
    <3>1. pc' = "on" /\ named' = FALSE /\ fd' = STDERR /\ file' = file
      BY <1>1, <2>6 DEF LogInit
    <3>2. LoggerTypeOK'
      <4>1. fd' \in -1 .. MaxFd
        BY <3>1
      <4>2. named' \in BOOLEAN
        BY <1>1 DEF LogInit
      <4> QED BY <1>0, <2>1, <2>4, <3>1, <4>1, <4>2 DEF LoggerTypeOK
    <3>3. LogOpenOnce' /\ InUse' /\ Streams'
      BY <1>0, <2>2, <3>1 DEF LogOpenOnce, InUse, Streams, LoggerTypeOK
    <3> QED BY <2>3, <3>2, <3>3 DEF LogInv
  <2> QED BY <2>5, <2>6
<1>2. CASE LogDeinit
  <2>1. \A d \in 0 .. MaxFd : (file')[d] = IF file[d] = "log" THEN "free" ELSE file[d]
    BY <1>0, <1>2, ClosingLog DEF LogDeinit, LogOpenOnce, InUse, LoggerTypeOK
  <2>2. file' \in [0 .. MaxFd -> Kinds \cup {"free"}]
    BY <1>0, <1>2, ClosingLog DEF LogDeinit, LoggerTypeOK
  <2>3. LoggerTypeOK'
    BY <1>0, <1>2, <2>2 DEF LogDeinit, LoggerTypeOK, logger
  <2>4. LogOpenOnce'
    BY <1>2, <2>1, <2>2 DEF LogDeinit, LogOpenOnce
  <2>5. Streams'
    BY <1>0, <2>1, <2>2 DEF Streams, LoggerTypeOK
  <2> QED BY <1>0, <1>2, <2>3, <2>4, <2>5
          DEF LogDeinit, LogInv, InUse, OwnMessages
<1>3. CASE LogReopen
  <2>1. CASE fd = STDERR
    <3>1. fd' = fd /\ file' = file /\ wrote' = wrote /\ UNCHANGED <<pc, level, named>>
      BY <1>3, <2>1 DEF LogReopen
    <3> QED BY <1>0, <3>1 DEF LogInv, LoggerTypeOK, InUse, Streams, LogOpenOnce, OwnMessages
  <2>2. CASE fd # STDERR
    <3> DEFINE t == Closed(file, fd)
    <3>1. /\ t \in [0 .. MaxFd -> Kinds \cup {"free"}]
          /\ \A d \in 0 .. MaxFd : t[d] = IF file[d] = "log" THEN "free" ELSE file[d]
      BY <1>3, <2>2, ClosingLog DEF LogReopen
    <3>2. OpenLog(t) /\ pc = "on" /\ UNCHANGED <<pc, level, named>>
      BY <1>3, <2>2 DEF LogReopen
    <3>3. named
      BY <1>0, <2>2, <3>2 DEF InUse
    <3> HIDE DEF t
    <3>4. \A d \in 0 .. MaxFd : t[d] # "log" /\ (t[d] = "std" <=> d <= STDERR)
      BY <1>0, <3>1 DEF Streams
    <3>5. /\ fd' \in -1 .. MaxFd /\ fd' # STDERR /\ (fd' = -1 \/ fd' > STDERR)
          /\ file' \in [0 .. MaxFd -> Kinds \cup {"free"}]
          /\ \A d \in 0 .. MaxFd : (file')[d] = IF d = fd' THEN "log" ELSE t[d]
      BY <1>0, <3>1, <3>2, <3>4, OpeningLog
    <3>6. OwnMessages'
      <4>1. STDERR \in 0 .. MaxFd => (file')[STDERR] # "other"
        BY <3>4, <3>5
      <4>2. CASE Written(STDERR, file')
        BY <1>0, <3>5, <4>1, <4>2, WritingLog DEF OwnMessages
      <4> QED BY <1>0, <1>3, <4>2 DEF LogReopen, OwnMessages
    <3>7. LoggerTypeOK'
      BY <1>0, <3>2, <3>5, <3>6 DEF LoggerTypeOK, OwnMessages, Kinds
    <3>8. InUse' /\ Streams' /\ LogOpenOnce'
      BY <3>2, <3>3, <3>4, <3>5 DEF InUse, Streams, LogOpenOnce
    <3> QED BY <3>6, <3>7, <3>8 DEF LogInv
  <2> QED BY <2>1, <2>2
<1>4. ASSUME NEW l \in LOG_EMERG .. LOG_PVERB, Says(l) PROVE LogInv'
  <2>1. fd \in 0 .. MaxFd => file[fd] # "other"
    BY <1>0, <1>4 DEF Says, InUse, Streams, LogOpenOnce, LoggerTypeOK
  <2>2. OwnMessages'
    BY <1>0, <1>4, <2>1, WritingLog DEF Says, OwnMessages, LoggerTypeOK
  <2> QED BY <1>0, <1>4, <2>2 DEF Says, LogInv, LoggerTypeOK, InUse, Streams,
          LogOpenOnce, OwnMessages, Kinds
<1>5. CASE Panic
  BY <1>0, <1>5 DEF Panic, LogInv, LoggerTypeOK, InUse, Streams, LogOpenOnce,
     OwnMessages, logger
<1>6. CASE PanicEnds
  <2>1. fd \in 0 .. MaxFd => file[fd] # "other"
    BY <1>0, <1>6 DEF PanicEnds, InUse, Streams, LogOpenOnce, LoggerTypeOK
  <2>2. OwnMessages'
    BY <1>0, <1>6, <2>1, WritingLog DEF PanicEnds, OwnMessages, LoggerTypeOK
  <2> QED BY <1>0, <1>6, <2>2 DEF PanicEnds, LogInv, LoggerTypeOK, InUse, Streams,
          LogOpenOnce, OwnMessages, Kinds, logger
<1>7. CASE MessageStderr
  <2>1. STDERR \in 0 .. MaxFd => file[STDERR] # "other"
    BY <1>0 DEF Streams
  <2>2. OwnMessages'
    BY <1>0, <1>7, <2>1, WritingLog DEF MessageStderr, OwnMessages, LoggerTypeOK
  <2> QED BY <1>0, <1>7, <2>2 DEF MessageStderr, LogInv, LoggerTypeOK, InUse, Streams,
          LogOpenOnce, OwnMessages, Kinds, logger
<1>8. CASE OpenOther
  <2>1. PICK r \in Opened(file, "other") : file' = r.file
    BY <1>8 DEF OpenOther
  <2>2. PICK m \in 0 .. MaxFd :
          file[m] = "free" /\ file' = [file EXCEPT ![m] = "other"]
    <3>1. /\ r.fd \in 0 .. MaxFd /\ file[r.fd] = "free"
          /\ r.file = [file EXCEPT ![r.fd] = "other"]
      BY <1>0, Opening DEF Kinds, LoggerTypeOK
    <3> QED BY <2>1, <3>1
  <2>3. /\ file' \in [0 .. MaxFd -> Kinds \cup {"free"}]
        /\ \A d \in 0 .. MaxFd : \/ (file')[d] = file[d]
                                 \/ file[d] = "free" /\ (file')[d] = "other"
    BY <1>0, <2>2 DEF LoggerTypeOK, Kinds
  <2>4. Streams' /\ LogOpenOnce'
    <3>1. UNCHANGED <<pc, logger>>
      BY <1>8 DEF OpenOther
    <3>2. \A e \in 0 .. MaxFd : /\ ((file')[e] = "log") <=> (file[e] = "log")
                                /\ ((file')[e] = "std") <=> (file[e] = "std")
      BY <2>3
    <3>3. LogOpenOnce'
      BY <1>0, <2>3, <3>1, <3>2 DEF LogOpenOnce, LoggerTypeOK, logger
    <3> QED BY <1>0, <3>2, <3>3 DEF Streams
  <2> QED BY <1>0, <1>8, <2>3, <2>4 DEF OpenOther, LogInv, LoggerTypeOK, InUse,
          OwnMessages, logger
<1>9. ASSUME NEW d \in 0 .. MaxFd, CloseOther(d) PROVE LogInv'
  <2>1. /\ file' \in [0 .. MaxFd -> Kinds \cup {"free"}]
        /\ \A e \in 0 .. MaxFd : \/ (file')[e] = file[e]
                                 \/ file[e] = "other" /\ (file')[e] = "free"
    BY <1>0, <1>9 DEF CloseOther, Closed, LoggerTypeOK, Kinds
  <2>2. Streams' /\ LogOpenOnce'
    <3>1. UNCHANGED <<pc, logger>>
      BY <1>9 DEF CloseOther
    <3>2. \A e \in 0 .. MaxFd : /\ ((file')[e] = "log") <=> (file[e] = "log")
                                /\ ((file')[e] = "std") <=> (file[e] = "std")
      BY <2>1
    <3>3. LogOpenOnce'
      BY <1>0, <2>1, <3>1, <3>2 DEF LogOpenOnce, LoggerTypeOK, logger
    <3> QED BY <1>0, <3>2, <3>3 DEF Streams
  <2> QED BY <1>0, <1>9, <2>1, <2>2 DEF CloseOther, LogInv, LoggerTypeOK, InUse,
          OwnMessages, logger
<1>10. CASE UNCHANGED loggerVars
  BY <1>0, <1>10 DEF loggerVars, LogInv, LoggerTypeOK, InUse, Streams, LogOpenOnce,
     OwnMessages, logger
<1>11. ASSUME NEW l \in LevelArgs, LogLevelSet(l) PROVE LogInv'
  BY <1>4, <1>11, LevelAssumption, ClampedType DEF LogLevelSet
<1>12. CASE LogLevelUp \/ LogLevelDown
  BY <1>0, <1>4, <1>12 DEF LogLevelUp, LogLevelDown, LoggerTypeOK, LOG_EMERG, LOG_PVERB
<1>13. CASE Message(LOG_INFO) \/ Message(LOG_ALERT) \/ LogAlways
  BY <1>0, <1>4, <1>13 DEF Message, LogAlways, LoggerTypeOK
<1> QED BY <1>1, <1>2, <1>3, <1>5, <1>6, <1>7, <1>8, <1>9, <1>10, <1>11, <1>12,
        <1>13 DEF LoggerNext, Logging

(* The inductive invariant of the logger holds in every state. *)
THEOREM LogInvariant == LoggerSpec => []LogInv
<1> QED BY LogInitInv, LogStepInv, PTL DEF LoggerSpec

(* Messages only go to the log file and the standard streams. *)
THEOREM Messages == LoggerSpec => []OwnMessages
<1>1. LogInv => OwnMessages
  BY DEF LogInv
<1> QED BY LogInvariant, <1>1, PTL

(* The log file is open exactly once while it is in use, and not otherwise. *)
THEOREM OpenOnce == LoggerSpec => []LogOpenOnce
<1>1. LogInv => LogOpenOnce
  BY DEF LogInv
<1> QED BY LogInvariant, <1>1, PTL

(* A call of the logger leaves every file that is not its own as it is. *)
LEMMA LeavesOthers ==
  ASSUME LogInv, Logging, NEW d \in 0 .. MaxFd, file[d] \in {"std", "other"}
  PROVE  (file')[d] = file[d]
<1> USE MaxFdAssumption DEF STDERR
<1>0. LoggerTypeOK /\ InUse /\ Streams /\ LogOpenOnce
  BY DEF LogInv
<1>1. ASSUME NEW l \in LevelArgs, NEW n \in BOOLEAN, LogInit(l, n)
      PROVE (file')[d] = file[d]
  <2>1. \A e \in 0 .. MaxFd : file[e] # "log" /\ (file[e] = "std" <=> e <= STDERR)
    BY <1>0, <1>1 DEF LogInit, LogOpenOnce, Streams, LoggerTypeOK
  <2>2. CASE n
    <3>1. \A e \in 0 .. MaxFd : (file')[e] = IF e = fd' THEN "log" ELSE file[e]
      BY <1>0, <1>1, <2>1, <2>2, OpeningLog DEF LogInit, LoggerTypeOK
    <3>2. fd' = -1 \/ file[fd'] = "free"
      BY <1>0, <1>1, <2>1, <2>2, OpeningLog DEF LogInit, LoggerTypeOK
    <3> QED BY <3>1, <3>2
  <2> QED BY <1>1, <2>2 DEF LogInit
<1>2. CASE LogDeinit
  BY <1>0, <1>2, ClosingLog DEF LogDeinit
<1>3. CASE LogReopen
  <2>1. CASE fd # STDERR
    <3> DEFINE t == Closed(file, fd)
    <3>1. /\ t \in [0 .. MaxFd -> Kinds \cup {"free"}]
          /\ \A e \in 0 .. MaxFd : t[e] = IF file[e] = "log" THEN "free" ELSE file[e]
      BY <1>3, <2>1, ClosingLog DEF LogReopen
    <3>2. OpenLog(t)
      BY <1>3, <2>1 DEF LogReopen
    <3> HIDE DEF t
    <3>3. \A e \in 0 .. MaxFd : t[e] # "log" /\ (t[e] = "std" <=> e <= STDERR)
      BY <1>0, <3>1 DEF Streams
    <3>4. \A e \in 0 .. MaxFd : (file')[e] = IF e = fd' THEN "log" ELSE t[e]
      BY <1>0, <3>1, <3>2, <3>3, OpeningLog
    <3>5. fd' = -1 \/ t[fd'] = "free"
      BY <1>0, <3>1, <3>2, <3>3, OpeningLog
    <3> QED BY <3>1, <3>4, <3>5
  <2> QED BY <1>3, <2>1 DEF LogReopen
<1>4. CASE LogLevelUp \/ LogLevelDown \/ \E l \in LevelArgs : LogLevelSet(l)
  BY <1>4 DEF LogLevelUp, LogLevelDown, LogLevelSet, Says
<1>5. CASE Message(LOG_INFO) \/ Message(LOG_ALERT) \/ LogAlways
  BY <1>5 DEF Message, LogAlways, Says
<1>6. CASE Panic \/ PanicEnds \/ MessageStderr
  BY <1>6 DEF Panic, PanicEnds, MessageStderr
<1> QED BY <1>1, <1>2, <1>3, <1>4, <1>5, <1>6 DEF Logging

(* No call of the logger closes or replaces a file that is not its own. *)
THEOREM Others == LoggerSpec => OthersStay
<1>1. LogInv /\ [LoggerNext]_loggerVars =>
        [Logging => \A d \in DOMAIN file :
                      file[d] \in {"std", "other"} => (file')[d] = file[d]]_loggerVars
  <2>1. LogInv => DOMAIN file = 0 .. MaxFd
    BY DEF LogInv, LoggerTypeOK
  <2> QED BY <2>1, LeavesOthers
<1> QED BY LogInvariant, <1>1, PTL DEF LoggerSpec, OthersStay
=============================================================================
