-------------------------------- MODULE Log --------------------------------
(***************************************************************************)
(* log.c: the logger of a process, a descriptor number and a level, next   *)
(* to the other files the process opens and closes.  The operating system  *)
(* gives the lowest free number to each file that is opened.               *)
(*                                                                         *)
(* The program calls log_init first (db.c:31, conf.c:1230).  Nothing in    *)
(* the repository calls log_deinit, which closes the log file and keeps    *)
(* the number of its descriptor: a message, a reopen or a second           *)
(* log_deinit after it would use whatever file has that number by then.    *)
(* Here only log_init follows it.  nerror is counted and never read: it is *)
(* left out, as is the layout of a line.                                   *)
(***************************************************************************)
EXTENDS Integers, FiniteSets, FiniteSetsExt

CONSTANTS
  MaxFd,      \* the last descriptor a process may have
  LevelArgs   \* the levels log_init and log_level_set are called with

ASSUME MaxFdAssumption == MaxFd \in Nat /\ MaxFd >= 2
ASSUME LevelAssumption == LevelArgs \subseteq Int

VARIABLES
  pc,     \* "off" before log_init and after log_deinit, "panic" in log_panic,
          \* "aborted" after it
  level, named, fd,   \* the logger; named: has it the name of a file?
  file,   \* what each descriptor of the process stands for
  wrote   \* the files a message was written to

logger     == <<level, named, fd>>
loggerVars == <<pc, logger, file, wrote>>

LOG_EMERG == 0
LOG_ALERT == 1
LOG_INFO  == 6
LOG_PVERB == 11
STDERR    == 2

Kinds == {"std", "log", "other"}

LoggerTypeOK ==
  /\ pc \in {"off", "on", "panic", "aborted"}
  /\ level \in LOG_EMERG .. LOG_PVERB /\ named \in BOOLEAN
  /\ fd \in -1 .. MaxFd
  /\ file \in [0 .. MaxFd -> Kinds \cup {"free"}]
  /\ wrote \subseteq Kinds

(* A static object: descriptor 0 and no name. *)
LoggerInit ==
  /\ pc = "off" /\ level = 0 /\ named = FALSE /\ fd = 0
  /\ file = [d \in 0 .. MaxFd |-> IF d <= STDERR THEN "std" ELSE "free"]
  /\ wrote = {}

-----------------------------------------------------------------------------
(* Files *)

Free(t) == {d \in DOMAIN t : t[d] = "free"}
Opened(t, kind) == IF Free(t) = {} THEN {}
                   ELSE {[fd |-> Min(Free(t)), file |-> [t EXCEPT ![Min(Free(t))] = kind]]}
Failed(t)    == [fd |-> -1, file |-> t]
Closed(t, d) == IF d \in DOMAIN t THEN [t EXCEPT ![d] = "free"] ELSE t

(* A message goes to what the descriptor stands for, if to anything. *)
Written(d, t) == wrote' = wrote \cup ({t[e] : e \in {d} \cap DOMAIN t} \ {"free"})

(* open may fail whenever it is called. *)
OpenLog(t) == \E r \in Opened(t, "log") \cup {Failed(t)} : fd' = r.fd /\ file' = r.file

-----------------------------------------------------------------------------
(* log.c *)

(* mutant: only the upper bound *)
ClampedAbove(l) == Min({l, LOG_PVERB})
Clamped(l)      == Max({LOG_EMERG, Min({l, LOG_PVERB})})

(* If the file cannot be opened the answer is -1; the process may go on. *)
LogInit(l, n) ==
  /\ pc = "off" /\ pc' = "on"
  /\ level' = Clamped(l) /\ named' = n
  /\ IF n THEN OpenLog(file) ELSE fd' = STDERR /\ UNCHANGED file
  /\ IF fd' = -1 THEN Written(STDERR, file) ELSE UNCHANGED wrote

(* mutant: the descriptor is given up and not closed *)
LogDeinitOpen == pc = "on" /\ pc' = "off" /\ UNCHANGED <<logger, file, wrote>>
LogDeinit ==
  /\ pc = "on" /\ pc' = "off"
  /\ file' = IF fd \in {-1, STDERR} THEN file ELSE Closed(file, fd)
  /\ UNCHANGED <<logger, wrote>>

(* mutants: the old number is kept when open fails; the sentinel is closed
   like any other descriptor *)
LogReopenKeep ==
  /\ pc = "on"
  /\ IF fd = STDERR THEN UNCHANGED <<fd, file, wrote>>
     ELSE LET t == Closed(file, fd) IN
          \/ \E r \in Opened(t, "log") : fd' = r.fd /\ file' = r.file /\ UNCHANGED wrote
          \/ file' = t /\ UNCHANGED fd /\ Written(STDERR, t)
  /\ UNCHANGED <<pc, level, named>>
LogReopenAny ==
  /\ pc = "on" /\ OpenLog(Closed(file, fd))
  /\ IF fd' = -1 THEN Written(STDERR, file') ELSE UNCHANGED wrote
  /\ UNCHANGED <<pc, level, named>>
LogReopen ==
  /\ pc = "on"
  /\ IF fd = STDERR THEN UNCHANGED <<fd, file>> ELSE OpenLog(Closed(file, fd))
  /\ IF fd' = -1 THEN Written(STDERR, file') ELSE UNCHANGED wrote
  /\ UNCHANGED <<pc, level, named>>

Says(l) == /\ pc = "on" /\ level' = l /\ Written(fd, file)
           /\ UNCHANGED <<pc, named, fd, file>>
LogLevelUp     == level < LOG_PVERB /\ Says(level + 1)
LogLevelDown   == level > LOG_EMERG /\ Says(level - 1)
LogLevelSet(l) == Says(Clamped(l))

Loggable(l) == l <= level

Message(l) == Loggable(l) /\ Says(level)   \* log_info, log_error, log_warn
LogAlways  == Says(level)                 \* loga

(* log_panic: the call, and its end.  With no descriptor to write to, _log
   returns before it comes to abort. *)
Panic == /\ pc = "on" /\ Loggable(LOG_EMERG) /\ pc' = "panic"
         /\ UNCHANGED <<logger, file, wrote>>
PanicEnds == /\ pc = "panic"
             /\ pc' = IF fd = -1 THEN "on" ELSE "aborted"
             /\ Written(fd, file) /\ UNCHANGED <<logger, file>>

MessageStderr == /\ pc = "on" /\ Written(STDERR, file)
                 /\ UNCHANGED <<pc, logger, file>>

-----------------------------------------------------------------------------
(* The rest of the process *)

OpenOther == \E r \in Opened(file, "other") :
               /\ pc \in {"off", "on"} /\ file' = r.file
               /\ UNCHANGED <<pc, logger, wrote>>
CloseOther(d) == /\ pc \in {"off", "on"} /\ file[d] = "other"
                 /\ file' = Closed(file, d)
                 /\ UNCHANGED <<pc, logger, wrote>>

Logging ==
  \/ \E l \in LevelArgs : LogLevelSet(l) \/ \E n \in BOOLEAN : LogInit(l, n)
  \/ LogDeinit \/ LogReopen \/ LogLevelUp \/ LogLevelDown
  \/ Message(LOG_INFO) \/ Message(LOG_ALERT) \/ LogAlways
  \/ Panic \/ PanicEnds \/ MessageStderr

LoggerNext == Logging \/ OpenOther \/ \E d \in 0 .. MaxFd : CloseOther(d)

LoggerSpec == LoggerInit /\ [][LoggerNext]_loggerVars

-----------------------------------------------------------------------------
(* Properties *)

(* No message ever goes to another file of the program, whatever was opened
   and closed between log_reopen's failures and successes: a number that
   log_reopen gave up is not written to again (log.c:87-93, 180). *)
OwnMessages == wrote \subseteq {"log", "std"}

(* The log file is open once while the logger uses it and not at all
   otherwise: neither log_reopen nor log_deinit loses a descriptor, and a
   logger with a name that could not be opened holds none (log.c:57, 78, 88). *)
LogOpenOnce ==
  {d \in DOMAIN file : file[d] = "log"}
    = IF pc # "off" /\ named /\ fd # -1 THEN {fd} ELSE {}

(* The inductive invariant.  The standard streams are where they were; while
   the logger is in use it holds a descriptor above them or none if it has a
   name, and the standard error stream if it has none; between log_deinit
   and log_init nothing is known of fd (log.c:53, 57, 73, 85). *)
InUse ==
  pc # "off" => IF named THEN fd = -1 \/ (fd > STDERR /\ fd <= MaxFd) ELSE fd = STDERR
Streams == \A d \in 0 .. MaxFd : file[d] = "std" <=> d <= STDERR
LogInv  == LoggerTypeOK /\ InUse /\ Streams /\ LogOpenOnce /\ OwnMessages

(* No call of the logger closes or replaces a file that is not its own, nor
   the standard streams (log.c:73, 78, 85-88). *)
OthersStay ==
  [][Logging => \A d \in DOMAIN file : file[d] \in {"std", "other"} => file'[d] = file[d]]_loggerVars
=============================================================================
