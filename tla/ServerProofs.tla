---------------------------- MODULE ServerProofs ----------------------------
(***************************************************************************)
(* The safety properties of Server, for any number of clients, any length  *)
(* of a block and both loops.                                              *)
(***************************************************************************)
EXTENDS Server, SequenceTheorems, TLAPS

Whole(n) == \E q \in Nat : n = q * Block

(* box is what of the s units sent is not read, and g of those read are in a
   buffer that is not full. *)
Balanced(s, box, g, end) == Whole(s - Len(box) - g) \/ (end /\ box = <<>>)

InBuffer(c) == IF c = cur THEN got ELSE 0
Counted     == \A c \in Client : Balanced(sent[c], inbox[c], InBuffer(c), closed[c])

Texts(c) == c \in TextOnly => inbox[c] \in Seq({"text"})
Kept     == \A c \in Client : Texts(c)

(* What the place in the loop says of the locals of read_n. *)
Places ==
  /\ pc = "init" => watched = {}
  /\ pc # "read" => cur = Listener /\ got = 0
  /\ pc = "read" => cur \in Client /\ cur \notin batch
  /\ got > 0 /\ cur \in TextOnly => first = "text"

ServerInv == TypeOK /\ Places /\ Counted /\ Kept /\ TextStays

-----------------------------------------------------------------------------
LEMMA MinOfTwo ==
  ASSUME NEW a \in Int, NEW b \in Int
  PROVE  Min({a, b}) \in Int /\ Min({a, b}) <= a /\ Min({a, b}) <= b
<1>1. \E x \in {a, b} : \A y \in {a, b} : x <= y
  <2>1. CASE a <= b BY <2>1
  <2>2. CASE b <= a BY <2>2
  <2> QED BY <2>1, <2>2
<1> QED BY <1>1 DEF Min

(* Whole blocks leave no remainder. *)
LEMMA NoRemainder ==
  ASSUME NEW n, Whole(n)
  PROVE  n % Block = 0
<1>1. PICK q \in Nat : n = q * Block
  BY DEF Whole
<1>2. Block \in Nat /\ Block >= 1 /\ n \in Nat
  BY <1>1, BlockAssumption
<1> DEFINE d == n \div Block
<1>3. n % Block \in 0 .. Block - 1 /\ d \in Int /\ n = Block * d + (n % Block)
  BY <1>2
<1> HIDE DEF d
<1>4. n % Block = (q - d) * Block
  BY <1>1, <1>2, <1>3
<1>5. q - d >= 1 => (q - d) * Block >= Block
  BY <1>2, <1>3
<1>6. q - d <= -1 => (q - d) * Block <= -1
  BY <1>2, <1>3
<1>7. q - d = 0 => n % Block = 0
  BY <1>2, <1>3, <1>4
<1> QED BY <1>2, <1>3, <1>4, <1>5, <1>6, <1>7

LEMMA OneMore ==
  ASSUME NEW n \in Int, Whole(n - Block)
  PROVE  Whole(n)
<1>1. PICK q \in Nat : n - Block = q * Block
  BY DEF Whole
<1>2. Block \in Nat
  BY BlockAssumption
<1>3. q + 1 \in Nat /\ (q + 1) * Block = q * Block + Block
  BY <1>2
<1>4. n = (q + 1) * Block
  BY <1>1, <1>2, <1>3
<1> QED BY <1>3, <1>4 DEF Whole

LEMMA ServerInit == Init => ServerInv
<1> SUFFICES ASSUME Init PROVE ServerInv
  OBVIOUS
<1>1. TypeOK
  BY BlockAssumption DEF Init, TypeOK, Units
<1>2. Places
  BY DEF Init, Places
<1>3. Counted
  <2>1. 0 = 0 * Block
    BY BlockAssumption
  <2>2. Len(<<>>) = 0 /\ 0 - 0 - 0 = 0
    OBVIOUS
  <2> QED BY <2>1, <2>2, ClientAssumption DEF Init, Counted, Balanced, InBuffer, Whole
<1>4. Kept /\ TextStays
  BY ClientAssumption DEF Init, Kept, Texts, TextStays
<1> QED BY <1>1, <1>2, <1>3, <1>4 DEF ServerInv

(* A step that leaves the clients' data and the reading alone disturbs neither
   count. *)
LEMMA Unread ==
  ASSUME Counted, Kept, UNCHANGED <<sent, inbox, closed>>,
         \A c \in Client : InBuffer(c)' = InBuffer(c)
  PROVE  Counted' /\ Kept'
BY DEF Counted, Kept, Texts

LEMMA LoopStep ==
  ASSUME ServerInv,
         Listen \/ ListenFails \/ Wait \/ WaitFails \/ AcceptFails \/ BatchDone
           \/ \E c \in Client : Accept(c)
  PROVE  ServerInv'
<1>0. /\ TypeOK /\ Places /\ Counted /\ Kept /\ TextStays /\ pc # "read"
  BY DEF ServerInv, Listen, ListenFails, Wait, WaitFails, AcceptFails, Return, BatchDone, Accept
<1>1. UNCHANGED <<cur, got, first, sent, inbox, closed, kind>> /\ pc' # "read"
  BY DEF Listen, ListenFails, Wait, WaitFails, AcceptFails, Return, BatchDone, Accept,
         reading, clients
<1>2. Counted' /\ Kept'
  BY <1>0, <1>1, Unread DEF InBuffer
<1>3. Places'
  <2>1. pc' # "init"
    BY <1>0 DEF Listen, ListenFails, Wait, WaitFails, AcceptFails, Return, BatchDone, Accept, Places
  <2> QED BY <1>0, <1>1, <2>1 DEF Places
<1>4. TypeOK' /\ TextStays'
  <2>1. CASE \E c \in Client : Accept(c)
    BY <1>0, <1>1, <2>1 DEF Accept, TypeOK, TextStays
  <2>2. CASE Listen \/ ListenFails
    <3>1. watched = {} /\ batch = {}
      BY <1>0, <2>2 DEF Listen, ListenFails, Places, TypeOK
    <3> QED BY <1>0, <1>1, <2>2, <3>1
            DEF Listen, ListenFails, TypeOK, TextStays, clients
  <2>3. CASE Wait
    BY <1>0, <1>1, <2>3 DEF Wait, Ready, TypeOK, TextStays, clients
  <2>4. CASE WaitFails \/ AcceptFails
    BY <1>0, <1>1, <2>4, ClientAssumption DEF WaitFails, AcceptFails, Return, TypeOK, TextStays, clients
  <2>5. CASE BatchDone
    BY <1>0, <1>1, <2>5 DEF BatchDone, TypeOK, TextStays, clients
  <2> QED BY <2>1, <2>2, <2>3, <2>4, <2>5
<1> QED BY <1>2, <1>3, <1>4 DEF ServerInv

LEMMA ClientStep ==
  ASSUME ServerInv, NEW c \in Client,
         Connect(c) \/ Hangup(c) \/ \E u \in Units : Send(c, u)
  PROVE  ServerInv'
<1>0. /\ TypeOK /\ Places /\ Counted /\ Kept /\ TextStays
      /\ sent \in [Client -> 0 .. MaxSend] /\ inbox \in [Client -> Seq(Units)]
      /\ closed \in [Client -> BOOLEAN] /\ MaxSend \in Nat
  BY BlockAssumption DEF ServerInv, TypeOK
<1>1. UNCHANGED <<loop, reading>>
  BY DEF Connect, Hangup, Send
<1>2. Places'
  BY <1>0, <1>1 DEF Places, loop, reading
<1>3. CASE Connect(c)
  <2>1. Counted' /\ Kept'
    BY <1>0, <1>1, <1>3, Unread DEF Connect, InBuffer, reading
  <2>2. TypeOK' /\ TextStays'
    BY <1>0, <1>1, <1>3 DEF Connect, TypeOK, TextStays, loop, reading
  <2> QED BY <1>2, <2>1, <2>2 DEF ServerInv
<1>4. CASE Hangup(c)
  <2>1. Counted' /\ Kept'
    BY <1>0, <1>1, <1>4 DEF Hangup, Counted, Kept, Texts, Balanced, InBuffer, reading
  <2>2. TypeOK' /\ TextStays'
    BY <1>0, <1>1, <1>4 DEF Hangup, TypeOK, TextStays, loop, reading
  <2> QED BY <1>2, <2>1, <2>2 DEF ServerInv
<1>5. ASSUME NEW u \in Units, Send(c, u) PROVE ServerInv'
  <2>1. /\ sent'[c] = sent[c] + 1 /\ inbox'[c] = Append(inbox[c], u) /\ ~closed[c]
        /\ UNCHANGED <<conn, closed>> /\ (c \in TextOnly => u = "text")
        /\ \A d \in Client \ {c} : sent'[d] = sent[d] /\ inbox'[d] = inbox[d]
    BY <1>0, <1>5 DEF Send, Up
  <2>2. Len(inbox'[c]) = Len(inbox[c]) + 1 /\ Len(inbox[c]) \in Nat
    BY <1>0, <2>1
  <2>3. Counted'
    <3>1. ASSUME NEW d \in Client
          PROVE  Balanced(sent'[d], inbox'[d], InBuffer(d), closed'[d])
      <4>1. CASE d # c
        BY <1>0, <2>1, <4>1 DEF Counted
      <4>2. CASE d = c
        <5>1. Whole(sent[c] - Len(inbox[c]) - InBuffer(c))
          BY <1>0, <2>1 DEF Counted, Balanced
        <5>2. sent'[c] - Len(inbox'[c]) = sent[c] - Len(inbox[c])
          BY <1>0, <2>1, <2>2
        <5> QED BY <4>2, <5>1, <5>2 DEF Balanced
      <4> QED BY <4>1, <4>2
    <3>2. \A d \in Client : InBuffer(d)' = InBuffer(d)
      BY <1>1 DEF InBuffer, reading
    <3> QED BY <3>1, <3>2 DEF Counted
  <2>4. Kept'
    <3>1. c \in TextOnly => inbox'[c] \in Seq({"text"})
      BY <1>0, <2>1, AppendProperties DEF Kept, Texts
    <3> QED BY <1>0, <2>1, <3>1 DEF Kept, Texts
  <2>5. TypeOK' /\ TextStays'
    <3>1. sent' \in [Client -> 0 .. MaxSend]
      BY <1>0, <1>5 DEF Send
    <3>2. inbox' \in [Client -> Seq(Units)]
      <4>1. Append(inbox[c], u) \in Seq(Units)
        BY <1>0
      <4> QED BY <1>0, <1>5, <4>1 DEF Send
    <3> QED BY <1>0, <1>1, <2>1, <3>1, <3>2 DEF TypeOK, TextStays, loop, reading
  <2> QED BY <1>2, <2>3, <2>4, <2>5 DEF ServerInv
<1> QED BY <1>3, <1>4, <1>5

LEMMA StartStep ==
  ASSUME ServerInv, NEW c \in Client, StartRead(c)
  PROVE  ServerInv'
<1>0. /\ TypeOK /\ Places /\ Counted /\ Kept /\ TextStays /\ got = 0 /\ cur = Listener
      /\ Listener \notin Client
  BY ClientAssumption DEF ServerInv, Places, StartRead
<1>1. Counted' /\ Kept'
  BY <1>0, Unread DEF StartRead, InBuffer, clients
<1>2. TypeOK'
  BY <1>0 DEF StartRead, TypeOK, clients
<1>3. Places' /\ TextStays'
  BY <1>0 DEF StartRead, Places, TextStays, clients
<1> QED BY <1>1, <1>2, <1>3 DEF ServerInv

(* However few units a read returns, they leave the stream and enter the
   buffer. *)
LEMMA ReadStep ==
  ASSUME ServerInv, Read
  PROVE  ServerInv'
<1>0. /\ TypeOK /\ Places /\ Counted /\ Kept /\ TextStays /\ cur \in Client
      /\ inbox \in [Client -> Seq(Units)] /\ got \in 0 .. Block /\ Block \in Nat
      /\ sent[cur] \in Nat /\ got < Block /\ inbox[cur] # <<>>
  BY BlockAssumption DEF ServerInv, TypeOK, Places, Read
<1>1. PICK k \in 1 .. Min({Block - got, Len(inbox[cur])}) :
        /\ got' = got + k
        /\ inbox' = [inbox EXCEPT ![cur] = SubSeq(@, k + 1, Len(@))]
  BY DEF Read
<1> DEFINE box == inbox[cur]
<1>2. box \in Seq(Units) /\ Len(box) \in Nat
  BY <1>0
<1>3. k \in Nat /\ k >= 1 /\ k <= Block - got /\ k <= Len(box)
  <2>1. Block - got \in Int
    BY <1>0
  <2>2. /\ Min({Block - got, Len(box)}) \in Int
        /\ Min({Block - got, Len(box)}) <= Block - got
        /\ Min({Block - got, Len(box)}) <= Len(box)
    <3>1. ASSUME NEW a \in Int, NEW b \in Int
          PROVE  Min({a, b}) \in Int /\ Min({a, b}) <= a /\ Min({a, b}) <= b
      BY MinOfTwo
    <3>2. Len(box) \in Int
      BY <1>2
    <3> QED BY <2>1, <3>1, <3>2
  <2> QED BY <1>1, <2>2, <2>1, <1>2
<1>4. /\ inbox'[cur] = SubSeq(box, k + 1, Len(box))
      /\ \A d \in Client \ {cur} : inbox'[d] = inbox[d]
  BY <1>0, <1>1
<1> HIDE DEF box
<1>5. SubSeq(box, k + 1, Len(box)) \in Seq(Units) /\ Len(SubSeq(box, k + 1, Len(box))) = Len(box) - k
  BY <1>2, <1>3
<1>6. UNCHANGED <<loop, cur, conn, closed, sent>> /\ first' = Head(box)
  BY DEF Read, box
<1>7. Counted'
  <2>1. Whole(sent[cur] - Len(box) - got)
    BY <1>0 DEF Counted, Balanced, InBuffer, box
  <2>2. sent[cur] - Len(inbox'[cur]) - got' = sent[cur] - Len(box) - got
    <3>1. sent[cur] \in Int /\ got \in Int /\ k \in Int /\ Len(box) \in Int
      BY <1>0, <1>2, <1>3
    <3>2. got' = got + k
      BY <1>1
    <3>3. Len(inbox'[cur]) = Len(box) - k
      BY <1>4, <1>5
    <3> QED BY <3>1, <3>2, <3>3
  <2>3. Balanced(sent[cur], inbox'[cur], got', closed[cur])
    BY <2>1, <2>2 DEF Balanced
  <2>4. \A d \in Client \ {cur} : Balanced(sent[d], inbox'[d], 0, closed[d])
    BY <1>0, <1>4 DEF Counted, InBuffer
  <2> QED BY <1>6, <2>3, <2>4 DEF Counted, InBuffer
<1>8. Kept'
  <2>1. box \in Seq({"text"}) => SubSeq(box, k + 1, Len(box)) \in Seq({"text"})
    BY <1>2, <1>3
  <2> QED BY <1>0, <1>4, <2>1 DEF Kept, Texts, box
<1>9. TypeOK' /\ TextStays'
  <2>1. Head(box) \in Units
    BY <1>0, <1>2 DEF box
  <2>2. got' \in 0 .. Block
    BY <1>0, <1>1, <1>3
  <2>3. inbox' \in [Client -> Seq(Units)]
    BY <1>0, <1>1, <1>5 DEF box
  <2> QED BY <1>0, <1>6, <2>1, <2>2, <2>3 DEF TypeOK, TextStays, loop
<1>10. Places'
  <2>1. cur \in TextOnly => Head(box) = "text"
    <3>1. cur \in TextOnly => box \in Seq({"text"})
      BY <1>0 DEF Kept, Texts, box
    <3> QED BY <1>0, <3>1 DEF box
  <2> QED BY <1>0, <1>6, <2>1 DEF Places, Read, loop
<1> QED BY <1>7, <1>8, <1>9, <1>10 DEF ServerInv

LEMMA EndStep ==
  ASSUME ServerInv, FullBlock \/ EndOfStream
  PROVE  ServerInv'
<1>0. /\ TypeOK /\ Places /\ Counted /\ Kept /\ TextStays /\ cur \in Client /\ cur \notin batch
      /\ Listener \notin Client /\ Block \in Nat /\ Block >= 1
  BY ClientAssumption, BlockAssumption
  DEF ServerInv, Places, FullBlock, Full, EndOfStream
<1>1. /\ UNCHANGED <<kind, batch, conn, closed, sent, inbox>> /\ pc' = "batch"
      /\ cur' = Listener /\ got' = 0 /\ first' = "nul"
  BY DEF FullBlock, EndOfStream, EndRead, clients
<1>2. watched' = watched \/ (watched' = watched \ {cur} /\ cur \notin TextOnly)
  BY <1>0 DEF FullBlock, Full, EndOfStream, Places
<1>3. TypeOK' /\ Places' /\ TextStays' /\ Kept'
  BY <1>0, <1>1, <1>2 DEF TypeOK, Places, TextStays, Kept, Texts, Units
<1>4. Counted'
  <2>1. ASSUME NEW c \in Client PROVE Balanced(sent[c], inbox[c], 0, closed[c])
    <3>1. CASE c # cur
      BY <1>0, <3>1 DEF Counted, InBuffer
    <3>2. CASE c = cur /\ EndOfStream
      BY <1>0, <3>2 DEF EndOfStream, Balanced
    <3>3. CASE c = cur /\ FullBlock
      <4>1. got = Block /\ sent[c] - Len(inbox[c]) \in Int /\ sent[c] - Len(inbox[c]) - 0 = sent[c] - Len(inbox[c])
        BY <1>0, <3>3 DEF FullBlock, Full, TypeOK
      <4>2. Balanced(sent[c], inbox[c], Block, closed[c])
        BY <1>0, <3>3, <4>1 DEF Counted, InBuffer
      <4> QED BY <4>1, <4>2, OneMore DEF Balanced
    <3> QED BY <3>1, <3>2, <3>3
  <2> QED BY <1>0, <1>1, <2>1 DEF Counted, InBuffer
<1> QED BY <1>3, <1>4 DEF ServerInv

LEMMA ServerStep == ServerInv /\ [Next]_vars => ServerInv'
<1> SUFFICES ASSUME ServerInv, [Next]_vars PROVE ServerInv'
  OBVIOUS
<1>1. CASE UNCHANGED vars
  BY <1>1 DEF vars, loop, reading, clients, ServerInv, TypeOK, Places, Counted, InBuffer,
              Kept, Texts, TextStays
<1>2. CASE Next
  BY <1>2, LoopStep, ClientStep, StartStep, ReadStep, EndStep DEF Next, Loop
<1> QED BY <1>1, <1>2

(* Every state has what ServerInv says of the loops and of read_n
   (net_wrapper.c:14-101, io.c:34-55). *)
THEOREM ServerInvariant == Spec => []ServerInv
BY ServerInit, ServerStep, PTL DEF Spec

(* Every state of a server and its clients is well typed. *)
THEOREM ServerTypes == Spec => []TypeOK
<1>1. ServerInv => TypeOK
  BY DEF ServerInv
<1> QED BY <1>1, ServerInvariant, PTL

(* No client that sends no NUL is ever dropped. *)
THEOREM TextAlwaysStays == Spec => []TextStays
<1>1. ServerInv => TextStays
  BY DEF ServerInv
<1> QED BY <1>1, ServerInvariant, PTL

(* Between two reads whole blocks have been taken, in whatever pieces they came. *)
THEOREM BlocksAligned == Spec => []Aligned
<1>1. ServerInv => Aligned
  <2> SUFFICES ASSUME ServerInv, NEW c \in Client \ {cur}
               PROVE  \/ (sent[c] - Len(inbox[c])) % Block = 0
                      \/ closed[c] /\ inbox[c] = <<>>
    BY DEF Aligned
  <2>1. Balanced(sent[c], inbox[c], 0, closed[c])
    BY DEF ServerInv, Counted, InBuffer
  <2>2. sent[c] - Len(inbox[c]) - 0 = sent[c] - Len(inbox[c])
    BY DEF ServerInv, TypeOK
  <2> QED BY <2>1, <2>2, NoRemainder DEF Balanced
<1> QED BY <1>1, ServerInvariant, PTL

-----------------------------------------------------------------------------
(* Only what db.c is promised can happen to a call of the server. *)
LEMMA LifeInStep ==
  ASSUME ServerInv, [Next]_vars, Stage' # Stage
  PROVE  LifeStep(Stage, Stage') /\ (Stage' = "returned" => ~Listening')
<1>0. /\ Listener \notin Client /\ (pc = "init" => watched = {})
      /\ pc = "read" => cur \in Client
  BY ClientAssumption DEF ServerInv, Places
<1>1. CASE Listen \/ ListenFails
  BY <1>0, <1>1 DEF Listen, ListenFails, Stage, Listening, LifeStep, After
<1>2. CASE WaitFails \/ AcceptFails
  BY <1>0, <1>2 DEF WaitFails, AcceptFails, Return, Stage, Listening, LifeStep, After
<1>3. CASE Wait \/ BatchDone \/ Read \/ FullBlock \/ EndOfStream
           \/ \E c \in Client : Accept(c) \/ StartRead(c)
  <2>1. pc \notin {"init", "returned"} /\ pc' \notin {"init", "returned"}
    BY <1>3 DEF Wait, BatchDone, Read, FullBlock, Full, EndOfStream, EndRead, Accept, StartRead, loop
  <2>2. Listening' = Listening
    BY <1>0, <1>3 DEF Wait, BatchDone, Read, FullBlock, Full, EndOfStream, EndRead, Accept,
                      StartRead, loop, Listening
  <2> QED BY <2>1, <2>2 DEF Stage
<1>4. CASE \E c \in Client : Connect(c) \/ Hangup(c) \/ \E u \in Units : Send(c, u)
  BY <1>4 DEF Connect, Hangup, Send, loop, Stage, Listening
<1>5. CASE UNCHANGED vars
  BY <1>5 DEF vars, loop, Stage, Listening
<1> QED BY <1>1, <1>2, <1>3, <1>4, <1>5 DEF Next, Loop

(* What Db takes for granted of a server is true of this one, for any clients:
   the two modules fit together. *)
THEOREM LifeAlwaysKept == Spec => LifeKept
<1>1. ServerInv /\ [Next]_vars
        => [LifeStep(Stage, Stage') /\ (Stage' = "returned" => ~Listening')]_Stage
  BY LifeInStep
<1> QED BY <1>1, ServerInvariant, PTL DEF Spec, LifeKept
=============================================================================
