------------------------- MODULE BachelorEgo_proofs -------------------------
(***************************************************************************)
(* The ordering service and a runtime joined by a websocket: the joint     *)
(* steps are steps of the one and of the other, so that what is proved of  *)
(* each holds of the system, and the service does to the runtime only what *)
(* Runtime supposes.                                                       *)
(***************************************************************************)
EXTENDS BachelorEgo, SequenceTheorems, FiniteSetTheorems, TLAPS

\* The theorems about the service, which does not crash here.
P == INSTANCE OrderingServiceLog_proofs WITH MaxRestarts <- 0

-----------------------------------------------------------------------------
(***************************************************************************)
(* The service: what it does is what OrderingService does.                 *)
(***************************************************************************)

\* ConstAssumption of OrderingService.
LEMMA ServiceAssumption ==
  /\ P!IsFiniteSet(Conn)
  /\ None \notin Conn
  /\ None \notin Message
  /\ Malformed \subseteq Message
  /\ BlockSize \in Nat \ {0}
  /\ SendCap \in Nat \ {0}
  /\ WireCap \in Nat
  /\ 0 \in Nat
<1>1. P!IsFiniteSet(Conn) = IsFiniteSet(Conn)
  BY DEF P!IsFiniteSet, IsFiniteSet
<1> QED
  BY <1>1, SystemAssumption

LEMMA SameHeld == O!Held = P!Held
  BY DEF O!Held, P!Held, O!Making, P!Making, O!Committed, P!Committed, O!Elems, P!Elems

LEMMA SameNetwork ==
  /\ \A c \in Conn : O!Receive(c) = P!Receive(c) /\ O!Disconnect(c) = P!Disconnect(c)
  /\ \A c \in Conn, m \in Message : O!Submit(c, m) = P!Submit(c, m)
  BY DEF O!Receive, P!Receive, O!Disconnect, P!Disconnect, O!Submit, P!Submit,
     O!handlerVars, P!handlerVars, O!readerVars, P!readerVars, O!builderVars, P!builderVars,
     O!writerVars, P!writerVars

LEMMA SameHandlers ==
  \A c \in Conn : O!Accept(c) = P!Accept(c) /\ O!Register(c) = P!Register(c)
  BY DEF O!Accept, P!Accept, O!Register, P!Register, O!Overwritten, P!Overwritten,
     O!Elems, P!Elems, O!netVars, P!netVars, O!readerVars, P!readerVars,
     O!builderVars, P!builderVars, O!writerVars, P!writerVars

LEMMA SamePumps ==
  \A c \in Conn :
    /\ O!ReadMessage(c) = P!ReadMessage(c) /\ O!ReadError(c) = P!ReadError(c)
    /\ O!Pool(c) = P!Pool(c) /\ O!HandOver(c) = P!HandOver(c) /\ O!Unlock(c) = P!Unlock(c)
    /\ O!Take(c) = P!Take(c) /\ O!Write(c) = P!Write(c)
  BY DEF O!ReadMessage, P!ReadMessage, O!ReadError, P!ReadError, O!Pool, P!Pool,
     O!MutexFree, P!MutexFree, O!PoolWith, P!PoolWith, O!Full, P!Full,
     O!HandOver, P!HandOver, O!Unlock, P!Unlock, O!PoolAfterBlock, P!PoolAfterBlock,
     O!Take, P!Take, O!Write, P!Write, O!netVars, P!netVars, O!handlerVars, P!handlerVars,
     O!readerVars, P!readerVars, O!builderVars, P!builderVars, O!writerVars, P!writerVars

LEMMA SameBuilder == O!AddBlock = P!AddBlock /\ O!Cast = P!Cast
  BY DEF O!AddBlock, P!AddBlock, O!Recipients, P!Recipients, O!Cast, P!Cast,
     O!HasRoom, P!HasRoom, O!FrameOf, P!FrameOf, O!netVars, P!netVars,
     O!handlerVars, P!handlerVars, O!readerVars, P!readerVars, O!writerVars, P!writerVars

LEMMA ServiceInit == Init => P!Init
  BY DEF Init, O!Init, P!Init

\* What the service, the other runtimes and the network do by themselves.
LEMMA ServiceActions ==
  ASSUME ServiceStep \/ OtherRuntimes \/ Network
  PROVE  \/ \E c \in Conn : \/ P!Accept(c) \/ P!Register(c) \/ P!Disconnect(c)
                            \/ P!ReadMessage(c) \/ P!ReadError(c) \/ P!Pool(c)
                            \/ P!HandOver(c) \/ P!Unlock(c) \/ P!Take(c) \/ P!Write(c)
         \/ \E c \in Conn \ {Here} : P!Receive(c) \/ \E m \in Foreign : P!Submit(c, m)
         \/ P!AddBlock \/ P!Cast
<1>1. CASE ServiceStep
  BY <1>1, SameHandlers, SamePumps, SameBuilder
  DEF ServiceStep, O!ReadPump, O!WritePump, O!Builder
<1>2. CASE OtherRuntimes
  BY <1>2, SameNetwork DEF OtherRuntimes, Foreign
<1>3. CASE Network
  BY <1>3, SameNetwork, SystemAssumption DEF Network
<1> QED
  BY <1>1, <1>2, <1>3

LEMMA ServiceNext == [Next]_vars => [P!Next]_(P!vars)
<1> SUFFICES ASSUME [Next]_vars
             PROVE  P!Next \/ UNCHANGED P!vars
  OBVIOUS
<1>1. UNCHANGED serviceVars => UNCHANGED P!vars
  BY DEF serviceVars, P!vars, P!netVars, P!handlerVars, P!readerVars, P!builderVars,
     P!writerVars
<1>2. CASE RuntimeStep \/ Idle \/ UNCHANGED vars
  BY <1>1, <1>2 DEF RuntimeStep, Idle, vars
<1>3. ASSUME NEW r \in Request, Send(r) PROVE P!Next
  <2>1. Here \in Conn /\ r \in Message
    BY SystemAssumption
  <2> QED
    BY <1>3, <2>1, SameNetwork DEF Send, P!Next
<1>4. CASE ListenRead
  BY <1>4, SystemAssumption, SameNetwork DEF ListenRead, P!Next
<1>5. CASE ServiceStep \/ OtherRuntimes \/ Network
  <2>1. Foreign \subseteq Message
    BY DEF Foreign
  <2> QED
    BY <1>5, <2>1, ServiceActions DEF P!Next, P!ReadPump, P!WritePump, P!Builder
<1> QED
  BY <1>2, <1>3, <1>4, <1>5 DEF Next

LEMMA ServiceRuns == Spec => P!Spec
  BY ServiceInit, ServiceNext, PTL DEF Spec, P!Spec

LEMMA ServiceHolds == Spec => [](P!TypeOK /\ P!LogInv)
<1>1. P!Spec => []P!TypeOK
  BY P!TypeCorrect, ServiceAssumption
<1>2. P!Spec => []P!LogInv
  BY P!LogInvariant, ServiceAssumption
<1> QED
  BY <1>1, <1>2, ServiceRuns, PTL

-----------------------------------------------------------------------------
(***************************************************************************)
(* Who sent what.                                                          *)
(***************************************************************************)

\* The runtime's own messages come on its connection, all others on others.
OwnInv ==
  \A m \in Message : /\ m \in Request => origin[m] \in {None, Here}
                     /\ m \notin Request => origin[m] # Here

LEMMA OwnInit == Init => OwnInv
  BY SystemAssumption DEF Init, O!Init, OwnInv

LEMMA OwnNext == P!TypeOK /\ OwnInv /\ [Next]_vars => OwnInv'
<1> SUFFICES ASSUME P!TypeOK, OwnInv, [Next]_vars
             PROVE  OwnInv'
  OBVIOUS
<1>1. origin \in [Message -> Conn \cup {None}]
  BY DEF P!TypeOK, P!NetTypes
<1>2. CASE UNCHANGED origin
  BY <1>2 DEF OwnInv
<1>3. ASSUME NEW c \in Conn, NEW m \in Message, P!Submit(c, m), m \in Request <=> c = Here
      PROVE  OwnInv'
  <2>1. origin' = [origin EXCEPT ![m] = c]
    BY <1>3 DEF P!Submit
  <2> QED
    BY <1>1, <1>3, <2>1 DEF OwnInv
<1>4. CASE RuntimeStep \/ Idle \/ UNCHANGED vars
  BY <1>2, <1>4 DEF RuntimeStep, Idle, vars, serviceVars
<1>5. ASSUME NEW r \in Request, Send(r) PROVE OwnInv'
  <2>1. Here \in Conn /\ r \in Message
    BY SystemAssumption
  <2> QED
    BY <1>3, <1>5, <2>1, SameNetwork DEF Send
<1>6. CASE ListenRead
  BY <1>2, <1>6 DEF ListenRead, O!Receive
<1>7. CASE ServiceStep \/ OtherRuntimes \/ Network
  <2>1. CASE \E c \in Conn : \/ P!Accept(c) \/ P!Register(c) \/ P!Disconnect(c)
                            \/ P!ReadMessage(c) \/ P!ReadError(c) \/ P!Pool(c)
                            \/ P!HandOver(c) \/ P!Unlock(c) \/ P!Take(c) \/ P!Write(c)
    BY <1>2, <2>1 DEF P!Accept, P!Register, P!Disconnect, P!ReadMessage, P!ReadError, P!Pool,
       P!HandOver, P!Unlock, P!Take, P!Write, P!netVars
  <2>2. CASE \E c \in Conn \ {Here} : P!Receive(c) \/ \E m \in Foreign : P!Submit(c, m)
    BY <1>2, <1>3, <2>2 DEF P!Receive, Foreign
  <2>3. CASE P!AddBlock \/ P!Cast
    BY <1>2, <2>3 DEF P!AddBlock, P!Cast, P!netVars
  <2> QED
    BY <1>7, <2>1, <2>2, <2>3, ServiceActions
<1> QED
  BY <1>4, <1>5, <1>6, <1>7 DEF Next

-----------------------------------------------------------------------------
(***************************************************************************)
(* Sequences.                                                              *)
(***************************************************************************)
FrontOf(s) == [i \in 1 .. Len(s) - 1 |-> s[i]]

LEMMA FrontIs ==
  ASSUME NEW S, NEW s \in Seq(S), s # <<>>
  PROVE  /\ Front(s) = FrontOf(s)
         /\ FrontOf(s) \in Seq(S) /\ Len(FrontOf(s)) = Len(s) - 1 /\ Len(s) - 1 \in Nat
         /\ s[Len(s)] \in S
         /\ Append(FrontOf(s), s[Len(s)]) = s
<1>1. Len(s) \in Nat /\ Len(s) # 0 /\ DOMAIN s = 1 .. Len(s) /\ \A i \in 1 .. Len(s) : s[i] \in S
  OBVIOUS
<1>2. Front(s) = FrontOf(s)
  BY <1>1 DEF Front, FrontOf
<1> DEFINE f == FrontOf(s)
           n == Len(s) - 1
<1>3. n \in Nat /\ n + 1 = Len(s) /\ s[n + 1] \in S
  BY <1>1
<1>4. f = [i \in 1 .. n |-> s[i]] /\ \A i \in 1 .. n : s[i] \in S
  BY <1>1 DEF FrontOf
<1> HIDE DEF f, n
<1>5. f \in Seq(S) /\ Len(f) = n
  BY <1>3, <1>4
<1> DEFINE t == Append(f, s[n + 1])
<1>6. t \in Seq(S) /\ Len(t) = n + 1 /\ t[n + 1] = s[n + 1] /\ \A i \in 1 .. n : t[i] = f[i]
  BY <1>3, <1>5, AppendProperties
<1> HIDE DEF t
<1>7. \A i \in 1 .. n + 1 : t[i] = s[i]
  <2>1. \A i \in 1 .. n + 1 : i \in 1 .. n \/ i = n + 1
    BY <1>3
  <2> QED
    BY <1>4, <1>6, <2>1
<1>8. t = s
  BY <1>1, <1>3, <1>6, <1>7
<1>9. Front(s) = f /\ Append(f, s[Len(s)]) = s
  BY <1>2, <1>3, <1>8 DEF f, t
<1>10. Len(s) - 1 = n
  BY DEF n
<1> QED
  BY <1>3, <1>5, <1>9, <1>10 DEF f

LEMMA FrontAppend ==
  ASSUME NEW S, NEW s \in Seq(S), NEW x \in S
  PROVE  Front(Append(s, x)) = s
<1> DEFINE t == Append(s, x)
<1>1. /\ t \in Seq(S) /\ Len(t) = Len(s) + 1 /\ Len(s) \in Nat /\ DOMAIN s = 1 .. Len(s)
      /\ \A i \in 1 .. Len(s) : t[i] = s[i]
  OBVIOUS
<1> HIDE DEF t
<1>2. Front(t) = [i \in 1 .. Len(s) |-> t[i]]
  <2>1. t # <<>>
    BY <1>1
  <2> QED
    BY <1>1, <2>1, FrontIs DEF FrontOf
<1>3. [i \in 1 .. Len(s) |-> t[i]] = s
  BY <1>1
<1> QED
  BY <1>2, <1>3 DEF t

Told(x) == [txs |-> x.txs, ack |-> x.ack, id |-> x.id]
\* The frames of a channel behind the first n, as a runtime sees them.
Ahead(f, n) ==
  LET ahead == SubSeq(f, n + 1, Len(f))
  IN  [i \in DOMAIN ahead |-> [txs |-> ahead[i].txs, ack |-> ahead[i].ack, id |-> ahead[i].id]]

LEMMA AheadIs ==
  ASSUME NEW S, NEW f \in Seq(S), NEW n \in 0 .. Len(f)
  PROVE  Ahead(f, n) = [i \in 1 .. Len(f) - n |-> Told(f[i + n])]
<1> DEFINE a == SubSeq(f, n + 1, Len(f))
<1>1. DOMAIN a = 1 .. Len(f) - n /\ \A i \in 1 .. Len(f) - n : a[i] = f[i + n]
  OBVIOUS
<1> HIDE DEF a
<1>2. [i \in DOMAIN a |-> Told(a[i])] = [i \in 1 .. Len(f) - n |-> Told(f[i + n])]
  BY <1>1
<1> QED
  BY <1>2 DEF Ahead, a, Told

LEMMA AheadAppend ==
  ASSUME NEW S, NEW f \in Seq(S), NEW x \in S, NEW n \in 0 .. Len(f)
  PROVE  Ahead(Append(f, x), n) = Append(Ahead(f, n), Told(x))
<1> DEFINE g == Append(f, x)
           A == Ahead(f, n)
           B == Ahead(g, n)
<1>1. /\ g \in Seq(S) /\ Len(g) = Len(f) + 1 /\ Len(f) \in Nat
      /\ \A i \in 1 .. Len(f) : g[i] = f[i]
      /\ g[Len(f) + 1] = x
  OBVIOUS
<1> HIDE DEF g
<1>2. A = [i \in 1 .. Len(f) - n |-> Told(f[i + n])]
  BY AheadIs
<1>3. B = [i \in 1 .. Len(f) + 1 - n |-> Told(g[i + n])]
  BY <1>1, AheadIs
<1> DEFINE T == {Told(y) : y \in S}
           C == Append(A, Told(x))
           k == Len(f) - n
<1>4. k \in Nat /\ Len(f) + 1 - n = k + 1
  BY <1>1
<1>9. Told(x) \in T /\ \A i \in 1 .. k : Told(f[i + n]) \in T
  <2>1. \A i \in 1 .. k : f[i + n] \in S
    BY <1>1
  <2> QED
    BY <2>1
<1>10. A = [i \in 1 .. k |-> Told(f[i + n])]
  BY <1>2
<1> HIDE DEF T, A, k
<1>5. A \in Seq(T) /\ Len(A) = k /\ Told(x) \in T
  BY <1>4, <1>9, <1>10
<1>6. /\ C \in Seq(T) /\ Len(C) = k + 1 /\ C[k + 1] = Told(x)
      /\ \A i \in 1 .. k : C[i] = A[i]
  BY <1>4, <1>5, AppendProperties
<1> HIDE DEF C
<1>7. DOMAIN C = 1 .. k + 1 /\ C = [i \in 1 .. k + 1 |-> C[i]]
  BY <1>4, <1>6
<1>8. ASSUME NEW i \in 1 .. k + 1 PROVE Told(g[i + n]) = C[i]
  <2>1. CASE i = k + 1
    <3>1. i + n = Len(f) + 1
      BY <1>1, <2>1 DEF k
    <3> QED
      BY <1>1, <1>6, <2>1, <3>1
  <2>2. CASE i \in 1 .. k
    <3>1. i + n \in 1 .. Len(f) /\ A[i] = Told(f[i + n])
      BY <1>1, <1>2, <2>2 DEF k
    <3> QED
      BY <1>1, <1>6, <2>2, <3>1
  <2> QED
    BY <1>4, <2>1, <2>2
<1> QED
  BY <1>3, <1>4, <1>7, <1>8 DEF A, C, g

-----------------------------------------------------------------------------
(***************************************************************************)
(* What the runtime sees of the service.                                   *)
(***************************************************************************)
Replied == O!Held \ Unanswered

LEMMA Quiet ==
  ASSUME UNCHANGED runtimeVars, LinkUp' = LinkUp, OnTheWay' = OnTheWay,
         Submitted' = Submitted, Replied' = Replied, BlocksKnown' = BlocksKnown
  PROVE  UNCHANGED R!vars
  BY DEF R!vars, R!requestVars, R!listenerVars, R!netVars, R!orderingVars, runtimeVars,
     Replied

\* A message is answered by an ack, or all answers to it are dropped.
LEMMA AckKnown ==
  ASSUME UNCHANGED runtimeVars, LinkUp' = LinkUp, Submitted' = Submitted,
         BlocksKnown' = BlocksKnown,
         NEW t \in Foreign \cup Submitted, t \notin Replied, Replied' = Replied \cup {t},
         \/ OnTheWay' = OnTheWay
         \/ /\ t \in Submitted
            /\ OnTheWay' = Append(OnTheWay, [txs |-> <<>>, ack |-> TRUE, id |-> t])
  PROVE  R!Next
<1>1. R!OrderingAck(t)
  BY DEF R!OrderingAck, R!Emit, R!requestVars, R!listenerVars, runtimeVars, Replied
<1>2. t \in R!Transaction
  BY DEF R!Transaction, Submitted
<1> QED
  BY <1>1, <1>2 DEF R!Next

\* A block is made known, and its last message is answered by it.
LEMMA BlockKnown ==
  ASSUME UNCHANGED runtimeVars, LinkUp' = LinkUp, Submitted' = Submitted,
         NEW s \in Seq(Message), s # <<>>, BlocksKnown' = Append(BlocksKnown, s),
         Len(s) <= Cardinality(Conn) * (BlockSize - 1) + 1,
         Cardinality(Conn) * (BlockSize - 1) \in Nat,
         \A i, j \in DOMAIN s : s[i] = s[j] => i = j,
         \A i \in 1 .. Len(s) - 1 : s[i] \in Replied /\ s[i] \notin R!Logged,
         s[Len(s)] \in Foreign \cup Submitted, s[Len(s)] \notin Replied,
         Replied' = Replied \cup {s[Len(s)]},
         \/ OnTheWay' = OnTheWay
         \/ OnTheWay' = Append(OnTheWay, [txs |-> s, ack |-> FALSE, id |-> s[Len(s)]])
  PROVE  R!Next
<1> DEFINE t == s[Len(s)]
           f == FrontOf(s)
           n == Len(s) - 1
<1>1. /\ n \in Nat /\ n <= Cardinality(Conn) * (BlockSize - 1)
      /\ Append(f, t) = s /\ DOMAIN s = 1 .. n + 1
  BY FrontIs
<1>2. f = [i \in 1 .. n |-> s[i]]
  BY DEF FrontOf
<1> HIDE DEF f
<1> HIDE DEF n
<1>3. f \in [1 .. n -> Replied \ R!Logged]
  BY <1>2 DEF n
<1>4. R!IsInjective(f)
  <2>1. DOMAIN f = 1 .. n /\ \A i \in 1 .. n : f[i] = s[i] /\ i \in DOMAIN s
    BY <1>1, <1>2
  <2> QED
    BY <2>1 DEF R!IsInjective
<1>5. n \in 0 .. (Cardinality(Conn) * (BlockSize - 1) + 1) - 1
  BY <1>1
<1>6. R!OrderingBlock(t)
  <2>1. R!Emit([txs |-> Append(f, t), ack |-> FALSE, id |-> t])
    BY <1>1 DEF R!Emit
  <2>2. BlocksKnown' = Append(BlocksKnown, Append(f, t))
    BY <1>1
  <2> HIDE DEF n, t
  <2> QED
    BY <1>3, <1>4, <1>5, <2>1, <2>2
    DEF R!OrderingBlock, R!requestVars, R!listenerVars, runtimeVars, Replied, t
<1>7. t \in R!Transaction
  BY DEF R!Transaction, Submitted
<1> QED
  BY <1>6, <1>7 DEF R!Next

-----------------------------------------------------------------------------
(***************************************************************************)
(* The state of the service behind what the runtime sees.                  *)
(***************************************************************************)
\* An ack carries no transactions.
AckInv == builder = "cast" /\ ~job.broadcast => job.txs = <<>>

LEMMA AckNext == P!LogInv /\ AckInv /\ [Next]_vars => AckInv'
<1> SUFFICES ASSUME P!LogInv, AckInv, [Next]_vars
             PROVE  AckInv'
  OBVIOUS
<1>1. [P!Next]_P!vars
  BY ServiceNext
<1>2. CASE UNCHANGED <<builder, job>>
  BY <1>2 DEF AckInv
<1>3. ASSUME NEW c \in Conn, P!HandOver(c) PROVE AckInv'
  <2>1. CASE reader[c] = "block"
    BY <1>3, <2>1 DEF P!HandOver, AckInv
  <2>2. CASE reader[c] = "ack"
    <3>1. job' = [txs |-> <<>>, broadcast |-> FALSE, rc |-> c, id |-> msg[c]]
      BY <1>3, <2>2 DEF P!HandOver
    <3> QED
      BY <3>1 DEF AckInv
  <2> QED
    BY <1>3, <2>1, <2>2 DEF P!HandOver
<1>4. CASE P!AddBlock
  BY <1>4 DEF P!AddBlock, P!LogInv, P!SafetyInv, P!ChainInv, AckInv
<1>5. CASE P!Cast
  BY <1>5 DEF P!Cast, AckInv
<1>6. CASE P!Restart
  BY <1>6 DEF P!Restart, AckInv
<1> QED
  BY <1>1, <1>2, <1>3, <1>4, <1>5, <1>6
  DEF P!Next, P!ReadPump, P!Builder, P!WritePump, P!Idle, P!Submit, P!Receive,
      P!Disconnect, P!Accept, P!Register, P!ReadMessage, P!ReadError, P!Pool, P!Unlock,
      P!Take, P!Write, P!vars, P!builderVars

SysInv == P!TypeOK /\ P!LogInv /\ OwnInv /\ AckInv

LEMMA SysInvariant == Spec => []SysInv
<1>1. Spec => []OwnInv
  BY OwnInit, OwnNext, ServiceHolds, PTL DEF Spec
<1>2. Init => AckInv
  BY DEF Init, O!Init, AckInv
<1>3. Spec => []AckInv
  BY <1>2, AckNext, ServiceHolds, PTL DEF Spec
<1> QED
  BY <1>1, <1>3, ServiceHolds, PTL DEF SysInv

\* The messages of the ReadPumps that are about to hand them over.
Waiting == {msg[c] : c \in {d \in Conn : reader[d] \in {"block", "ack"}}}

Owed == IF AnswerDue THEN {job.id} ELSE {}

LEMMA RepliedIs == Replied = P!Held \ (Waiting \cup Owed)
  BY SameHeld DEF Replied, Unanswered, Waiting, Owed

LEMMA RepliedIsNext == Replied' = P!Held' \ (Waiting' \cup Owed')
<1>1. O!Held' = P!Held'
  BY DEF O!Held, P!Held, O!Making, P!Making, O!Committed, P!Committed, O!Elems, P!Elems
<1> QED
  BY <1>1 DEF Replied, Unanswered, Waiting, Owed

LEMMA OnTheWayIs == OnTheWay = Ahead(frames[Here], seen[Here])
  BY DEF OnTheWay, Ahead

\* A step that leaves the channel to the runtime alone, the builder and what
\* is answered.
LEMMA QuietStep ==
  ASSUME UNCHANGED runtimeVars, LinkUp' = LinkUp, Submitted' = Submitted,
         frames'[Here] = frames[Here], seen'[Here] = seen[Here],
         P!Held' = P!Held, Waiting' = Waiting,
         UNCHANGED <<builder, job, Blocks>>, BlockPending' = BlockPending
  PROVE  UNCHANGED R!vars
<1>1. OnTheWay' = OnTheWay
  BY DEF OnTheWay
<1>2. AnswerDue' = AnswerDue
  BY DEF AnswerDue
<1>3. Replied' = Replied
  BY <1>2, RepliedIs, RepliedIsNext DEF Owed
<1>4. BlocksKnown' = BlocksKnown
  BY DEF BlocksKnown
<1> QED
  BY <1>1, <1>3, <1>4, Quiet

\* The types of what the runtime sees.
LEMMA SysTypes ==
  ASSUME SysInv
  PROVE  /\ link \in [Conn -> {"idle", "open", "closed"}]
         /\ origin \in [Message -> Conn \cup {None}]
         /\ handler \in [Conn -> {"idle", "append", "done"}]
         /\ reader \in [Conn -> {"off", "read", "done"} \cup P!Deciding]
         /\ msg \in [Conn -> Message \cup {None}]
         /\ \A c \in Conn : reader[c] \in P!Deciding => msg[c] \in Message
         /\ allTransactions \in Seq(Message) /\ todo \in Seq(Conn)
         /\ Blocks \in Seq(Seq(Message))
         /\ builder \in {"idle", "block", "cast"}
         /\ builder # "idle" => job \in P!Job
         /\ frames \in [Conn -> Seq(P!Frame)]
         /\ seen \in [Conn -> Nat]
         /\ \A c \in Conn : seen[c] \in 0 .. Len(frames[c])
         /\ Here \in Conn
<1>1. \A c \in Conn : seen[c] \in 0 .. Len(frames[c])
  <2> TAKE c \in Conn
  <2>1. /\ seen[c] \in Nat /\ written[c] \in Nat /\ taken[c] \in Nat
        /\ seen[c] <= written[c] /\ taken[c] \in written[c] .. written[c] + 1
        /\ Len(frames[c]) \in taken[c] .. taken[c] + SendCap
    BY DEF SysInv, P!TypeOK, P!ChannelTypes
  <2> QED
    BY <2>1, SystemAssumption
<1> QED
  BY <1>1, SystemAssumption
  DEF SysInv, P!TypeOK, P!NetTypes, P!HandlerTypes, P!ReaderTypes, P!BuilderTypes, P!ChannelTypes

LEMMA AcceptQuiet ==
  ASSUME SysInv, UNCHANGED runtimeVars, NEW c \in Conn, P!Accept(c)
  PROVE  UNCHANGED R!vars
<1>1. /\ link[c] = "idle" /\ link' = [link EXCEPT ![c] = "open"]
      /\ handler' = [handler EXCEPT ![c] = "append"]
      /\ UNCHANGED <<origin, seen, reader, msg, allTransactions, builder, job, todo, Blocks, frames>>
  BY DEF P!Accept, P!readerVars, P!builderVars
<1>2. handler[c] # "done"
  BY <1>1 DEF SysInv, P!LogInv, P!SafetyInv, P!MutexInv
<1>3. LinkUp' = LinkUp /\ Submitted' = Submitted /\ BlockPending' = BlockPending
  BY <1>1, <1>2, SysTypes DEF LinkUp, Submitted, BlockPending, O!Elems
<1>4. P!Held' = P!Held
  BY <1>1, P!HeldUnchanged, ServiceAssumption
<1>5. Waiting' = Waiting
  BY <1>1 DEF Waiting
<1> QED
  BY <1>1, <1>3, <1>4, <1>5, QuietStep

\* A pump that reads, fails to read, or unlocks.
LEMMA PumpQuiet ==
  ASSUME SysInv, UNCHANGED runtimeVars,
         NEW c \in Conn, P!ReadMessage(c) \/ P!ReadError(c) \/ P!Unlock(c)
  PROVE  UNCHANGED R!vars
<1>1. /\ UNCHANGED <<link, origin, seen, handler, builder, job, todo, Blocks, frames>>
      /\ \A d \in Conn \ {c} : reader'[d] = reader[d] /\ msg'[d] = msg[d]
      /\ reader[c] \notin {"block", "ack"} /\ reader'[c] \notin {"block", "ack"}
  BY SysTypes DEF P!ReadMessage, P!ReadError, P!Unlock, P!netVars, P!handlerVars, P!builderVars
<1>2. LinkUp' = LinkUp /\ Submitted' = Submitted /\ BlockPending' = BlockPending
  BY <1>1 DEF LinkUp, Submitted, BlockPending, O!Elems
<1>3. P!Held' = P!Held
  <2>1. CASE P!Unlock(c)
    BY <2>1, P!HeldUnlock, ServiceAssumption DEF SysInv, P!LogInv, P!SafetyInv
  <2>2. CASE P!ReadMessage(c) \/ P!ReadError(c)
    BY <2>2, P!HeldUnchanged, ServiceAssumption
    DEF P!ReadMessage, P!ReadError, P!builderVars
  <2> QED
    BY <2>1, <2>2
<1>4. Waiting' = Waiting
  BY <1>1 DEF Waiting
<1> QED
  BY <1>1, <1>2, <1>3, <1>4, QuietStep

\* The write pumps, and the runtimes behind other connections.
LEMMA OtherQuiet ==
  ASSUME SysInv, UNCHANGED runtimeVars, NEW c \in Conn,
         \/ P!Take(c) \/ P!Write(c)
         \/ c # Here /\ (P!Receive(c) \/ P!Disconnect(c) \/ \E m \in Foreign : P!Submit(c, m))
  PROVE  UNCHANGED R!vars
<1>1. /\ UNCHANGED <<handler, reader, msg, allTransactions, builder, job, todo, Blocks, frames>>
      /\ link'[Here] = link[Here] /\ seen'[Here] = seen[Here]
      /\ \A r \in Request : origin'[r] = origin[r]
  BY SysTypes, SystemAssumption
  DEF P!Take, P!Write, P!Receive, P!Disconnect, P!Submit, Foreign,
      P!netVars, P!handlerVars, P!readerVars, P!builderVars
<1>2. LinkUp' = LinkUp /\ Submitted' = Submitted /\ BlockPending' = BlockPending
  BY <1>1 DEF LinkUp, Submitted, BlockPending, O!Elems
<1>3. P!Held' = P!Held
  BY <1>1, P!HeldUnchanged, ServiceAssumption
<1>4. Waiting' = Waiting
  BY <1>1 DEF Waiting
<1> QED
  BY <1>1, <1>2, <1>3, <1>4, QuietStep

\* A message comes into the pool and waits to be handed over at once.
LEMMA PoolQuiet ==
  ASSUME SysInv, UNCHANGED runtimeVars, NEW c \in Conn, P!Pool(c)
  PROVE  UNCHANGED R!vars
<1>1. /\ UNCHANGED <<link, origin, seen, handler, msg, builder, job, todo, Blocks, frames>>
      /\ \A d \in Conn \ {c} : reader'[d] = reader[d]
      /\ reader[c] = "lock" /\ reader'[c] \in {"block", "ack"}
  BY SysTypes DEF P!Pool, P!netVars, P!handlerVars, P!builderVars
<1>2. LinkUp' = LinkUp /\ Submitted' = Submitted /\ BlockPending' = BlockPending
  BY <1>1 DEF LinkUp, Submitted, BlockPending, O!Elems
<1>3. P!Held' = P!Held \cup {msg[c]} /\ msg[c] \notin P!Held
  BY <1>1, P!HeldPool, ServiceAssumption
  DEF SysInv, P!LogInv, P!SafetyInv, P!WaitingInv, P!Unpooled
<1>4. Waiting' = Waiting \cup {msg[c]}
  BY <1>1 DEF Waiting
<1>5. Owed' = Owed
  BY <1>1, <1>2 DEF Owed, AnswerDue
<1>6. Replied' = Replied
  BY <1>3, <1>4, <1>5, RepliedIs, RepliedIsNext
<1>7. OnTheWay' = OnTheWay /\ BlocksKnown' = BlocksKnown
  BY <1>1, <1>2 DEF OnTheWay, BlocksKnown
<1> QED
  BY <1>2, <1>6, <1>7, Quiet

\* What a ReadPump waited to hand over the builder now owes an answer to.
LEMMA HandOverQuiet ==
  ASSUME SysInv, UNCHANGED runtimeVars, NEW c \in Conn, P!HandOver(c)
  PROVE  UNCHANGED R!vars
<1>1. /\ UNCHANGED <<link, origin, seen, handler, msg, Blocks, frames>>
      /\ \A d \in Conn \ {c} : reader'[d] = reader[d]
      /\ reader[c] \in {"block", "ack"} /\ reader'[c] \notin {"block", "ack"}
      /\ builder = "idle" /\ job'.id = msg[c]
      /\ builder' = "block" \/ (builder' = "cast" /\ ~job'.broadcast)
  <2>1. reader \in [Conn -> {"off", "read", "done"} \cup P!Deciding]
    BY SysTypes
  <2>2. CASE reader[c] = "block"
    BY <2>1, <2>2 DEF P!HandOver, P!netVars, P!handlerVars
  <2>3. CASE reader[c] = "ack"
    BY <2>1, <2>3 DEF P!HandOver, P!netVars, P!handlerVars
  <2> QED
    BY <2>2, <2>3 DEF P!HandOver
<1>2. LinkUp' = LinkUp /\ Submitted' = Submitted /\ ~BlockPending' /\ ~BlockPending
  BY <1>1 DEF LinkUp, Submitted, BlockPending
<1>3. P!Held' = P!Held
  BY P!HeldHandOver, ServiceAssumption
<1>4. Waiting = Waiting' \cup {msg[c]}
  BY <1>1 DEF Waiting
<1>5. Owed = {} /\ Owed' = {msg[c]}
  BY <1>1 DEF Owed, AnswerDue
<1>6. Replied' = Replied
  BY <1>3, <1>4, <1>5, RepliedIs, RepliedIsNext
<1>7. OnTheWay' = OnTheWay /\ BlocksKnown' = BlocksKnown
  BY <1>1, <1>2 DEF OnTheWay, BlocksKnown
<1> QED
  BY <1>2, <1>6, <1>7, Quiet

-----------------------------------------------------------------------------
(***************************************************************************)
(* The steps that answer a message.                                        *)
(***************************************************************************)
LEMMA SameCardinality == P!Cardinality(Conn) = Cardinality(Conn)
  BY DEF P!Cardinality, Cardinality

LEMMA BoundType ==
  Cardinality(Conn) * (BlockSize - 1) \in Nat
<1>1. Cardinality(Conn) \in Nat
  BY SystemAssumption, FS_CardinalityType
<1>2. BlockSize - 1 \in Nat
  BY SystemAssumption
<1> QED
  BY <1>1, <1>2

\* A message of the chain's end: what the builder has is not in the blocks the
\* runtime knows of, all but its last message were answered, and that one is
\* answered as soon as the block is known.
Due == builder = "block" \/ BlockPending

LEMMA DueFrom ==
  ASSUME SysInv, Due
  PROVE  /\ job \in P!Job /\ job.txs \in Seq(Message) /\ job.id \in Message /\ job.broadcast
         /\ AnswerDue /\ Owed = {job.id}
         /\ job.id \in Foreign \cup Submitted
         /\ job.id \in P!Held /\ job.id \notin Waiting
<1>1. job \in P!Job /\ job.broadcast /\ builder \in {"block", "cast"}
  BY SysTypes DEF Due, BlockPending, SysInv, P!LogInv, P!SafetyInv, P!ChainInv
<1>2. job.txs \in Seq(Message) /\ job.id \in Message
  BY <1>1 DEF P!Job
<1>3. AnswerDue /\ Owed = {job.id}
  BY DEF AnswerDue, Owed, Due, BlockPending
<1>4. origin[job.id] # None /\ job.id \in P!Held
  BY <1>1 DEF SysInv, P!LogInv, P!ReplyInv, P!Answering, P!SafetyInv, P!AnswerInv
<1>5. job.id \notin Waiting
  BY <1>1 DEF SysInv, P!LogInv, P!ReplyInv, P!Answering, P!Unanswered, Waiting
<1> QED
  BY <1>1, <1>2, <1>3, <1>4, <1>5 DEF Foreign, Submitted

LEMMA DueBlock ==
  ASSUME SysInv, Due
  PROVE  /\ job.txs # <<>> /\ job.id = job.txs[Len(job.txs)]
         /\ Len(job.txs) <= Cardinality(Conn) * (BlockSize - 1) + 1
         /\ P!Distinct(job.txs)
         /\ P!Elems(job.txs) \subseteq P!Held
         /\ P!Elems(job.txs) \cap Waiting = {}
         /\ P!Elems(job.txs) \cap R!Logged = {}
<1> DEFINE s == job.txs
           bound == Cardinality(Conn) * (BlockSize - 1) + 1
<1>1. s \in Seq(Message) /\ Blocks \in Seq(Seq(Message)) /\ bound \in Nat
  BY DueFrom, SysTypes, BoundType
<1>2. R!Logged = P!CommittedBy(BlocksKnown)
  BY DEF R!Logged, P!CommittedBy, P!Elems
<1>3. P!Committed = P!CommittedBy(Blocks)
  BY DEF P!Committed, P!CommittedBy
<1>4. P!Elems(s) \subseteq P!Making \cup P!Committed
      => P!Elems(s) \cap Waiting = {}
  <2>1. ASSUME NEW c \in Conn, reader[c] \in {"block", "ack"}
        PROVE  /\ msg[c] \in P!Elems(allTransactions)
               /\ P!Elems(allTransactions) \cap (P!Making \cup P!Committed) = {}
    <3>1. ~P!Resetting
      BY <2>1, SystemAssumption
      DEF SysInv, P!LogInv, P!SafetyInv, P!MutexInv, P!Holding, P!Resetting
    <3> QED
      BY <2>1, <3>1 DEF SysInv, P!LogInv, P!SafetyInv, P!AnswerInv, P!PlaceInv
  <2> QED
    BY <2>1 DEF Waiting
<1>5. CASE builder = "block"
  <2>1. P!Making = P!Elems(s) /\ ~BlockPending /\ BlocksKnown = Blocks
    BY <1>5 DEF P!Making, BlockPending, BlocksKnown
  <2>2. P!Distinct(s) /\ P!Making \cap P!Committed = {}
    BY <1>5 DEF SysInv, P!LogInv, P!SafetyInv, P!PlaceInv
  <2>3. s # <<>> /\ job.id = s[Len(s)]
    BY <1>5 DEF SysInv, P!LogInv, P!NameInv, P!LastOf
  <2>4. Len(s) <= bound
    BY <1>1, <1>5, SameCardinality DEF SysInv, P!LogInv, P!LengthInv, P!InBound
  <2>5. P!Elems(s) \subseteq P!Held
    BY <2>1 DEF P!Held
  <2> QED
    BY <1>2, <1>3, <1>4, <2>1, <2>2, <2>3, <2>4, <2>5
<1>6. CASE builder # "block"
  <2>1. builder = "cast" /\ job.broadcast /\ BlockPending
    BY <1>6 DEF Due, BlockPending
  <2>2. Len(Blocks) \in DOMAIN Blocks /\ s = Blocks[Len(Blocks)]
    BY <2>1 DEF SysInv, P!LogInv, P!SafetyInv, P!ChainInv
  <2>3. P!CommittedOnce
    BY DEF SysInv, P!LogInv, P!SafetyInv, P!PlaceInv
  <2>4. P!Distinct(s)
    BY <2>2, <2>3 DEF P!CommittedOnce, P!Distinct
  <2>5. Len(s) \in 1 .. P!Cardinality(Conn) * (BlockSize - 1) + 1
    BY <2>2 DEF SysInv, P!LogInv, P!LengthInv, P!BlockBound
  <2>6. s # <<>> /\ Len(s) <= bound
    BY <1>1, <2>5, SameCardinality
  <2>7. job.id = s[Len(s)]
    BY <2>1, <2>2 DEF SysInv, P!LogInv, P!NameInv, P!LastOf
  <2>8. P!Elems(s) \subseteq P!Committed
    BY <2>2 DEF P!Committed
  <2>9. BlocksKnown = FrontOf(Blocks)
    BY <1>1, <2>1, <2>2, FrontIs DEF BlocksKnown
  <2>10. P!Elems(s) \cap P!CommittedBy(BlocksKnown) = {}
    <3>1. ASSUME NEW b \in DOMAIN BlocksKnown, NEW i \in DOMAIN BlocksKnown[b], NEW j \in DOMAIN s
          PROVE  BlocksKnown[b][i] # s[j]
      <4>1. b \in DOMAIN Blocks /\ BlocksKnown[b] = Blocks[b] /\ b # Len(Blocks)
        BY <1>1, <2>9 DEF FrontOf
      <4> QED
        BY <2>2, <2>3, <4>1 DEF P!CommittedOnce
    <3> QED
      BY <3>1 DEF P!CommittedBy, P!Elems
  <2>11. P!Elems(s) \subseteq P!Held
    BY <2>8 DEF P!Held
  <2> QED
    BY <1>2, <1>4, <2>4, <2>6, <2>7, <2>8, <2>10, <2>11
<1> QED
  BY <1>5, <1>6

LEMMA DueMade ==
  ASSUME SysInv, Due, UNCHANGED runtimeVars, LinkUp' = LinkUp, Submitted' = Submitted,
         P!Held' = P!Held, Waiting' = Waiting, ~AnswerDue',
         BlocksKnown' = Append(BlocksKnown, job.txs),
         \/ OnTheWay' = OnTheWay
         \/ OnTheWay' = Append(OnTheWay, [txs |-> job.txs, ack |-> FALSE, id |-> job.id])
  PROVE  R!Next
<1> DEFINE s == job.txs
           t == s[Len(s)]
<1>1. s \in Seq(Message) /\ s # <<>> /\ job.id = t /\ t \in Foreign \cup Submitted
  BY DueFrom, DueBlock
<1>2. Replied = P!Held \ (Waiting \cup {t})
  BY <1>1, DueFrom, RepliedIs
<1>3. Replied' = P!Held \ Waiting
  BY RepliedIsNext DEF Owed
<1>4. t \notin Replied /\ Replied' = Replied \cup {t}
  BY <1>1, <1>2, <1>3, DueFrom
<1>5. DOMAIN s = 1 .. Len(s) /\ Len(s) \in Nat
  BY <1>1
<1>6. \A i \in 1 .. Len(s) - 1 : s[i] \in Replied /\ s[i] \notin R!Logged
  <2> TAKE i \in 1 .. Len(s) - 1
  <2>1. i \in DOMAIN s /\ Len(s) \in DOMAIN s /\ i # Len(s)
    BY <1>1, <1>5
  <2>2. s[i] \in P!Elems(s) /\ s[i] # t
    BY <2>1, DueBlock DEF P!Elems, P!Distinct
  <2> QED
    BY <1>2, <2>2, DueBlock
<1>7. \A i, j \in DOMAIN s : s[i] = s[j] => i = j
  BY DueBlock DEF P!Distinct
<1>8. Len(s) <= Cardinality(Conn) * (BlockSize - 1) + 1
  BY DueBlock
<1>9. \/ OnTheWay' = OnTheWay
      \/ OnTheWay' = Append(OnTheWay, [txs |-> s, ack |-> FALSE, id |-> t])
  BY <1>1
<1>10. BlocksKnown' = Append(BlocksKnown, s)
  OBVIOUS
<1> HIDE DEF s
<1> QED
  BY <1>1, <1>4, <1>6, <1>7, <1>8, <1>9, <1>10, BoundType, BlockKnown

\* The broadcast comes to the runtime, or ends before.
LEMMA BlockMade ==
  ASSUME SysInv, BlockPending, ~BlockPending', UNCHANGED <<runtimeVars, Blocks>>,
         LinkUp' = LinkUp, Submitted' = Submitted,
         P!Held' = P!Held, Waiting' = Waiting,
         builder' = "idle" \/ (builder' = "cast" /\ job'.broadcast),
         \/ OnTheWay' = OnTheWay
         \/ OnTheWay' = Append(OnTheWay, [txs |-> job.txs, ack |-> FALSE, id |-> job.id])
  PROVE  R!Next
<1>1. Due /\ builder = "cast" /\ job.broadcast
  BY DEF Due, BlockPending
<1>2. Len(Blocks) \in DOMAIN Blocks /\ job.txs = Blocks[Len(Blocks)]
  BY <1>1 DEF SysInv, P!LogInv, P!SafetyInv, P!ChainInv
<1>3. Blocks \in Seq(Seq(Message)) /\ Blocks # <<>>
  BY <1>2, SysTypes
<1>4. Append(Front(Blocks), job.txs) = Blocks
  BY <1>2, <1>3, FrontIs
<1>5. BlocksKnown' = Append(BlocksKnown, job.txs)
  BY <1>4 DEF BlocksKnown
<1>6. ~AnswerDue'
  BY DEF AnswerDue
<1> QED
  BY <1>1, <1>5, <1>6, DueMade

\* A handler that registers may write over the runtime's place in the slice a
\* broadcast ranges over.
LEMMA RegisterFits ==
  ASSUME SysInv, UNCHANGED runtimeVars, NEW c \in Conn, P!Register(c)
  PROVE  [R!Next]_R!vars
<1>1. /\ UNCHANGED <<link, origin, seen, msg, allTransactions, builder, job, Blocks, frames>>
      /\ handler' = [handler EXCEPT ![c] = "done"] /\ handler[c] = "append"
      /\ reader' = [reader EXCEPT ![c] = "read"]
      /\ todo' \in IF builder = "cast" /\ job.broadcast THEN P!Overwritten(todo, c) ELSE {todo}
  BY DEF P!Register, P!netVars
<1>2. LinkUp' = LinkUp /\ Submitted' = Submitted
  BY <1>1 DEF LinkUp, Submitted
<1>3. P!Held' = P!Held
  BY <1>1, P!HeldUnchanged, ServiceAssumption
<1>4. Waiting' = Waiting
  <2>1. reader[c] = "off"
    BY <1>1 DEF SysInv, P!LogInv, P!SafetyInv, P!MutexInv
  <2> QED
    BY <1>1, <2>1, SysTypes DEF Waiting
<1>5. BlockPending' => BlockPending
  <2>1. ASSUME builder = "cast" /\ job.broadcast, c # Here, Here \in O!Elems(todo')
        PROVE  Here \in O!Elems(todo)
    <3>1. PICK i \in DOMAIN todo' : todo'[i] = Here
      BY <2>1 DEF O!Elems
    <3>2. CASE todo' = todo
      BY <2>1, <3>2
    <3>3. ASSUME NEW k \in DOMAIN todo, todo' = [todo EXCEPT ![k] = c]
          PROVE  Here \in O!Elems(todo)
      <4>1. todo \in Seq(Conn) /\ k \in 1 .. Len(todo) /\ DOMAIN todo = 1 .. Len(todo)
        BY <3>3, SysTypes
      <4>2. DOMAIN todo' = DOMAIN todo /\ (i = k => todo'[i] = c) /\ (i # k => todo'[i] = todo[i])
        BY <3>1, <3>3, <4>1
      <4> QED
        BY <2>1, <3>1, <4>2 DEF O!Elems
    <3> QED
      BY <1>1, <2>1, <3>2, <3>3 DEF P!Overwritten
  <2> QED
    BY <1>1, <2>1, SysTypes DEF BlockPending, O!Elems
<1>6. OnTheWay' = OnTheWay
  BY <1>1 DEF OnTheWay
<1>7. CASE BlockPending' = BlockPending
  BY <1>1, <1>2, <1>3, <1>4, <1>7, QuietStep
<1>8. CASE BlockPending /\ ~BlockPending'
  <2>1. builder' = "cast" /\ job'.broadcast
    BY <1>1, <1>8 DEF BlockPending
  <2> QED
    BY <1>1, <1>2, <1>3, <1>4, <1>6, <1>8, <2>1, BlockMade
<1> QED
  BY <1>5, <1>7, <1>8 DEF BlockPending

\* A block is in the chain: the runtime knows at once if no broadcast will
\* come to it.
LEMMA AddBlockFits ==
  ASSUME SysInv, UNCHANGED runtimeVars, P!AddBlock
  PROVE  [R!Next]_R!vars
<1>1. /\ UNCHANGED <<link, origin, seen, handler, msg, reader, job, frames>>
      /\ builder = "block" /\ builder' = "cast" /\ Blocks' = Append(Blocks, job.txs)
  BY DEF P!AddBlock, P!netVars, P!handlerVars, P!readerVars
<1>2. LinkUp' = LinkUp /\ Submitted' = Submitted /\ Waiting' = Waiting /\ OnTheWay' = OnTheWay
  BY <1>1 DEF LinkUp, Submitted, Waiting, OnTheWay
<1>3. P!Held' = P!Held
  BY P!HeldAddBlock, ServiceAssumption DEF SysInv
<1>4. Due /\ BlocksKnown = Blocks
  BY <1>1 DEF Due, BlocksKnown, BlockPending
<1>5. job.broadcast /\ job.txs \in Seq(Message) /\ Owed = {job.id}
  BY <1>4, DueFrom
<1>6. CASE BlockPending'
  <2>1. Blocks \in Seq(Seq(Message))
    BY SysTypes
  <2>2. BlocksKnown' = BlocksKnown
    BY <1>1, <1>4, <1>5, <1>6, <2>1, FrontAppend DEF BlocksKnown
  <2>3. Owed' = Owed
    BY <1>1, <1>5, <1>6 DEF Owed, AnswerDue
  <2>4. Replied' = Replied
    BY <1>2, <1>3, <2>3, RepliedIs, RepliedIsNext
  <2> QED
    BY <1>2, <2>2, <2>4, Quiet
<1>7. CASE ~BlockPending'
  <2>1. BlocksKnown' = Append(BlocksKnown, job.txs)
    BY <1>1, <1>4, <1>7 DEF BlocksKnown
  <2>2. ~AnswerDue'
    BY <1>1, <1>5, <1>7 DEF AnswerDue
  <2> QED
    BY <1>2, <1>3, <1>4, <2>1, <2>2, DueMade
<1> QED
  BY <1>6, <1>7

\* A round of a broadcast: the frame goes to the runtime or to another, or
\* the call ends.
LEMMA BroadcastFits ==
  ASSUME SysInv, UNCHANGED runtimeVars, P!Cast, job.broadcast
  PROVE  [R!Next]_R!vars
<1>1. /\ UNCHANGED <<link, origin, seen, handler, msg, reader, Blocks>>
      /\ builder = "cast"
      /\ \/ builder' = "idle" /\ todo' = <<>>
         \/ UNCHANGED <<builder, job>>
  BY DEF P!Cast, P!netVars, P!handlerVars, P!readerVars
<1>2. LinkUp' = LinkUp /\ Submitted' = Submitted /\ Waiting' = Waiting
  BY <1>1 DEF LinkUp, Submitted, Waiting
<1>3. P!Held' = P!Held
  BY P!HeldCast, ServiceAssumption
<1>4. builder' = "idle" \/ (builder' = "cast" /\ job'.broadcast)
  BY <1>1
<1>5. todo \in Seq(Conn) /\ job \in P!Job /\ frames \in [Conn -> Seq(P!Frame)]
  BY <1>1, SysTypes
<1>6. ASSUME todo # <<>>, Head(todo) = Here, P!HasRoom(Here)
      PROVE  [R!Next]_R!vars
  <2>1. /\ frames' = [frames EXCEPT ![Here] = Append(@, P!FrameOf(job, Len(Blocks)))]
        /\ todo' = Tail(todo)
    BY <1>6 DEF P!Cast
  <2>2. Here \in P!Elems(todo)
    BY <1>5, <1>6 DEF P!Elems
  <2>3. BlockPending
    BY <1>1, <2>2 DEF BlockPending, O!Elems, P!Elems
  <2>4. P!Registered(todo)
    BY DEF SysInv, P!LogInv, P!SafetyInv, P!RegistryInv
  <2>5. handler[Here] = "done" /\ Here \notin P!Elems(todo')
    BY <1>5, <1>6, <2>1, <2>4, P!DistinctTail, ServiceAssumption DEF P!Registered
  <2>6. ~BlockPending'
    BY <1>1, <2>5 DEF BlockPending, O!Elems, P!Elems
  <2>7. P!FrameOf(job, Len(Blocks)) \in P!Frame
    <3>1. Len(Blocks) \in Nat
      BY SysTypes
    <3> QED
      BY <1>5, <3>1 DEF P!FrameOf, P!Frame, P!Job
  <2>8. frames'[Here] = Append(frames[Here], P!FrameOf(job, Len(Blocks)))
        /\ frames[Here] \in Seq(P!Frame) /\ seen[Here] \in 0 .. Len(frames[Here])
    BY <1>5, <2>1, SysTypes
  <2>9. OnTheWay' = Append(OnTheWay, Told(P!FrameOf(job, Len(Blocks))))
    <3>1. OnTheWay' = Ahead(frames'[Here], seen[Here])
      BY <1>1 DEF OnTheWay, Ahead
    <3> QED
      BY <2>7, <2>8, <3>1, OnTheWayIs, AheadAppend
  <2>10. Told(P!FrameOf(job, Len(Blocks))) = [txs |-> job.txs, ack |-> FALSE, id |-> job.id]
    BY DEF Told, P!FrameOf
  <2> QED
    BY <1>1, <1>2, <1>3, <1>4, <2>3, <2>6, <2>9, <2>10, BlockMade
<1>7. ASSUME ~(todo # <<>> /\ Head(todo) = Here /\ P!HasRoom(Here))
      PROVE  [R!Next]_R!vars
  <2>1. frames'[Here] = frames[Here]
    BY <1>5, <1>7, SystemAssumption DEF P!Cast
  <2>2. OnTheWay' = OnTheWay
    BY <1>1, <2>1 DEF OnTheWay
  <2>3. CASE BlockPending /\ ~BlockPending'
    BY <1>1, <1>2, <1>3, <1>4, <2>2, <2>3, BlockMade
  <2>4. CASE ~BlockPending
    <3>1. ~BlockPending'
      <4>1. handler[Here] = "done" /\ Here \notin P!Elems(todo)
        BY <1>1, <2>4 DEF BlockPending, O!Elems, P!Elems
      <4>2. P!Elems(todo') \subseteq P!Elems(todo)
        <5>1. CASE todo # <<>> /\ todo' = Tail(todo)
          BY <1>5, <5>1, P!ElemsTail, ServiceAssumption
        <5>2. CASE todo' = <<>>
          BY <5>2, P!ElemsEmpty, ServiceAssumption
        <5> QED
          BY <5>1, <5>2 DEF P!Cast
      <4> QED
        BY <1>1, <4>1, <4>2 DEF BlockPending, O!Elems, P!Elems
    <3>2. Owed' = Owed /\ BlocksKnown' = BlocksKnown
      BY <1>1, <1>4, <2>4, <3>1 DEF Owed, AnswerDue, BlocksKnown
    <3>3. Replied' = Replied
      BY <1>2, <1>3, <3>2, RepliedIs, RepliedIsNext
    <3> QED
      BY <1>2, <2>2, <3>2, <3>3, Quiet
  <2>5. CASE BlockPending /\ BlockPending'
    <3>1. UNCHANGED <<builder, job>>
      BY <1>1, <2>5 DEF BlockPending
    <3> QED
      BY <1>1, <1>2, <1>3, <2>1, <2>5, <3>1, QuietStep
  <2> QED
    BY <2>3, <2>4, <2>5
<1> QED
  BY <1>6, <1>7

\* An ack is put into the channel of the connection the message came on, or
\* dropped.
LEMMA AckFits ==
  ASSUME SysInv, UNCHANGED runtimeVars, P!Cast, ~job.broadcast
  PROVE  [R!Next]_R!vars
<1> DEFINE t == job.id
<1>1. /\ UNCHANGED <<link, origin, seen, handler, msg, reader, Blocks>> /\ builder = "cast"
  BY DEF P!Cast, P!netVars, P!handlerVars, P!readerVars
<1>2. LinkUp' = LinkUp /\ Submitted' = Submitted /\ Waiting' = Waiting
  BY <1>1 DEF LinkUp, Submitted, Waiting
<1>3. P!Held' = P!Held
  BY P!HeldCast, ServiceAssumption
<1>4. /\ todo \in Seq(Conn) /\ job \in P!Job /\ t \in Message
      /\ frames \in [Conn -> Seq(P!Frame)] /\ Blocks \in Seq(Seq(Message))
  BY <1>1, SysTypes DEF P!Job
<1>5. \A k \in DOMAIN todo : todo[k] = origin[t]
  BY <1>1 DEF SysInv, P!LogInv, P!ReplyInv
<1>6. builder' = "idle" /\ (todo = <<>> \/ Head(todo) = origin[t])
  <2>1. P!Distinct(todo)
    BY DEF SysInv, P!LogInv, P!SafetyInv, P!RegistryInv, P!Registered
  <2>2. Len(todo) <= 1
    <3>1. ASSUME Len(todo) > 1 PROVE FALSE
      <4>1. 1 \in DOMAIN todo /\ 2 \in DOMAIN todo
        BY <1>4, <3>1
      <4> QED
        BY <1>5, <2>1, <4>1 DEF P!Distinct
    <3> QED
      BY <1>4, <3>1
  <2>3. todo # <<>> => 1 \in DOMAIN todo /\ Head(todo) = todo[1]
    BY <1>4
  <2>4. todo # <<>> => Tail(todo) = <<>>
    BY <1>4, <2>2
  <2>5. todo' = <<>>
    BY <2>4 DEF P!Cast
  <2> QED
    BY <1>5, <2>3, <2>5 DEF P!Cast
<1>7. /\ t \in Foreign \cup Submitted /\ t \in P!Held /\ t \notin Waiting
      /\ (t \in Request <=> origin[t] = Here)
  <2>1. origin[t] # None /\ t \in P!Held
    BY <1>1 DEF SysInv, P!LogInv, P!ReplyInv, P!Answering, P!SafetyInv, P!AnswerInv
  <2>2. t \notin Waiting
    BY <1>1 DEF SysInv, P!LogInv, P!ReplyInv, P!Answering, P!Unanswered, Waiting
  <2>3. t \in Request <=> origin[t] = Here
    BY <1>4, <2>1 DEF SysInv, OwnInv
  <2> QED
    BY <1>4, <2>1, <2>2, <2>3 DEF Foreign, Submitted
<1>8. t \notin Replied /\ Replied' = Replied \cup {t}
  <2>1. Owed = {t} /\ Owed' = {}
    BY <1>1, <1>6 DEF Owed, AnswerDue
  <2> QED
    BY <1>2, <1>3, <1>7, <2>1, RepliedIs, RepliedIsNext
<1>9. BlocksKnown' = BlocksKnown
  BY <1>1, <1>6 DEF BlocksKnown, BlockPending
<1>10. CASE todo # <<>> /\ Head(todo) = Here /\ P!HasRoom(Here)
  <2>1. frames' = [frames EXCEPT ![Here] = Append(@, P!FrameOf(job, Len(Blocks)))]
    BY <1>10 DEF P!Cast
  <2>2. P!FrameOf(job, Len(Blocks)) = [txs |-> job.txs, ack |-> TRUE, id |-> t, at |-> 0]
    BY <1>4 DEF P!FrameOf, P!Job
  <2>3. job.txs = <<>>
    BY <1>1 DEF SysInv, AckInv
  <2>4. P!FrameOf(job, Len(Blocks)) \in P!Frame
    BY <1>4, <2>2, <2>3 DEF P!Frame
  <2>5. Told(P!FrameOf(job, Len(Blocks))) = [txs |-> <<>>, ack |-> TRUE, id |-> t]
    BY <2>2, <2>3 DEF Told
  <2>6. frames'[Here] = Append(frames[Here], P!FrameOf(job, Len(Blocks)))
        /\ frames[Here] \in Seq(P!Frame) /\ seen[Here] \in 0 .. Len(frames[Here])
    BY <1>4, <2>1, SysTypes
  <2>7. OnTheWay' = Append(OnTheWay, [txs |-> <<>>, ack |-> TRUE, id |-> t])
    <3>1. OnTheWay' = Ahead(frames'[Here], seen[Here])
      BY <1>1 DEF OnTheWay, Ahead
    <3> QED
      BY <2>4, <2>5, <2>6, <3>1, OnTheWayIs, AheadAppend
  <2>8. t \in Submitted
    BY <1>6, <1>7, <1>10 DEF Foreign
  <2> QED
    BY <1>2, <1>7, <1>8, <1>9, <2>7, <2>8, AckKnown
<1>11. CASE ~(todo # <<>> /\ Head(todo) = Here /\ P!HasRoom(Here))
  <2>1. OnTheWay' = OnTheWay
    BY <1>1, <1>4, <1>11, SystemAssumption DEF OnTheWay, P!Cast
  <2> QED
    BY <1>2, <1>7, <1>8, <1>9, <2>1, AckKnown
<1> QED
  BY <1>10, <1>11

\* The runtime's connection breaks: nothing on its way arrives.
LEMMA DisconnectFits ==
  ASSUME SysInv, UNCHANGED runtimeVars, P!Disconnect(Here)
  PROVE  R!Next
<1>1. /\ UNCHANGED <<origin, seen, handler, msg, reader, allTransactions, builder, job, todo,
                     Blocks, frames>>
      /\ link[Here] = "open" /\ link' = [link EXCEPT ![Here] = "closed"]
  BY DEF P!Disconnect, P!handlerVars, P!readerVars, P!builderVars
<1>2. LinkUp /\ ~LinkUp' /\ Submitted' = Submitted /\ Waiting' = Waiting
      /\ BlockPending' = BlockPending
  BY <1>1, SysTypes DEF LinkUp, Submitted, Waiting, BlockPending, O!Elems
<1>3. P!Held' = P!Held
  BY <1>1, P!HeldUnchanged, ServiceAssumption
<1>4. Owed' = Owed /\ BlocksKnown' = BlocksKnown
  BY <1>1, <1>2 DEF Owed, AnswerDue, BlocksKnown
<1>5. Replied' = Replied
  BY <1>2, <1>3, <1>4, RepliedIs, RepliedIsNext
<1>6. 0 \in 0 .. Len(OnTheWay) /\ SubSeq(OnTheWay, 1, 0) = <<>>
  <2>1. frames[Here] \in Seq(P!Frame) /\ seen[Here] \in 0 .. Len(frames[Here])
    BY SysTypes
  <2>2. OnTheWay = [i \in 1 .. Len(frames[Here]) - seen[Here] |-> Told(frames[Here][i + seen[Here]])]
    BY <2>1, OnTheWayIs, AheadIs
  <2>3. Len(frames[Here]) - seen[Here] \in Nat
    BY <2>1
  <2>4. Len(OnTheWay) = Len(frames[Here]) - seen[Here]
    BY <2>2, <2>3
  <2> QED
    BY <2>3, <2>4
<1>7. R!Disconnect
  BY <1>2, <1>4, <1>5, <1>6
  DEF R!Disconnect, R!requestVars, R!listenerVars, R!orderingVars, runtimeVars, Replied
<1> QED
  BY <1>7 DEF R!Next

-----------------------------------------------------------------------------
(***************************************************************************)
(* The runtime: what it and the service do is what Runtime allows.         *)
(***************************************************************************)
LEMMA ServiceFits ==
  ASSUME SysInv, UNCHANGED runtimeVars, ServiceStep \/ OtherRuntimes \/ Network
  PROVE  [R!Next]_R!vars
<1>1. CASE \E c \in Conn : \/ P!Accept(c) \/ P!Register(c) \/ P!Disconnect(c)
                           \/ P!ReadMessage(c) \/ P!ReadError(c) \/ P!Pool(c)
                           \/ P!HandOver(c) \/ P!Unlock(c) \/ P!Take(c) \/ P!Write(c)
  BY <1>1, AcceptQuiet, RegisterFits, DisconnectFits, OtherQuiet, PumpQuiet, PoolQuiet,
     HandOverQuiet
<1>2. CASE \E c \in Conn \ {Here} : P!Receive(c) \/ \E m \in Foreign : P!Submit(c, m)
  BY <1>2, OtherQuiet
<1>3. CASE P!AddBlock
  BY <1>3, AddBlockFits
<1>4. CASE P!Cast
  BY <1>4, BroadcastFits, AckFits
<1> QED
  BY <1>1, <1>2, <1>3, <1>4, ServiceActions

LEMMA SameView == UNCHANGED vars => UNCHANGED R!vars
<1> SUFFICES ASSUME UNCHANGED vars
             PROVE  UNCHANGED R!vars
  OBVIOUS
<1>1. /\ UNCHANGED runtimeVars
      /\ UNCHANGED <<link, origin, seen, handler, reader, msg, allTransactions, builder, job,
                     todo, Blocks, frames>>
  BY DEF vars, serviceVars
<1>2. LinkUp' = LinkUp /\ Submitted' = Submitted /\ Waiting' = Waiting
      /\ BlockPending' = BlockPending
  BY <1>1 DEF LinkUp, Submitted, Waiting, BlockPending, O!Elems
<1>3. P!Held' = P!Held
  BY <1>1, P!HeldUnchanged, ServiceAssumption
<1> QED
  BY <1>1, <1>2, <1>3, QuietStep

LEMMA RuntimeNext == SysInv /\ [Next]_vars => [R!Next]_R!vars
<1> SUFFICES ASSUME SysInv, [Next]_vars
             PROVE  [R!Next]_R!vars
  OBVIOUS
<1>1. CASE RuntimeStep
  <2>1. CASE \E r \in Request : \/ R!Arrive(r) \/ R!Lock(r) \/ R!UseWasmFunction(r)
                                \/ R!Send(r) \/ R!TimeOut(r) \/ R!Deliver(r)
    BY <2>1 DEF R!Next, R!SetHandler
  <2>2. CASE R!Apply \/ R!ListenError \/ R!SaveBegin \/ R!SaveEnd \/ R!Match \/ R!Delete
    BY <2>2 DEF R!Next, R!Listener
  <2> QED
    BY <1>1, <2>1, <2>2 DEF RuntimeStep, Arrive, Lock, UseWasmFunction, SendFails, Apply
<1>2. CASE \E r \in Request : Send(r)
  BY <1>2 DEF Send, R!Next, R!SetHandler
<1>3. CASE ListenRead
  BY <1>3 DEF ListenRead, R!Next, R!Listener
<1>4. CASE (ServiceStep \/ OtherRuntimes \/ Network) /\ UNCHANGED <<runtimeVars, env, calls>>
  BY <1>4, ServiceFits
<1>5. CASE Idle
  BY <1>5 DEF Idle, R!Next
<1>6. CASE UNCHANGED vars
  BY <1>6, SameView
<1> QED
  BY <1>1, <1>2, <1>3, <1>4, <1>5, <1>6 DEF Next

\* What the ordering service, its channels, the other runtimes and the network
\* do to a runtime is what Runtime supposes of them: whatever is dropped,
\* overtaken or broken on the way, a runtime beside this service behaves as
\* Runtime says.
THEOREM ServiceFitsTheRuntime == Spec => ServiceFitsRuntime
<1>1. Init => R!Init
  BY DEF Init
<1> QED
  BY <1>1, RuntimeNext, SysInvariant, PTL DEF Spec, ServiceFitsRuntime, R!Spec

-----------------------------------------------------------------------------
(***************************************************************************)
(* What is proved of a runtime holds of this one.                          *)
(***************************************************************************)
Q == INSTANCE Runtime_proofs
       WITH MaxBlock <- Cardinality(Conn) * (BlockSize - 1) + 1, MaxCrashes <- 0, MaxFaults <- 0,
            crashes <- 0, faults <- 0, mu <- runtimeMu,
            link <- IF LinkUp THEN "open" ELSE "closed",
            inbox <- IF LinkUp THEN OnTheWay ELSE <<>>,
            mine <- IF LinkUp THEN Submitted ELSE {},
            sent <- Foreign \cup Submitted,
            replied <- Replied,
            log <- BlocksKnown

\* RuntimeAssumption of Runtime.
LEMMA RuntimeAssumed ==
  /\ Request \cap Foreign = {}
  /\ None \notin Q!Transaction
  /\ ClientOf = [t \in Q!Transaction |-> ClientOf[t]]
  /\ Cardinality(Conn) * (BlockSize - 1) + 1 \in Nat \ {0}
  /\ 0 \in Nat
<1>1. Q!Transaction = Message
  BY SystemAssumption DEF Q!Transaction, Foreign
<1>2. Cardinality(Conn) * (BlockSize - 1) + 1 \in Nat \ {0}
  BY BoundType
<1> QED
  BY <1>1, <1>2, SystemAssumption DEF Foreign

LEMMA SameRequests ==
  \A r \in Request : /\ R!Arrive(r) = Q!Arrive(r) /\ R!Lock(r) = Q!Lock(r)
                     /\ R!UseWasmFunction(r) = Q!UseWasmFunction(r)
                     /\ R!Send(r) = Q!Send(r) /\ R!TimeOut(r) = Q!TimeOut(r)
                     /\ R!Deliver(r) = Q!Deliver(r)
  BY DEF R!Arrive, Q!Arrive, R!Starting, Q!Starting, R!Lock, Q!Lock, R!UseWasmFunction,
     Q!UseWasmFunction, R!Send, Q!Send, R!TimeOut, Q!TimeOut, R!Deliver, Q!Deliver,
     R!requestVars, Q!requestVars, R!listenerVars, Q!listenerVars,
     R!netVars, Q!netVars, R!orderingVars, Q!orderingVars, Replied

LEMMA SameListener == R!Listener = Q!Listener
  BY DEF R!Listener, Q!Listener, R!ListenRead, Q!ListenRead, R!ListenError, Q!ListenError,
     R!Apply, Q!Apply, R!SaveBegin, Q!SaveBegin, R!SaveEnd, Q!SaveEnd, R!Match, Q!Match,
     R!Delete, Q!Delete, R!Written, Q!Written, R!IsBlock, Q!IsBlock, R!Awaited, Q!Awaited,
     R!requestVars, Q!requestVars, R!listenerVars, Q!listenerVars,
     R!netVars, Q!netVars, R!orderingVars, Q!orderingVars, Replied

LEMMA SameEnvironment ==
  /\ \A t \in Message : R!OrderingAck(t) = Q!OrderingAck(t)
                        /\ R!OrderingBlock(t) = Q!OrderingBlock(t)
  /\ R!Disconnect = Q!Disconnect
  BY DEF R!OrderingAck, Q!OrderingAck, R!OrderingBlock, Q!OrderingBlock, R!Emit, Q!Emit,
     R!Logged, Q!Logged, R!IsInjective, Q!IsInjective, R!Disconnect, Q!Disconnect,
     R!requestVars, Q!requestVars, R!listenerVars, Q!listenerVars,
     R!orderingVars, Q!orderingVars, Replied

LEMMA SameVars == (UNCHANGED R!vars) = (UNCHANGED Q!vars)
  BY DEF R!vars, Q!vars, R!requestVars, Q!requestVars, R!listenerVars, Q!listenerVars,
     R!netVars, Q!netVars, R!orderingVars, Q!orderingVars, Replied

LEMMA SameRest ==
  /\ R!Crash = Q!Crash /\ R!Start = Q!Start /\ R!Idle = Q!Idle
  /\ R!MakeFile = Q!MakeFile /\ R!MakeEnd = Q!MakeEnd
<1>1. R!Crash = Q!Crash
  BY DEF R!Crash, Q!Crash, R!Busy, Q!Busy, R!Client, Q!Client, R!Transaction, Q!Transaction,
     R!orderingVars, Q!orderingVars, Replied
<1>2. R!Start = Q!Start
  BY DEF R!Start, Q!Start, R!requestVars, Q!requestVars, R!orderingVars, Q!orderingVars, Replied
<1>3. R!Idle = Q!Idle
  BY SameVars DEF R!Idle, Q!Idle, R!Busy, Q!Busy
<1>4. R!MakeFile = Q!MakeFile /\ R!MakeEnd = Q!MakeEnd
  BY DEF R!MakeFile, Q!MakeFile, R!MakeEnd, Q!MakeEnd, R!requestVars, Q!requestVars,
     R!netVars, Q!netVars, R!orderingVars, Q!orderingVars, Replied
<1> QED
  BY <1>1, <1>2, <1>3, <1>4

LEMMA RuntimeStepIs == [R!Next]_R!vars => [Q!Next]_Q!vars
<1> SUFFICES ASSUME [R!Next]_R!vars
             PROVE  [Q!Next]_Q!vars
  OBVIOUS
<1>1. R!Transaction = Message /\ Q!Transaction = Message
  BY SystemAssumption DEF R!Transaction, Q!Transaction, Foreign
<1>2. CASE \E r \in Request : R!Arrive(r) \/ R!SetHandler(r)
  BY <1>2, SameRequests DEF R!SetHandler, Q!SetHandler, Q!Next
<1>3. CASE R!Listener
  BY <1>3, SameListener DEF Q!Next
<1>4. CASE \E t \in Message : R!OrderingAck(t) \/ R!OrderingBlock(t)
  BY <1>1, <1>4, SameEnvironment DEF Q!Next
<1>5. CASE R!Disconnect \/ R!Crash \/ R!MakeFile \/ R!MakeEnd \/ R!Start \/ R!Idle
  BY <1>5, SameEnvironment, SameRest DEF Q!Next
<1>6. CASE UNCHANGED R!vars
  BY <1>6, SameVars
<1> QED
  BY <1>1, <1>2, <1>3, <1>4, <1>5, <1>6 DEF R!Next

LEMMA RuntimeInitIs == R!Init => Q!Init
  BY DEF R!Init, Q!Init, R!Client, Q!Client, R!Transaction, Q!Transaction, Replied

LEMMA RuntimeRuns == Spec => Q!Spec
<1>1. Init => Q!Init
  BY RuntimeInitIs DEF Init
<1>2. SysInv /\ [Next]_vars => [Q!Next]_Q!vars
  BY RuntimeNext, RuntimeStepIs
<1> QED
  BY <1>1, <1>2, SysInvariant, PTL DEF Spec, Q!Spec

LEMMA RuntimeHolds == Spec => [](Q!TypeOK /\ Q!StoreFollowsLog)
<1>1. Q!Spec => []Q!TypeOK
  BY Q!RuntimeTypes, RuntimeAssumed
<1>2. Q!Spec => []Q!StoreFollowsLog
  BY Q!StoreInOrder, RuntimeAssumed
<1> QED
  BY <1>1, <1>2, RuntimeRuns, PTL

\* A client is told ACK for a request only when the service holds the
\* transaction, as long as no request of that client has timed out, whatever
\* blocks and acks are dropped and whoever completes the block.
THEOREM AcksAreHeld == Spec => []AckMeansHeld
<1>1. Q!Spec => []Q!OwnAck
  BY Q!AckBelongs, RuntimeAssumed
<1>2. Q!OwnAck => AckMeansHeld
  BY DEF Q!OwnAck, Q!Patient, AckMeansHeld, Replied
<1> QED
  BY <1>1, <1>2, RuntimeRuns, PTL

-----------------------------------------------------------------------------
(***************************************************************************)
(* What the wasm calls return and the map holds.                           *)
(***************************************************************************)
LEMMA Int32InRange ==
  ASSUME NEW x \in Int
  PROVE  Int32(x) \in I32
<1> DEFINE w == 2 * Half
           y == (x + Half) % w
<1>1. Half \in Nat \ {0} /\ w \in Nat \ {0} /\ x + Half \in Int
  BY SystemAssumption
<1> HIDE DEF w
<1>2. y \in 0 .. w - 1
  BY <1>1
<1> HIDE DEF y
<1>3. y - Half \in -Half .. Half - 1
  BY <1>1, <1>2 DEF w
<1> QED
  BY <1>3 DEF Int32, I32, y, w

LEMMA ArgumentsInRange ==
  ASSUME NEW m \in Message
  PROVE  Key(m) \in I32 /\ NewVal(m) \in I32
<1>1. KeyArg[m] \in Int /\ ValueArg[m] \in Int
  BY SystemAssumption
<1>2. Int32(ValueArg[m]) + 1 \in Int
  BY <1>1, SystemAssumption, Int32InRange DEF I32
<1> QED
  BY <1>1, <1>2, Int32InRange DEF Key, NewVal

\* The map has I32s for I32s.
EnvTypes == DOMAIN env \subseteq I32 /\ \A k \in DOMAIN env : env[k] \in I32

\* A call is in calls once the request is past the wasm function, and once.
CallTypes ==
  /\ calls \in Seq([id : Request, OldVal : I32])
  /\ \A i, j \in DOMAIN calls : calls[i].id = calls[j].id => i = j
  /\ \A i \in DOMAIN calls : pc[calls[i].id] \notin {"new", "lock", "call"}
  /\ \A r \in Request : pc[r] \in {"send", "select", "ACK", "timeout"}
                        => \E i \in DOMAIN calls : calls[i].id = r

LEMMA CallIs ==
  ASSUME CallTypes
  PROVE  /\ Len(calls) \in Nat /\ DOMAIN calls = 1 .. Len(calls)
         /\ \A i \in 1 .. Len(calls) : calls[i].id \in Request /\ calls[i].OldVal \in I32
<1> DEFINE C == [id : Request, OldVal : I32]
<1>1. calls \in Seq(C)
  BY DEF CallTypes
<1>2. \A e \in C : e.id \in Request /\ e.OldVal \in I32
  OBVIOUS
<1> HIDE DEF C
<1> QED
  BY <1>1, <1>2

LEMMA EnvNext == Q!TypeOK /\ EnvTypes /\ [Next]_vars => EnvTypes'
<1> SUFFICES ASSUME Q!TypeOK, EnvTypes, [Next]_vars
             PROVE  EnvTypes'
  OBVIOUS
<1>1. CASE UNCHANGED env
  BY <1>1 DEF EnvTypes
<1>2. CASE Apply
  <2>1. frame.txs \in Seq(Message)
    <3>1. listener = "apply"
      BY <1>2 DEF Apply, R!Apply
    <3>2. frame \in Q!Frame /\ Q!Transaction = Message
      BY <3>1, SystemAssumption DEF Q!TypeOK, Q!Starting, Q!Transaction, Foreign
    <3> QED
      BY <3>2 DEF Q!Frame
  <2>2. CASE frame.txs = <<>>
    BY <1>1, <1>2, <2>2 DEF Apply
  <2>3. CASE frame.txs # <<>>
    <3> DEFINE t == Head(frame.txs)
    <3>1. Key(t) \in I32 /\ NewVal(t) \in I32
      BY <2>1, <2>3, ArgumentsInRange
    <3>2. env' = [k \in DOMAIN env \cup {Key(t)} |-> IF k = Key(t) THEN NewVal(t) ELSE env[k]]
      BY <1>2, <2>3 DEF Apply
    <3> QED
      BY <3>1, <3>2 DEF EnvTypes
  <2> QED
    BY <2>2, <2>3
<1> QED
  BY <1>1, <1>2
  DEF Next, RuntimeStep, Arrive, Lock, UseWasmFunction, SendFails, Send, ListenRead, Idle, vars

LEMMA OldValInRange ==
  ASSUME EnvTypes, NEW m \in Message
  PROVE  OldVal(m) \in I32
<1>1. 0 \in I32
  BY SystemAssumption DEF I32
<1> QED
  BY <1>1 DEF OldVal, EnvTypes

\* The steps that neither call the wasm function nor move a request on.
LEMMA CallsKept ==
  ASSUME CallTypes, UNCHANGED calls,
         \A r \in Request :
           \/ pc'[r] = pc[r]
           \/ pc[r] = "new" /\ pc'[r] = "lock"
           \/ pc[r] = "lock" /\ pc'[r] = "call"
           \/ pc[r] \in {"send", "select"} /\ pc'[r] \notin {"new", "lock", "call"}
  PROVE  CallTypes'
<1>1. \A i \in DOMAIN calls : calls[i].id \in Request
  BY CallIs
<1> QED
  BY <1>1 DEF CallTypes

LEMMA CallNext == Q!TypeOK /\ EnvTypes /\ CallTypes /\ [Next]_vars => CallTypes'
<1> SUFFICES ASSUME Q!TypeOK, EnvTypes, CallTypes, [Next]_vars
             PROVE  CallTypes'
  OBVIOUS
<1>0. /\ pc \in [Request -> {"new"} \cup Q!Busy \cup Q!Answers] /\ None \notin Request
      /\ \A r \in Request : pc[r] = "call" => runtimeMu = r
  BY SystemAssumption DEF Q!TypeOK
<1>1. CASE UNCHANGED <<pc, calls>>
  BY <1>1, CallsKept
<1>2. ASSUME NEW r \in Request, UNCHANGED calls,
             \/ Arrive(r) \/ Lock(r) \/ SendFails(r) \/ Send(r) \/ R!TimeOut(r) \/ R!Deliver(r)
      PROVE  CallTypes'
  <2>1. \/ pc[r] = "new" /\ pc' = [pc EXCEPT ![r] = "lock"]
        \/ pc[r] = "lock" /\ pc' = [pc EXCEPT ![r] = "call"]
        \/ /\ pc[r] \in {"send", "select"}
           /\ \E a \in {"select", "error", "timeout", "ACK"} : pc' = [pc EXCEPT ![r] = a]
    BY <1>2 DEF Arrive, Lock, SendFails, Send, R!Arrive, R!Lock, R!Send, R!TimeOut, R!Deliver
  <2>2. \A q \in Request :
          \/ pc'[q] = pc[q]
          \/ pc[q] = "new" /\ pc'[q] = "lock"
          \/ pc[q] = "lock" /\ pc'[q] = "call"
          \/ pc[q] \in {"send", "select"} /\ pc'[q] \notin {"new", "lock", "call"}
    BY <1>0, <2>1
  <2> QED
    BY <1>2, <2>2, CallsKept
<1>3. ASSUME NEW r \in Request, UseWasmFunction(r) PROVE CallTypes'
  <2>1. CASE runtimeMu' = r
    <3> DEFINE e == [id |-> r, OldVal |-> OldVal(r)]
               C == [id : Request, OldVal : I32]
               n == Len(calls)
    <3>1. /\ pc[r] = "call" /\ pc' = [pc EXCEPT ![r] = "send"]
      BY <1>0, <1>3, <2>1 DEF UseWasmFunction, R!UseWasmFunction
    <3>2. calls' = Append(calls, e)
      BY <1>3, <2>1 DEF UseWasmFunction
    <3>3. e \in C
      BY SystemAssumption, OldValInRange
    <3>4. calls \in Seq(C) /\ n \in Nat /\ DOMAIN calls = 1 .. n
      BY CallIs DEF CallTypes
    <3>5. \A i \in 1 .. n : calls[i].id \in Request /\ calls[i].id # r
      BY <3>1, <3>4, CallIs DEF CallTypes
    <3>6. /\ calls' \in Seq(C) /\ DOMAIN calls' = 1 .. n + 1
          /\ \A i \in 1 .. n : calls'[i] = calls[i]
          /\ calls'[n + 1].id = r
      <4> HIDE DEF C
      <4>1. calls' \in Seq(C) /\ Len(calls') = n + 1 /\ calls'[n + 1] = e
            /\ \A i \in 1 .. n : calls'[i] = calls[i]
        BY <3>2, <3>3, <3>4, AppendProperties
      <4> QED
        BY <3>4, <4>1
    <3> HIDE DEF n, e
    <3>7. \A i \in 1 .. n + 1 : i \in 1 .. n \/ i = n + 1
      BY <3>4
    <3>8. n + 1 \in 1 .. n + 1 /\ 1 .. n \subseteq 1 .. n + 1
      BY <3>4
    <3>9. \A i, j \in 1 .. n + 1 : calls'[i].id = calls'[j].id => i = j
      BY <3>4, <3>5, <3>6, <3>7 DEF CallTypes
    <3>10. \A i \in 1 .. n + 1 : pc'[calls'[i].id] \notin {"new", "lock", "call"}
      <4>1. \A i \in 1 .. n : pc[calls[i].id] \notin {"new", "lock", "call"}
        BY <3>4 DEF CallTypes
      <4>2. \A q \in Request : pc'[q] = IF q = r THEN "send" ELSE pc[q]
        BY <1>0, <3>1
      <4>3. \A i \in 1 .. n : pc'[calls'[i].id] \notin {"new", "lock", "call"}
        BY <3>5, <3>6, <4>1, <4>2
      <4>4. pc'[calls'[n + 1].id] = "send"
        BY <3>6, <4>2
      <4> QED
        BY <3>7, <4>3, <4>4
    <3>11. \A q \in Request : pc'[q] \in {"send", "select", "ACK", "timeout"}
                              => \E i \in 1 .. n + 1 : calls'[i].id = q
      BY <1>0, <3>1, <3>4, <3>6, <3>8 DEF CallTypes
    <3> QED
      BY <3>6, <3>9, <3>10, <3>11 DEF CallTypes
  <2>2. CASE runtimeMu' # r
    <3>1. pc[r] = "call" /\ pc' = [pc EXCEPT ![r] = "error"] /\ UNCHANGED calls
      BY <1>0, <1>3, <2>2 DEF UseWasmFunction, R!UseWasmFunction
    <3>2. \A i \in DOMAIN calls : calls[i].id \in Request \ {r}
      BY <3>1, CallIs DEF CallTypes
    <3> QED
      BY <1>0, <3>1, <3>2 DEF CallTypes
  <2> QED
    BY <2>1, <2>2
<1>4. CASE /\ UNCHANGED calls
           /\ \/ Apply \/ R!ListenError \/ R!SaveBegin \/ R!SaveEnd \/ R!Match \/ R!Delete
              \/ ListenRead
  BY <1>1, <1>4
  DEF Apply, R!Apply, R!ListenError, R!SaveBegin, R!SaveEnd, R!Match, R!Delete, ListenRead,
      R!ListenRead, R!requestVars
<1>5. CASE UNCHANGED <<runtimeVars, env, calls>>
  BY <1>1, <1>5 DEF runtimeVars
<1> QED
  BY <1>1, <1>2, <1>3, <1>4, <1>5
  DEF Next, RuntimeStep, Arrive, Lock, SendFails, Send, Apply, ListenRead, Idle, vars

\* The keys and values the map holds, and what the wasm calls return, are I32s,
\* whatever ints the Adds are called with, and every request that came as far
\* as the wasm function is in calls, once.
THEOREM SystemTypes == Spec => []TypeOK
<1>1. Init => EnvTypes /\ CallTypes
  BY DEF Init, R!Init, EnvTypes, CallTypes
<1>2. EnvTypes /\ CallTypes => TypeOK
  BY DEF EnvTypes, CallTypes, TypeOK
<1> QED
  BY <1>1, <1>2, EnvNext, CallNext, RuntimeHolds, PTL DEF Spec

-----------------------------------------------------------------------------
(***************************************************************************)
(* Integers modulo the number of I32s.                                     *)
(***************************************************************************)
LEMMA Remainder ==
  ASSUME NEW w \in Nat \ {0}, NEW x \in Int
  PROVE  /\ x % w \in 0 .. w - 1
         /\ \E q \in Int : x = w * q + (x % w)
<1>1. x % w \in 0 .. w - 1
  OBVIOUS
<1>2. x \div w \in Int
  OBVIOUS
<1>3. x = w * (x \div w) + (x % w)
  OBVIOUS
<1> QED
  BY <1>1, <1>2, <1>3

LEMMA RemainderOf ==
  ASSUME NEW w \in Nat \ {0}, NEW q \in Int, NEW r \in 0 .. w - 1
  PROVE  (w * q + r) % w = r
  OBVIOUS

LEMMA SameRemainder ==
  ASSUME NEW w \in Nat \ {0}, NEW a \in Int, NEW b \in Int
  PROVE  (a - b) % w = 0 <=> a % w = b % w
<1>1. PICK p \in Int : a = w * p + (a % w)
  BY Remainder
<1>2. PICK q \in Int : b = w * q + (b % w)
  BY Remainder
<1>3. a % w \in 0 .. w - 1 /\ b % w \in 0 .. w - 1
  BY Remainder
<1> DEFINE r == a % w
           s == b % w
<1>4. r \in 0 .. w - 1 /\ s \in 0 .. w - 1 /\ a = w * p + r /\ b = w * q + s
  BY <1>1, <1>2, <1>3
<1> HIDE DEF r, s
<1>5. ASSUME r = s PROVE (a - b) % w = 0
  <2>1. p - q \in Int /\ 0 \in 0 .. w - 1
    OBVIOUS
  <2>2. a - b = w * (p - q) + 0
    BY <1>4, <1>5
  <2> QED
    BY <2>1, <2>2, RemainderOf
<1>6. ASSUME (a - b) % w = 0 PROVE r = s
  <2>1. PICK k \in Int : a - b = w * k + ((a - b) % w)
    <3> DEFINE x == a - b
    <3>1. x \in Int
      OBVIOUS
    <3> HIDE DEF x
    <3>2. \E k \in Int : x = w * k + (x % w)
      BY <3>1, Remainder
    <3> QED
      BY <3>2 DEF x
  <2> DEFINE d == k - p + q
  <2>2. d \in Int /\ w * d = r - s
    <3>1. w * d = w * k - w * p + w * q
      OBVIOUS
    <3>2. a - b = w * k
      BY <1>6, <2>1
    <3> QED
      BY <1>4, <3>1, <3>2
  <2> HIDE DEF d
  <2>3. w * d < w /\ -w < w * d
    BY <1>4, <2>2
  <2>4. d = 0
    <3>1. CASE d >= 1
      BY <2>2, <2>3, <3>1
    <3>2. CASE d <= -1
      BY <2>2, <2>3, <3>2
    <3> QED
      BY <2>2, <3>1, <3>2
  <2>5. r - s = 0
    BY <2>2, <2>4
  <2> QED
    BY <1>4, <2>5
<1> QED
  BY <1>5, <1>6 DEF r, s

LEMMA RemainderIs ==
  ASSUME NEW w \in Nat \ {0}, NEW a \in Int
  PROVE  ((a % w) - a) % w = 0
<1>1. PICK p \in Int : a = w * p + (a % w)
  BY Remainder
<1> DEFINE r == a % w
<1>2. r \in 0 .. w - 1
  BY Remainder
<1>3. r - a = w * (-p) + 0
  BY <1>1, <1>2
<1>4. -p \in Int /\ 0 \in 0 .. w - 1
  OBVIOUS
<1>5. (w * (-p) + 0) % w = 0
  BY <1>4, RemainderOf
<1> QED
  BY <1>3, <1>5

\* Keys are one if the arguments agree in the low bits.
LEMMA Int32Agrees ==
  ASSUME NEW a \in Int, NEW b \in Int
  PROVE  Int32(a) = Int32(b) <=> Congruent(a, b)
<1> DEFINE w == 2 * Half
           x == a + Half
           y == b + Half
<1>1. /\ Half \in Nat \ {0} /\ w \in Nat \ {0} /\ x \in Int /\ y \in Int
      /\ a - b \in Int /\ x - y = a - b
  BY SystemAssumption
<1> HIDE DEF w, x, y
<1>2. (x - y) % w = 0 <=> x % w = y % w
  BY <1>1, SameRemainder
<1>3. x % w \in Int /\ y % w \in Int
  BY <1>1, Remainder
<1>4. (x % w) - Half = (y % w) - Half <=> x % w = y % w
  BY <1>1, <1>3
<1>5. (a - b) % w = 0 <=> x % w = y % w
  BY <1>1, <1>2
<1> QED
  BY <1>4, <1>5 DEF Int32, Congruent, w, x, y

LEMMA Int32Congruent ==
  ASSUME NEW a \in Int
  PROVE  Congruent(Int32(a), a)
<1> DEFINE w == 2 * Half
           x == a + Half
<1>1. Half \in Nat \ {0} /\ w \in Nat \ {0} /\ x \in Int
  BY SystemAssumption
<1>2. ((x + Half) - Half) = x
  BY <1>1
<1> HIDE DEF w, x
<1>3. ((x % w) - x) % w = 0
  BY <1>1, RemainderIs
<1>4. x % w \in Int
  BY <1>1, Remainder
<1>5. ((x % w) - Half) - a = (x % w) - x
  BY <1>1, <1>4 DEF x
<1> QED
  BY <1>3, <1>5 DEF Int32, Congruent, w, x

\* The value written is one more than the one given.
LEMMA NewValCongruent ==
  ASSUME NEW m \in Message
  PROVE  Congruent(NewVal(m), ValueArg[m] + 1)
<1> DEFINE w == 2 * Half
           v == ValueArg[m]
           a == Int32(v)
           b == Int32(a + 1)
<1>1. w \in Nat \ {0} /\ v \in Int /\ a \in Int /\ b \in Int
  <2>1. w \in Nat \ {0} /\ v \in Int /\ \A i \in I32 : i \in Int
    BY SystemAssumption DEF I32
  <2>2. a \in Int
    BY <2>1, Int32InRange
  <2>3. a + 1 \in Int
    BY <2>2
  <2> QED
    BY <2>1, <2>2, <2>3, Int32InRange
<1>2. a + 1 \in Int /\ v + 1 \in Int /\ (a + 1) - (v + 1) = a - v /\ a - v \in Int
  BY <1>1
<1>3. Congruent(a, v) /\ Congruent(b, a + 1)
  BY <1>1, <1>2, Int32Congruent
<1> HIDE DEF a, b, v
<1>4. (a - v) % w = 0 /\ (b - (a + 1)) % w = 0
  BY <1>3 DEF Congruent
<1> HIDE DEF w
<1>5. ((a + 1) - (v + 1)) % w = 0
  BY <1>2, <1>4
<1> DEFINE a1 == a + 1
           v1 == v + 1
<1>6. a1 \in Int /\ v1 \in Int
  BY <1>2
<1>7. (a1 - v1) % w = 0 /\ (b - a1) % w = 0
  BY <1>4, <1>5
<1> HIDE DEF a1, v1
<1>8. a1 % w = v1 % w /\ b % w = a1 % w
  BY <1>1, <1>6, <1>7, SameRemainder
<1>9. (b - v1) % w = 0 <=> b % w = v1 % w
  BY <1>1, <1>6, SameRemainder
<1>10. (b - v1) % w = 0
  BY <1>8, <1>9
<1> QED
  BY <1>10 DEF NewVal, Congruent, a, b, v, v1, w

-----------------------------------------------------------------------------
(***************************************************************************)
(* The chain and the blocks the runtime was given only grow.               *)
(***************************************************************************)
Longer(s, t) == DOMAIN s \subseteq DOMAIN t /\ \A i \in DOMAIN s : t[i] = s[i]

LEMMA LongerSame ==
  ASSUME NEW s
  PROVE  Longer(s, s)
  BY DEF Longer

LEMMA LongerAppend ==
  ASSUME NEW S, NEW s \in Seq(S), NEW x \in S
  PROVE  Longer(s, Append(s, x))
<1> DEFINE t == Append(s, x)
<1>1. /\ t \in Seq(S) /\ Len(t) = Len(s) + 1 /\ Len(s) \in Nat /\ DOMAIN s = 1 .. Len(s)
      /\ \A i \in 1 .. Len(s) : t[i] = s[i]
  BY AppendProperties
<1>2. DOMAIN t = 1 .. Len(s) + 1
  BY <1>1
<1> HIDE DEF t
<1>3. Longer(s, t)
  BY <1>1, <1>2 DEF Longer
<1> QED
  BY <1>3 DEF t

LEMMA ChainGrows ==
  ASSUME SysInv, [Next]_vars
  PROVE  Longer(Blocks, Blocks') /\ Longer(frames[Here], frames'[Here])
<1>0. /\ Blocks \in Seq(Seq(Message)) /\ frames \in [Conn -> Seq(P!Frame)] /\ Here \in Conn
      /\ builder # "idle" => job \in P!Job
  BY SysTypes
<1>1. [P!Next]_P!vars
  BY ServiceNext
<1>2. CASE UNCHANGED <<Blocks, frames>>
  BY <1>2, LongerSame
<1>3. CASE P!AddBlock
  <2>1. job.txs \in Seq(Message) /\ Blocks' = Append(Blocks, job.txs) /\ frames' = frames
    BY <1>0, <1>3 DEF P!AddBlock, P!Job
  <2> QED
    BY <1>0, <2>1, LongerSame, LongerAppend
<1>4. CASE P!Cast
  <2>1. /\ Blocks' = Blocks
        /\ \/ frames' = frames
           \/ frames' = [frames EXCEPT ![Head(todo)] = Append(@, P!FrameOf(job, Len(Blocks)))]
    BY <1>4 DEF P!Cast
  <2>2. P!FrameOf(job, Len(Blocks)) \in P!Frame
    <3>1. job \in P!Job /\ Len(Blocks) \in Nat
      BY <1>0, <1>4 DEF P!Cast
    <3> QED
      BY <3>1 DEF P!FrameOf, P!Frame, P!Job
  <2>3. frames'[Here] = frames[Here]
        \/ frames'[Here] = Append(frames[Here], P!FrameOf(job, Len(Blocks)))
    <3>1. CASE Head(todo) = Here
      BY <1>0, <2>1, <3>1
    <3>2. CASE Head(todo) # Here
      BY <1>0, <2>1, <3>2
    <3> QED
      BY <3>1, <3>2
  <2>4. Longer(Blocks, Blocks')
    BY <2>1, LongerSame
  <2>5. Longer(frames[Here], Append(frames[Here], P!FrameOf(job, Len(Blocks))))
    BY <1>0, <2>2, LongerAppend
  <2> QED
    BY <2>3, <2>4, <2>5, LongerSame
<1>5. CASE P!Restart
  BY <1>2, <1>5 DEF P!Restart
<1> QED
  BY <1>1, <1>2, <1>3, <1>4, <1>5
  DEF P!Next, P!ReadPump, P!Builder, P!WritePump, P!Idle, P!Submit, P!Receive,
      P!Disconnect, P!Accept, P!Register, P!ReadMessage, P!ReadError, P!Pool, P!HandOver,
      P!Unlock, P!Take, P!Write, P!vars, P!builderVars

\* A place is a block's number and a number in it.
LEMMA PlaceIs ==
  ASSUME SysInv
  PROVE  /\ \A p \in Places : /\ p = <<p[1], p[2]>> /\ p[1] \in DOMAIN Blocks
                              /\ p[2] \in DOMAIN Blocks[p[1]] /\ p[1] \in Nat /\ p[2] \in Nat
                              /\ At(p) \in Message
         /\ \A b \in DOMAIN Blocks : \A i \in DOMAIN Blocks[b] :
              /\ <<b, i>> \in Places /\ At(<<b, i>>) = Blocks[b][i]
              /\ b \in Nat /\ i \in Nat
<1>1. /\ Blocks \in Seq(Seq(Message))
      /\ \A b \in DOMAIN Blocks : b \in Nat /\ Blocks[b] \in Seq(Message)
  BY SysTypes
<1>2. \A b \in DOMAIN Blocks : \A i \in DOMAIN Blocks[b] : i \in Nat /\ Blocks[b][i] \in Message
  BY <1>1
<1> QED
  BY <1>1, <1>2 DEF Places, At

\* The frames the runtime has read.
Read == {k \in 1 .. seen[Here] : ~frames[Here][k].ack}

\* Blocks are delivered in the order of the chain, each as it is there.
LEMMA DeliveredIs ==
  ASSUME SysInv
  PROVE  /\ Delivered = {frames[Here][k].at : k \in Read}
         /\ \A k \in Read : /\ k \in DOMAIN frames[Here]
                            /\ frames[Here][k].at \in DOMAIN Blocks
                            /\ frames[Here][k].txs = Blocks[frames[Here][k].at]
                            /\ frames[Here][k].at \in Nat
         /\ \A k, l \in Read : k < l => frames[Here][k].at < frames[Here][l].at
         /\ Delivered \subseteq DOMAIN Blocks
<1>1. /\ seen[Here] \in 0 .. Len(frames[Here]) /\ frames[Here] \in Seq(P!Frame)
      /\ Blocks \in Seq(Seq(Message)) /\ Here \in Conn
  BY SysTypes
<1>2. \A k \in Read : k \in DOMAIN frames[Here] /\ ~frames[Here][k].ack
  BY <1>1 DEF Read
<1>3. P!BlocksInOrder
  BY DEF SysInv, P!LogInv, P!SafetyInv, P!ChainInv
<1>4. \A b \in DOMAIN Blocks : b \in Nat
  BY <1>1
<1>5. Delivered = {frames[Here][k].at : k \in Read}
  BY DEF Delivered, Read
<1> QED
  BY <1>1, <1>2, <1>3, <1>4, <1>5 DEF P!BlocksInOrder

LEMMA ReadKept ==
  ASSUME SysInv, Longer(frames[Here], frames'[Here]), seen'[Here] = seen[Here]
  PROVE  Read' = Read /\ Delivered' = Delivered
<1>1. \A k \in 1 .. seen[Here] : k \in DOMAIN frames[Here]
  BY SysTypes
<1>2. \A k \in 1 .. seen[Here] : frames'[Here][k] = frames[Here][k]
  BY <1>1 DEF Longer
<1>3. Read' = Read
  BY <1>2 DEF Read
<1>4. \A k \in Read : frames'[Here][k].at = frames[Here][k].at
  BY <1>2 DEF Read
<1> QED
  BY <1>3, <1>4 DEF Delivered, Read

\* What is applied stays what it is when only the chain grows.
LEMMA AppliedKept ==
  ASSUME SysInv, [Next]_vars, seen'[Here] = seen[Here],
         \/ listener # "apply" /\ listener' # "apply"
         \/ listener' = listener /\ frame' = frame
  PROVE  Applied' = Applied /\ \A p \in Applied : At(p)' = At(p)
<1>1. Longer(Blocks, Blocks') /\ Longer(frames[Here], frames'[Here])
  BY ChainGrows
<1>2. Delivered' = Delivered /\ Delivered \subseteq DOMAIN Blocks
  BY <1>1, ReadKept, DeliveredIs
<1>3. \A b \in Delivered : b \in DOMAIN Blocks' /\ Blocks'[b] = Blocks[b]
  BY <1>1, <1>2 DEF Longer
<1>4. \A p : p[1] \in Delivered => (p \in Places' <=> p \in Places)
  <2>1. \A p : p \in Places <=> \E b \in DOMAIN Blocks : p \in {b} \X DOMAIN Blocks[b]
    BY DEF Places
  <2>2. \A p : p \in Places' <=> \E b \in DOMAIN Blocks' : p \in {b} \X DOMAIN Blocks'[b]
    BY DEF Places
  <2>3. \A p, b, D : p \in {b} \X D => p[1] = b
    OBVIOUS
  <2> QED
    BY <1>2, <1>3, <2>1, <2>2, <2>3
<1>5. \A p \in Applied : p \in Places /\ p[1] \in Delivered
  BY DEF Applied
<1>6. \A p \in Applied' : p \in Places' /\ p[1] \in Delivered
  BY <1>2 DEF Applied
<1>7. \A p : p \in Applied' <=> p \in Applied
  BY <1>2, <1>3, <1>4, <1>5, <1>6 DEF Applied
<1>8. \A p \in Applied : At(p)' = At(p)
  BY <1>3, <1>5 DEF At
<1> QED
  BY <1>7, <1>8

-----------------------------------------------------------------------------
(***************************************************************************)
(* The map is what the delivered blocks make of the arguments.             *)
(***************************************************************************)

\* While a block is being written, what is left of it is the end of the block
\* read last.
Reading == frames[Here][seen[Here]]

LeftInv ==
  listener = "apply" =>
    /\ seen[Here] \in Read
    /\ Len(frame.txs) <= Len(Reading.txs)
    /\ \A k \in 1 .. Len(frame.txs) :
         frame.txs[k] = Reading.txs[Len(Reading.txs) - Len(frame.txs) + k]

\* Every key has the value of the last transaction applied that has it.
EnvInv ==
  /\ \A p \in Applied : Key(At(p)) \in DOMAIN env
  /\ \A k \in DOMAIN env : \E p \in Applied :
       /\ Key(At(p)) = k /\ env[k] = NewVal(At(p))
       /\ \A q \in Applied : Key(At(q)) = k => ~Before(p, q)

\* The steps of the listener at a block; all others leave the invariants as
\* they are.
ApplyStep == UNCHANGED serviceVars /\ Apply

LEMMA ListenerAlone ==
  ASSUME SysInv, [Next]_vars, ~ApplyStep, ~ListenRead
  PROVE  /\ UNCHANGED env /\ seen'[Here] = seen[Here]
         /\ \/ listener # "apply" /\ listener' # "apply"
            \/ listener' = listener /\ frame' = frame
<1>0. seen \in [Conn -> Nat] /\ Here \in Conn
  BY SysTypes
<1>1. ASSUME ServiceStep \/ OtherRuntimes \/ Network
      PROVE  seen'[Here] = seen[Here]
  <2>1. CASE \E c \in Conn : \/ P!Accept(c) \/ P!Register(c) \/ P!Disconnect(c)
                             \/ P!ReadMessage(c) \/ P!ReadError(c) \/ P!Pool(c)
                             \/ P!HandOver(c) \/ P!Unlock(c) \/ P!Take(c) \/ P!Write(c)
    BY <2>1
    DEF P!Accept, P!Register, P!Disconnect, P!ReadMessage, P!ReadError, P!Pool, P!HandOver,
        P!Unlock, P!Take, P!Write, P!netVars
  <2>2. CASE \E c \in Conn \ {Here} : P!Receive(c) \/ \E m \in Foreign : P!Submit(c, m)
    BY <1>0, <2>2 DEF P!Receive, P!Submit
  <2>3. CASE P!AddBlock \/ P!Cast
    BY <2>3 DEF P!AddBlock, P!Cast, P!netVars
  <2> QED
    BY <1>1, <2>1, <2>2, <2>3, ServiceActions
<1>2. CASE RuntimeStep
  <2>1. seen' = seen
    BY <1>2 DEF RuntimeStep, serviceVars
  <2>2. CASE UNCHANGED <<listener, frame, env>>
    BY <2>1, <2>2
  <2>3. CASE \E r \in Request : R!Deliver(r) /\ UNCHANGED env
    BY <2>1, <2>3 DEF R!Deliver
  <2>4. CASE UNCHANGED env /\ (R!ListenError \/ R!SaveBegin \/ R!SaveEnd \/ R!Match \/ R!Delete)
    BY <2>1, <2>4 DEF R!ListenError, R!SaveBegin, R!SaveEnd, R!Match, R!Delete
  <2> QED
    BY <1>2, <2>2, <2>3, <2>4
    DEF RuntimeStep, ApplyStep, Arrive, Lock, UseWasmFunction, SendFails, R!Arrive, R!Lock,
        R!UseWasmFunction, R!Send, R!TimeOut, R!listenerVars
<1>3. ASSUME NEW r \in Request, Send(r)
      PROVE  UNCHANGED <<listener, frame, env, seen>>
  BY <1>3 DEF Send, O!Submit, R!Send, R!listenerVars
<1>4. CASE Idle \/ UNCHANGED vars
  BY <1>4 DEF Idle, vars, serviceVars, runtimeVars
<1>5. CASE (ServiceStep \/ OtherRuntimes \/ Network) /\ UNCHANGED <<runtimeVars, env, calls>>
  BY <1>1, <1>5 DEF runtimeVars
<1> QED
  BY <1>2, <1>3, <1>4, <1>5 DEF Next

\* The frame the listener reads.
LEMMA ListenReads ==
  ASSUME SysInv, ListenRead
  PROVE  /\ seen'[Here] = seen[Here] + 1 /\ seen[Here] + 1 \in DOMAIN frames[Here]
         /\ frames' = frames /\ UNCHANGED <<Blocks, env>>
         /\ listener = "read" /\ listener' \in {"apply", "match"}
         /\ frame'.txs = frames[Here][seen[Here] + 1].txs
         /\ listener' = "apply" <=> /\ frames[Here][seen[Here] + 1].txs # <<>>
                                    /\ ~frames[Here][seen[Here] + 1].ack
<1> DEFINE n == seen[Here]
           f == frames[Here]
<1>1. /\ seen \in [Conn -> Nat] /\ Here \in Conn /\ n \in 0 .. Len(f) /\ f \in Seq(P!Frame)
  BY SysTypes
<1>2. seen' = [seen EXCEPT ![Here] = @ + 1] /\ UNCHANGED <<frames, Blocks, env>>
      /\ link[Here] = "open"
  BY DEF ListenRead, O!Receive, O!builderVars
<1>3. /\ OnTheWay # <<>> /\ listener = "read"
      /\ frame' = [Head(OnTheWay) EXCEPT !.txs = Head(OnTheWay).txs]
      /\ listener' = IF Head(OnTheWay).txs # <<>> /\ ~Head(OnTheWay).ack THEN "apply" ELSE "match"
  BY <1>2 DEF ListenRead, R!ListenRead, R!Written, R!IsBlock, LinkUp
<1>4. OnTheWay = [i \in 1 .. Len(f) - n |-> Told(f[i + n])]
  BY <1>1, OnTheWayIs, AheadIs
<1> HIDE DEF f, n
<1>5. Len(f) - n \in Nat /\ Len(f) - n # 0
  <2>1. Len(f) - n \in Nat
    BY <1>1
  <2>2. Len(f) - n = 0 => OnTheWay = <<>>
    BY <1>4
  <2> QED
    BY <1>3, <2>1, <2>2
<1>6. Head(OnTheWay) = Told(f[n + 1]) /\ n + 1 \in DOMAIN f
  <2>1. 1 \in 1 .. Len(f) - n /\ n + 1 \in 1 .. Len(f) /\ 1 + n = n + 1
    BY <1>1, <1>5
  <2>2. OnTheWay[1] = Told(f[n + 1])
    BY <1>4, <2>1
  <2>3. Head(OnTheWay) = OnTheWay[1]
    OBVIOUS
  <2> QED
    BY <1>1, <2>1, <2>2, <2>3
<1>7. frame'.txs = f[n + 1].txs
  BY <1>3, <1>6 DEF Told
<1> QED
  BY <1>1, <1>2, <1>3, <1>6, <1>7 DEF f, n, Told

LEMMA ReadOne ==
  ASSUME SysInv, ListenRead
  PROVE  /\ frames[Here][seen[Here] + 1].ack => Read' = Read
         /\ ~frames[Here][seen[Here] + 1].ack => Read' = Read \cup {seen[Here] + 1}
         /\ Reading' = frames[Here][seen[Here] + 1]
<1> DEFINE n == seen[Here]
<1>1. n \in Nat /\ seen'[Here] = n + 1 /\ frames' = frames
  BY SysTypes, ListenReads
<1> HIDE DEF n
<1>2. \A k : k \in 1 .. n + 1 <=> k \in 1 .. n \/ k = n + 1
  BY <1>1
<1>3. Read = {k \in 1 .. n : ~frames[Here][k].ack} /\ Read' = {k \in 1 .. n + 1 : ~frames[Here][k].ack}
  BY <1>1 DEF Read, n
<1> QED
  BY <1>1, <1>2, <1>3 DEF Reading, n

\* A block has a transaction at least.
LEMMA BlockNotEmpty ==
  ASSUME SysInv, NEW b \in DOMAIN Blocks
  PROVE  Blocks[b] # <<>>
<1>1. Len(Blocks[b]) \in 1 .. P!Cardinality(Conn) * (BlockSize - 1) + 1
  BY DEF SysInv, P!LogInv, P!LengthInv, P!BlockBound
<1>2. P!Cardinality(Conn) * (BlockSize - 1) + 1 \in Int
  BY SameCardinality, BoundType
<1> QED
  BY <1>1, <1>2

\* The last block delivered.
LEMMA LastDelivered ==
  ASSUME SysInv, seen[Here] \in Read
  PROVE  /\ Reading.at \in Delivered /\ Reading.txs = Blocks[Reading.at]
         /\ Reading.at \in DOMAIN Blocks /\ Reading.at \in Nat
         /\ \A b \in Delivered : b \in Nat /\ b <= Reading.at
         /\ Blocks[Reading.at] \in Seq(Message)
<1>1. \A k \in Read : k \in Nat /\ seen[Here] \in Nat /\ k <= seen[Here]
  BY SysTypes DEF Read
<1>2. \A k \in Read : k = seen[Here] \/ k < seen[Here]
  BY <1>1
<1>3. Blocks \in Seq(Seq(Message))
  BY SysTypes
<1>4. Reading.at \in DOMAIN Blocks /\ Reading.at \in Nat
  BY DeliveredIs DEF Reading
<1>5. ASSUME NEW b \in Delivered PROVE b \in Nat /\ b <= Reading.at
  <2>1. PICK k \in Read : b = frames[Here][k].at
    BY <1>5, DeliveredIs
  <2>2. b \in Nat
    BY <2>1, DeliveredIs
  <2>3. k = seen[Here] \/ b < Reading.at
    BY <1>2, <2>1, DeliveredIs DEF Reading
  <2> QED
    BY <1>4, <2>1, <2>2, <2>3 DEF Reading
<1> QED
  BY <1>3, <1>4, <1>5, DeliveredIs DEF Reading

\* What is left to write is a sequence of messages.
LEMMA LeftIs ==
  ASSUME Q!TypeOK, listener = "apply"
  PROVE  frame \in Q!Frame /\ frame.txs \in Seq(Message)
<1>1. frame \in Q!Frame /\ Q!Transaction = Message
  BY SystemAssumption DEF Q!TypeOK, Q!Starting, Q!Transaction, Foreign
<1> QED
  BY <1>1 DEF Q!Frame

LEMMA ApplyEffect ==
  ASSUME Q!TypeOK, ApplyStep
  PROVE  /\ listener = "apply" /\ UNCHANGED <<seen, frames, Blocks>>
         /\ frame.txs = <<>> => listener' = "save" /\ env' = env
         /\ frame.txs # <<>> =>
              /\ listener' = "apply" /\ frame'.txs = Tail(frame.txs)
              /\ env' = [k \in DOMAIN env \cup {Key(Head(frame.txs))} |->
                           IF k = Key(Head(frame.txs)) THEN NewVal(Head(frame.txs)) ELSE env[k]]
<1>1. listener = "apply" /\ UNCHANGED <<seen, frames, Blocks>>
  BY DEF ApplyStep, Apply, R!Apply, serviceVars
<1>2. frame \in Q!Frame
  BY <1>1, LeftIs
<1>3. CASE frame.txs = <<>>
  BY <1>1, <1>3 DEF ApplyStep, Apply, R!Apply
<1>4. CASE frame.txs # <<>>
  <2>1. listener' = listener /\ frame' = [frame EXCEPT !.txs = Tail(@)]
    BY <1>4 DEF ApplyStep, Apply, R!Apply
  <2>2. frame'.txs = Tail(frame.txs)
    BY <1>2, <2>1 DEF Q!Frame
  <2> QED
    BY <1>1, <1>4, <2>1, <2>2 DEF ApplyStep, Apply
<1> QED
  BY <1>3, <1>4

LEMMA LeftNext == SysInv /\ Q!TypeOK /\ LeftInv /\ [Next]_vars => LeftInv'
<1> SUFFICES ASSUME SysInv, Q!TypeOK, LeftInv, [Next]_vars
             PROVE  LeftInv'
  OBVIOUS
<1>1. CASE ListenRead
  <2>1. CASE listener' # "apply"
    BY <2>1 DEF LeftInv
  <2>2. CASE listener' = "apply"
    <3>1. /\ frame'.txs = Reading'.txs /\ seen'[Here] \in Read'
      BY <1>1, <2>2, ListenReads, ReadOne
    <3>2. Reading'.txs \in Seq(Message)
      <4>1. frames[Here] \in Seq(P!Frame) /\ seen[Here] + 1 \in DOMAIN frames[Here]
        BY <1>1, SysTypes, ListenReads
      <4>2. Reading' \in P!Frame
        BY <1>1, <4>1, ReadOne
      <4> QED
        BY <4>2 DEF P!Frame
    <3> DEFINE s == Reading'.txs
    <3>3. s \in Seq(Message)
      BY <3>2
    <3> HIDE DEF s
    <3>4. Len(s) <= Len(s) /\ \A k \in 1 .. Len(s) : Len(s) - Len(s) + k = k
      BY <3>3
    <3> QED
      BY <3>1, <3>4 DEF LeftInv, s
  <2> QED
    BY <2>1, <2>2
<1>2. CASE ApplyStep
  <2>1. listener = "apply" /\ UNCHANGED <<seen, frames>> /\ Read' = Read /\ Reading' = Reading
    BY <1>2, ApplyEffect DEF Read, Reading
  <2>2. CASE frame.txs = <<>>
    BY <1>2, <2>2, ApplyEffect DEF LeftInv
  <2>3. CASE frame.txs # <<>>
    <3> DEFINE s == frame.txs
               t == Reading.txs
    <3>1. s \in Seq(Message) /\ s # <<>> /\ t \in Seq(Message)
      BY <2>1, <2>3, LeftIs, LastDelivered DEF LeftInv
    <3>2. Len(s) <= Len(t) /\ \A k \in 1 .. Len(s) : s[k] = t[Len(t) - Len(s) + k]
      BY <2>1 DEF LeftInv
    <3>3. frame'.txs = Tail(s) /\ seen[Here] \in Read
      BY <1>2, <2>1, <2>3, ApplyEffect DEF LeftInv
    <3> HIDE DEF s, t
    <3>4. Len(Tail(s)) = Len(s) - 1 /\ \A k \in 1 .. Len(s) - 1 : Tail(s)[k] = s[k + 1]
      BY <3>1
    <3>5. ASSUME NEW k \in 1 .. Len(s) - 1
          PROVE  Tail(s)[k] = t[Len(t) - (Len(s) - 1) + k]
      <4>1. k + 1 \in 1 .. Len(s) /\ Len(t) - Len(s) + (k + 1) = Len(t) - (Len(s) - 1) + k
        BY <3>1
      <4> QED
        BY <3>2, <3>4, <4>1
    <3>6. Len(s) - 1 <= Len(t)
      BY <3>1, <3>2
    <3> QED
      BY <2>1, <3>3, <3>4, <3>5, <3>6 DEF LeftInv, t
  <2> QED
    BY <2>2, <2>3
<1>3. CASE ~ApplyStep /\ ~ListenRead
  <2>1. /\ seen'[Here] = seen[Here]
        /\ \/ listener # "apply" /\ listener' # "apply"
           \/ listener' = listener /\ frame' = frame
    BY <1>3, ListenerAlone
  <2>2. Longer(frames[Here], frames'[Here]) /\ Read' = Read
    BY <2>1, ChainGrows, ReadKept
  <2>3. seen[Here] \in Read => Reading' = Reading
    BY <2>1, <2>2, DeliveredIs DEF Reading, Longer
  <2> QED
    BY <2>1, <2>2, <2>3 DEF LeftInv
<1> QED
  BY <1>1, <1>2, <1>3

\* The place of the transaction written next.
NextPlace == <<Reading.at, Len(Blocks[Reading.at]) - Len(frame.txs) + 1>>

LEMMA ApplyOne ==
  ASSUME SysInv, Q!TypeOK, LeftInv, ApplyStep, frame.txs # <<>>
  PROVE  /\ NextPlace \in Places /\ At(NextPlace) = Head(frame.txs)
         /\ Applied' = Applied \cup {NextPlace}
         /\ \A p \in Applied : Before(p, NextPlace)
<1> DEFINE s == frame.txs
           b == Reading.at
           B == Blocks[b]
           i == Len(B) - Len(s) + 1
<1>1. /\ listener = "apply" /\ listener' = "apply" /\ UNCHANGED <<seen, frames, Blocks>>
      /\ frame'.txs = Tail(s)
  BY ApplyEffect
<1>2. /\ b \in Delivered /\ b \in DOMAIN Blocks /\ b \in Nat /\ B \in Seq(Message)
      /\ \A d \in Delivered : d \in Nat /\ d <= b
      /\ Reading.txs = B
  BY <1>1, LastDelivered DEF LeftInv
<1>3. /\ s \in Seq(Message) /\ s # <<>> /\ Len(s) <= Len(B)
      /\ \A k \in 1 .. Len(s) : s[k] = B[Len(B) - Len(s) + k]
  BY <1>1, <1>2, LeftIs DEF LeftInv
<1>4. Delivered' = Delivered /\ Places' = Places
  BY <1>1 DEF Delivered, Places
<1>5. NextPlace = <<b, i>>
  BY DEF NextPlace
<1>6. \A d \in Delivered : (\A e \in Delivered : e <= d) <=> d = b
  BY <1>2
<1> HIDE DEF s, b, B
<1>7. /\ i \in 1 .. Len(B) /\ DOMAIN B = 1 .. Len(B) /\ Head(s) = s[1] /\ 1 \in 1 .. Len(s)
      /\ Len(Tail(s)) = Len(s) - 1 /\ Len(B) - Len(Tail(s)) = i
      /\ Len(B) \in Nat /\ Len(s) \in Nat
  BY <1>3
<1>8. s[1] = B[i]
  BY <1>3, <1>7
<1>9. NextPlace \in Places /\ At(NextPlace) = Head(s)
  <2>1. i \in DOMAIN Blocks[b] /\ Blocks[b][i] = Head(s)
    BY <1>7, <1>8 DEF B
  <2> QED
    BY <1>2, <1>5, <2>1, PlaceIs
<1> HIDE DEF i
<1>10. \A p : p \in Applied <=> /\ p \in Places /\ p[1] \in Delivered
                                /\ p[1] = b => p[2] <= Len(B) - Len(s)
  BY <1>1, <1>6 DEF Applied, B, s
<1>11. \A p : p \in Applied' <=> /\ p \in Places /\ p[1] \in Delivered
                                 /\ p[1] = b => p[2] <= i
  BY <1>1, <1>4, <1>6, <1>7 DEF Applied, B
<1>12. \A p \in Places : p[2] \in Nat /\ p = <<p[1], p[2]>>
  BY PlaceIs
<1>13. i <= i /\ \A x \in Nat : x <= i <=> x <= Len(B) - Len(s) \/ x = i
  BY <1>7 DEF i
<1>14. Applied' = Applied \cup {NextPlace}
  <2>1. NextPlace[1] = b /\ NextPlace[2] = i /\ i <= i
    <3>1. NextPlace[1] = b /\ NextPlace[2] = i
      BY <1>5
    <3> QED
      BY <1>13, <3>1
  <2>2. NextPlace \in Applied'
    <3>1. NextPlace \in Places /\ NextPlace[1] \in Delivered /\ NextPlace[2] <= i
      BY <1>2, <1>9, <2>1
    <3> QED
      BY <1>11, <3>1
  <2>3. \A p \in Applied : p \in Applied'
    BY <1>10, <1>11, <1>12, <1>13
  <2>4. \A p \in Applied' : p \in Applied \/ p = NextPlace
    BY <1>5, <1>10, <1>11, <1>12, <1>13
  <2> QED
    BY <2>2, <2>3, <2>4
<1>15. \A p \in Applied : Before(p, NextPlace)
  <2> SUFFICES ASSUME NEW p \in Applied
               PROVE  p[1] < b \/ (p[1] = b /\ p[2] < i)
    BY <1>5 DEF Before
  <2>1. p \in Places /\ p[1] \in Delivered /\ p[2] \in Nat
    BY <1>10, <1>12
  <2>2. p[1] \in Nat /\ p[1] <= b
    BY <1>2, <2>1
  <2>3. p[1] = b => p[2] <= Len(B) - Len(s)
    BY <1>10
  <2>4. i = Len(B) - Len(s) + 1
    BY DEF i
  <2> QED
    BY <1>2, <1>7, <2>1, <2>2, <2>3, <2>4
<1> QED
  BY <1>9, <1>14, <1>15 DEF s

\* A block that is read comes after all others.
LEMMA ReadBlock ==
  ASSUME SysInv, ListenRead
  PROVE  LET f == frames[Here][seen[Here] + 1]
         IN  /\ f.ack => Delivered' = Delivered
             /\ ~f.ack => /\ Delivered' = Delivered \cup {f.at} /\ f.at \in Nat
                          /\ f.at \in DOMAIN Blocks /\ f.txs = Blocks[f.at]
                          /\ \A b \in Delivered : b \in Nat /\ b < f.at
<1> DEFINE n == seen[Here]
           f == frames[Here][n + 1]
<1>1. /\ UNCHANGED <<frames, Blocks>>
      /\ f.ack => Read' = Read
      /\ ~f.ack => Read' = Read \cup {n + 1}
      /\ n \in Nat /\ \A k \in Read : k \in Nat /\ k < n + 1
  BY ListenReads, ReadOne, SysTypes DEF Read
<1>2. Delivered = {frames[Here][k].at : k \in Read} /\ Delivered' = {frames[Here][k].at : k \in Read'}
  BY <1>1, DeliveredIs DEF Delivered, Read
<1>3. ASSUME ~f.ack
      PROVE  /\ f.at \in DOMAIN Blocks /\ f.txs = Blocks[f.at] /\ f.at \in Nat
             /\ \A k \in Read : frames[Here][k].at < f.at
  <2>1. n + 1 \in DOMAIN frames[Here] /\ frames[Here] \in Seq(P!Frame) /\ Here \in Conn
    BY ListenReads, SysTypes
  <2>2. P!BlocksInOrder
    BY DEF SysInv, P!LogInv, P!SafetyInv, P!ChainInv
  <2>3. \A k \in Read : k \in DOMAIN frames[Here] /\ ~frames[Here][k].ack
    BY DeliveredIs DEF Read
  <2>4. f.at \in DOMAIN Blocks /\ f.txs = Blocks[f.at]
    BY <1>3, <2>1, <2>2 DEF P!BlocksInOrder
  <2>5. \A k \in Read : frames[Here][k].at < f.at
    BY <1>1, <1>3, <2>1, <2>2, <2>3 DEF P!BlocksInOrder
  <2>6. f.at \in Nat
    BY <2>4, SysTypes
  <2> QED
    BY <2>4, <2>5, <2>6
<1>4. ~f.ack => Delivered' = Delivered \cup {f.at}
  BY <1>1, <1>2
<1>5. ~f.ack => \A b \in Delivered : b \in Nat /\ b < f.at
  BY <1>2, <1>3, DeliveredIs
<1> QED
  BY <1>1, <1>2, <1>3, <1>4, <1>5

\* Reading a block applies nothing of it, and nor do the steps of others.
LEMMA AppliedNext ==
  ASSUME SysInv, Q!TypeOK, LeftInv, [Next]_vars, ~(ApplyStep /\ frame.txs # <<>>)
  PROVE  Applied' = Applied /\ env' = env /\ \A p \in Applied : At(p)' = At(p)
<1>1. CASE ListenRead
  <2> DEFINE f == frames[Here][seen[Here] + 1]
  <2>1. /\ listener = "read" /\ listener' \in {"apply", "match"} /\ UNCHANGED <<frames, Blocks, env>>
        /\ frame'.txs = f.txs
        /\ listener' = "apply" <=> f.txs # <<>> /\ ~f.ack
    BY <1>1, ListenReads
  <2>2. Places' = Places /\ \A p \in Applied : At(p)' = At(p)
    BY <2>1 DEF Places, At
  <2>3. Applied = {p \in Places : p[1] \in Delivered}
    BY <2>1 DEF Applied
  <2>4. CASE f.ack
    <3>1. Delivered' = Delivered /\ listener' # "apply"
      BY <1>1, <2>1, <2>4, ReadBlock
    <3>2. Applied' = Applied
      BY <2>1, <2>2, <2>3, <3>1 DEF Applied
    <3> QED
      BY <2>1, <2>2, <3>2
  <2>5. CASE ~f.ack
    <3>1. /\ Delivered' = Delivered \cup {f.at} /\ f.at \in Nat
          /\ f.at \in DOMAIN Blocks /\ f.txs = Blocks[f.at]
          /\ \A b \in Delivered : b \in Nat /\ b < f.at
      BY <1>1, <2>5, ReadBlock
    <3>2. f.at \notin Delivered /\ \A b \in Delivered' : b \in Nat /\ b <= f.at
      BY <3>1
    <3>3. listener' = "apply" /\ frame'.txs = Blocks[f.at]
      BY <2>1, <2>5, <3>1, BlockNotEmpty
    <3>4. Blocks[f.at] \in Seq(Message)
      BY <3>1, SysTypes
    <3>5. \A p \in Places : p[1] = f.at => ~(p[2] <= Len(Blocks[f.at]) - Len(Blocks[f.at]))
      <4>1. \A p \in Places : p[1] = f.at => p[2] \in 1 .. Len(Blocks[f.at])
        BY <3>4, PlaceIs
      <4> QED
        BY <3>4, <4>1
    <3>6. \A p : p \in Applied' <=> p \in Places /\ p[1] \in Delivered
      <4>1. \A p : p \in Applied' <=>
              /\ p \in Places /\ p[1] \in Delivered'
              /\ (\A b \in Delivered' : b <= p[1])
                   => p[2] <= Len(Blocks[p[1]]) - Len(Blocks[f.at])
        BY <2>1, <2>2, <3>3 DEF Applied
      <4>2. \A b \in Delivered' : (\A e \in Delivered' : e <= b) <=> b = f.at
        BY <3>1, <3>2
      <4> QED
        BY <3>1, <3>2, <3>5, <4>1, <4>2
    <3>7. Applied' = Applied
      BY <2>3, <3>6
    <3> QED
      BY <2>1, <2>2, <3>7
  <2> QED
    BY <2>4, <2>5
<1>2. CASE ApplyStep /\ frame.txs = <<>>
  <2>1. /\ listener = "apply" /\ listener' = "save" /\ UNCHANGED <<seen, frames, Blocks, env>>
    BY <1>2, ApplyEffect
  <2>2. Places' = Places /\ Delivered' = Delivered /\ \A p \in Applied : At(p)' = At(p)
    BY <2>1 DEF Places, Delivered, At
  <2>3. \A p \in Places : p[2] <= Len(Blocks[p[1]]) - Len(frame.txs)
    <3>1. Len(frame.txs) = 0
      BY <1>2
    <3>2. \A b \in DOMAIN Blocks : Blocks[b] \in Seq(Message)
      BY SysTypes
    <3>3. \A p \in Places : Blocks[p[1]] \in Seq(Message) /\ p[2] \in DOMAIN Blocks[p[1]]
      BY <3>2, PlaceIs
    <3> QED
      BY <3>1, <3>3
  <2>4. Applied' = Applied
    BY <2>1, <2>2, <2>3 DEF Applied
  <2> QED
    BY <2>1, <2>2, <2>4
<1>3. CASE ~ApplyStep /\ ~ListenRead
  BY <1>3, ListenerAlone, AppliedKept
<1> QED
  BY <1>1, <1>2, <1>3

LEMMA EnvNextInv == SysInv /\ Q!TypeOK /\ LeftInv /\ EnvInv /\ [Next]_vars => EnvInv'
<1> SUFFICES ASSUME SysInv, Q!TypeOK, LeftInv, EnvInv, [Next]_vars
             PROVE  EnvInv'
  OBVIOUS
<1>0. \A p \in Applied : p \in Places /\ p[1] \in Nat /\ p[2] \in Nat
  BY PlaceIs DEF Applied
<1>1. ASSUME Applied' = Applied, env' = env, \A p \in Applied : At(p)' = At(p)
      PROVE  EnvInv'
  <2>1. \A p, q : Before(p, q)' = Before(p, q)
    BY DEF Before
  <2>2. \A p \in Applied : Key(At(p))' = Key(At(p)) /\ NewVal(At(p))' = NewVal(At(p))
    BY <1>1 DEF Key, NewVal
  <2> QED
    BY <1>1, <2>2 DEF EnvInv, Before
<1>2. CASE ApplyStep /\ frame.txs # <<>>
  <2> DEFINE t == Head(frame.txs)
             np == NextPlace
  <2>1. /\ env' = [k \in DOMAIN env \cup {Key(t)} |-> IF k = Key(t) THEN NewVal(t) ELSE env[k]]
        /\ Blocks' = Blocks
    BY <1>2, ApplyEffect
  <2>2. /\ np \in Places /\ At(np) = t /\ Applied' = Applied \cup {np}
        /\ \A p \in Applied : Before(p, np)
    BY <1>2, ApplyOne
  <2>3. \A p : At(p)' = At(p)
    BY <2>1 DEF At
  <2>4. np[1] \in Nat /\ np[2] \in Nat
    BY <2>2, PlaceIs
  <2> HIDE DEF t, np
  <2>5. \A p \in Applied \cup {np} : ~Before(np, p)
    <3>1. ~Before(np, np)
      BY <2>4 DEF Before
    <3>2. ASSUME NEW p \in Applied PROVE ~Before(np, p)
      BY <1>0, <2>2, <2>4 DEF Before
    <3> QED
      BY <3>1, <3>2
  <2> DEFINE e == env'
             A == Applied \cup {np}
  <2>6. \A p \in A : Key(At(p)) \in DOMAIN e
    BY <2>1, <2>2 DEF EnvInv
  <2>7. ASSUME NEW k \in DOMAIN e
        PROVE  \E p \in A : /\ Key(At(p)) = k /\ e[k] = NewVal(At(p))
                            /\ \A q \in A : Key(At(q)) = k => ~Before(p, q)
    <3>1. CASE k = Key(t)
      <4>1. Key(At(np)) = k /\ e[k] = NewVal(At(np))
        BY <2>1, <2>2, <3>1
      <4> QED
        BY <2>5, <4>1
    <3>2. CASE k # Key(t)
      <4>1. k \in DOMAIN env /\ e[k] = env[k]
        BY <2>1, <2>7, <3>2
      <4>2. PICK p \in Applied : /\ Key(At(p)) = k /\ env[k] = NewVal(At(p))
                                 /\ \A q \in Applied : Key(At(q)) = k => ~Before(p, q)
        BY <4>1 DEF EnvInv
      <4>3. Key(At(np)) # k
        BY <2>2, <3>2
      <4> QED
        BY <4>1, <4>2, <4>3
    <3> QED
      BY <3>1, <3>2
  <2>8. \A p : Key(At(p))' = Key(At(p)) /\ NewVal(At(p))' = NewVal(At(p))
    BY <2>3 DEF Key, NewVal
  <2> HIDE DEF e
  <2>9. EnvInv' <=> /\ \A p \in A : Key(At(p)) \in DOMAIN e
                    /\ \A k \in DOMAIN e : \E p \in A :
                         /\ Key(At(p)) = k /\ e[k] = NewVal(At(p))
                         /\ \A q \in A : Key(At(q)) = k => ~Before(p, q)
    BY <2>2, <2>8 DEF EnvInv, Before, e
  <2> QED
    BY <2>6, <2>7, <2>9
<1>3. CASE ~(ApplyStep /\ frame.txs # <<>>)
  BY <1>1, <1>3, AppliedNext
<1> QED
  BY <1>2, <1>3

\* The last of the transactions applied to a key gave it its value.
LEMMA EnvIsReplay == SysInv /\ EnvTypes /\ EnvInv => StoreIsReplay
<1> SUFFICES ASSUME SysInv, EnvTypes, EnvInv, NEW m \in Message
             PROVE  IsValueAfter(OldVal(m), Applied, KeyArg[m])
  BY DEF StoreIsReplay
<1> DEFINE on == {p \in Applied : Congruent(KeyArg[At(p)], KeyArg[m])}
           v == OldVal(m)
<1>1. \A p \in Applied : /\ At(p) \in Message
                         /\ p = <<p[1], p[2]>> /\ p[1] \in Nat /\ p[2] \in Nat
  BY PlaceIs DEF Applied
<1>2. \A n \in Message : KeyArg[n] \in Int /\ ValueArg[n] \in Int
  BY SystemAssumption
<1>3. \A p \in Applied : p \in on <=> Key(At(p)) = Key(m)
  BY <1>1, <1>2, Int32Agrees DEF Key
<1>4. v \in I32
  BY OldValInRange
<1>5. ASSUME on = {}
      PROVE  v = 0
  BY <1>3, <1>5 DEF OldVal, EnvInv
<1>6. ASSUME NEW p \in on, \A q \in on : ~Before(p, q)
      PROVE  Congruent(v, ValueArg[At(p)] + 1)
  <2>1. p \in Applied /\ Key(At(p)) = Key(m) /\ Key(m) \in DOMAIN env
    BY <1>3, <1>6 DEF EnvInv
  <2>2. PICK q \in Applied : /\ Key(At(q)) = Key(m) /\ env[Key(m)] = NewVal(At(q))
                             /\ \A r \in Applied : Key(At(r)) = Key(m) => ~Before(q, r)
    BY <2>1 DEF EnvInv
  <2>3. q \in on /\ ~Before(p, q) /\ ~Before(q, p)
    BY <1>3, <1>6, <2>1, <2>2
  <2>4. p[1] = q[1] /\ p[2] = q[2]
    BY <1>1, <2>1, <2>2, <2>3 DEF Before
  <2>5. p = q
    BY <1>1, <2>1, <2>2, <2>4
  <2>6. v = NewVal(At(p))
    BY <2>1, <2>2, <2>5 DEF OldVal
  <2> QED
    BY <1>1, <2>1, <2>6, NewValCongruent
<1> HIDE DEF v
<1> QED
  BY <1>4, <1>5, <1>6 DEF IsValueAfter, v

\* What the runtime's map has for a key is what the blocks it was given say,
\* whatever was dropped on the way and wherever in a block the listener is:
\* one more than the value of the key's last transaction there, in the
\* integers modulo the number of I32s, and nothing for the other keys.
THEOREM StoreIsReplayed == Spec => []StoreIsReplay
<1>1. Init => LeftInv /\ EnvInv /\ EnvTypes
  <2> SUFFICES ASSUME Init
               PROVE  LeftInv /\ EnvInv /\ EnvTypes
    OBVIOUS
  <2>1. listener = "read" /\ DOMAIN env = {} /\ seen[Here] = 0
    BY SystemAssumption DEF Init, R!Init, O!Init
  <2>2. Applied = {}
    BY <2>1 DEF Applied, Delivered
  <2> QED
    BY <2>1, <2>2 DEF LeftInv, EnvInv, EnvTypes
<1>2. Spec => []LeftInv
  BY <1>1, LeftNext, SysInvariant, RuntimeHolds, PTL DEF Spec
<1>3. Spec => []EnvInv
  BY <1>1, <1>2, EnvNextInv, SysInvariant, RuntimeHolds, PTL DEF Spec
<1>4. Spec => []EnvTypes
  BY <1>1, EnvNext, RuntimeHolds, PTL DEF Spec
<1> QED
  BY <1>3, <1>4, EnvIsReplay, SysInvariant, PTL

-----------------------------------------------------------------------------
(***************************************************************************)
(* Old values are of one history.                                          *)
(***************************************************************************)

\* A request whose wasm function has not run is not with the service.
LEMMA NotHeldBefore ==
  ASSUME SysInv, Q!UnsentInv, NEW r \in Request, pc[r] \in {"new", "lock", "call", "send"}
  PROVE  r \in Message /\ origin[r] = None /\ r \notin P!Held
<1>1. r \notin Submitted /\ r \in Message
  BY SystemAssumption DEF Q!UnsentInv
<1>2. origin[r] = None
  BY <1>1 DEF Submitted
<1> QED
  BY <1>1, <1>2 DEF SysInv, P!LogInv, P!SafetyInv, P!WaitingInv

LEMMA PlaceHeld ==
  ASSUME SysInv, NEW p \in Places
  PROVE  At(p) \in P!Held
<1>1. p[1] \in DOMAIN Blocks /\ p[2] \in DOMAIN Blocks[p[1]]
  BY PlaceIs
<1> QED
  BY <1>1 DEF At, P!Held, P!Committed, P!Elems

\* With no gap, the blocks given are the first of the chain.
PrefixInv == Gapless => \E n \in Nat : Delivered = 1 .. n

LEMMA DeliveredNext ==
  ASSUME SysInv, [Next]_vars
  PROVE  \/ Delivered' = Delivered
         \/ \E b \in Nat \ {0} : /\ Delivered' = Delivered \cup {b}
                                /\ \A d \in Delivered : d \in Nat /\ d < b
<1>1. CASE ListenRead
  <2> DEFINE f == frames[Here][seen[Here] + 1]
             at == f.at
  <2>1. /\ f.ack => Delivered' = Delivered
        /\ ~f.ack => /\ Delivered' = Delivered \cup {at} /\ at \in DOMAIN Blocks
                     /\ \A b \in Delivered : b \in Nat /\ b < at
    BY <1>1, ReadBlock
  <2> HIDE DEF at
  <2>2. at \in DOMAIN Blocks => at \in Nat \ {0}
    BY SysTypes
  <2> QED
    BY <2>1, <2>2
<1>2. CASE ApplyStep
  BY <1>2 DEF ApplyStep, serviceVars, Delivered
<1>3. CASE ~ListenRead /\ ~ApplyStep
  BY <1>3, ListenerAlone, ChainGrows, ReadKept
<1> QED
  BY <1>1, <1>2, <1>3

LEMMA PrefixNext ==
  ASSUME SysInv, PrefixInv, [Next]_vars
  PROVE  PrefixInv' /\ (Gapless' => Gapless)
<1>1. CASE Delivered' = Delivered
  BY <1>1 DEF PrefixInv, Gapless
<1>2. ASSUME NEW b \in Nat \ {0}, Delivered' = Delivered \cup {b},
             \A d \in Delivered : d \in Nat /\ d < b, Gapless'
      PROVE  Gapless /\ \E n \in Nat : Delivered' = 1 .. n
  <2>1. 1 .. b \subseteq Delivered \cup {b} /\ \A d \in Delivered : 1 .. d \subseteq Delivered \cup {b}
    BY <1>2 DEF Gapless
  <2>2. \A d \in Delivered : b \notin 1 .. d
    BY <1>2
  <2>3. Gapless
    BY <2>1, <2>2 DEF Gapless
  <2>4. PICK n \in Nat : Delivered = 1 .. n
    BY <2>3 DEF PrefixInv
  <2>5. n < b
    BY <1>2, <2>4
  <2>6. ~(n + 1 < b)
    <3>1. n + 1 < b => n + 1 \in 1 .. b /\ n + 1 # b /\ n + 1 \notin 1 .. n
      OBVIOUS
    <3> QED
      BY <2>1, <2>4, <3>1
  <2>7. b = n + 1
    BY <2>5, <2>6
  <2>8. 1 .. n + 1 = (1 .. n) \cup {n + 1}
    OBVIOUS
  <2>9. Delivered' = 1 .. n + 1 /\ n + 1 \in Nat
    BY <1>2, <2>4, <2>7, <2>8
  <2> QED
    BY <2>3, <2>9
<1> QED
  BY <1>1, <1>2, DeliveredNext DEF PrefixInv

\* What is applied then is the chain up to a place.
LEMMA AppliedIsUpTo ==
  ASSUME SysInv, LeftInv, PrefixInv, Gapless, Q!TypeOK
  PROVE  \E p \in Places \cup {<<0, 0>>} : UpTo(p) = Applied /\ (p # <<0, 0>> => p \in Applied)
<1>1. PICK n \in Nat : Delivered = 1 .. n
  BY DEF PrefixInv
<1>2. \A q \in Places : /\ q[1] \in Nat \ {0} /\ q[2] \in Nat \ {0} /\ q = <<q[1], q[2]>>
                        /\ q[1] \in DOMAIN Blocks /\ q[2] \in 1 .. Len(Blocks[q[1]])
  <2>1. \A b \in DOMAIN Blocks : Blocks[b] \in Seq(Message) /\ b \in Nat \ {0}
    BY SysTypes
  <2>2. \A b \in DOMAIN Blocks : \A i \in DOMAIN Blocks[b] : i \in 1 .. Len(Blocks[b]) /\ i \in Nat \ {0}
    BY <2>1
  <2> QED
    BY <2>1, <2>2, PlaceIs
<1>3. \A b \in DOMAIN Blocks : /\ Len(Blocks[b]) \in Nat \ {0}
                               /\ \A i \in 1 .. Len(Blocks[b]) : <<b, i>> \in Places
  <2>1. \A b \in DOMAIN Blocks : Blocks[b] \in Seq(Message) /\ Blocks[b] # <<>>
    BY SysTypes, BlockNotEmpty
  <2> QED
    BY <2>1, PlaceIs
<1>4. ASSUME NEW p \in Places, UpTo(p) = Applied
      PROVE  \E q \in Places \cup {<<0, 0>>} : UpTo(q) = Applied /\ (q # <<0, 0>> => q \in Applied)
  <2>1. p \in UpTo(p)
    BY <1>2 DEF UpTo, Before
  <2> QED
    BY <1>4, <2>1
<1>5. ASSUME Applied = {}
      PROVE  UpTo(<<0, 0>>) = Applied
  BY <1>2, <1>5 DEF UpTo, Before
<1>6. CASE n = 0
  <2>1. Applied = {}
    BY <1>1, <1>6 DEF Applied
  <2> QED
    BY <1>5, <2>1
<1>7. CASE n # 0
  <2> DEFINE L == IF listener = "apply" THEN Len(frame.txs) ELSE 0
             last == Len(Blocks[n])
             k == last - L
  <2>1. n \in Delivered /\ n \in DOMAIN Blocks /\ n \in Nat /\ n >= 1
        /\ \A b \in Nat : (\A d \in Delivered : d <= b) <=> n <= b
    BY <1>1, <1>7, DeliveredIs
  <2>2. L \in Nat /\ L <= last /\ last \in Nat \ {0} /\ k \in Nat /\ k <= last
    <3>1. last \in Nat \ {0}
      BY <1>3, <2>1
    <3>2. CASE listener # "apply"
      BY <3>1, <3>2
    <3>3. CASE listener = "apply"
      <4>1. /\ Reading.at \in Delivered /\ Reading.txs = Blocks[Reading.at]
            /\ \A b \in Delivered : b <= Reading.at
            /\ Len(frame.txs) <= Len(Reading.txs)
        BY <3>3, LastDelivered DEF LeftInv
      <4>2. Reading.at = n
        BY <1>1, <2>1, <4>1
      <4>3. frame.txs \in Seq(Message)
        BY <3>3, LeftIs
      <4>4. Len(frame.txs) \in Nat /\ Len(frame.txs) <= last
        BY <4>1, <4>2, <4>3
      <4> HIDE DEF last
      <4> QED
        BY <3>1, <3>3, <4>4
    <3> QED
      BY <3>2, <3>3
  <2>3. \A q : q \in Applied <=> q \in Places /\ q[1] <= n /\ (q[1] = n => q[2] <= k)
    <3>1. \A q \in Places : q[1] \in Delivered <=> q[1] <= n
      BY <1>1, <1>2
    <3>2. \A q \in Places : q[1] \in Delivered => ((\A b \in Delivered : b <= q[1]) <=> q[1] = n)
      BY <1>1, <1>2, <2>1
    <3>3. \A q : q \in Applied <=>
            /\ q \in Places /\ q[1] \in Delivered
            /\ listener = "apply" /\ (\A b \in Delivered : b <= q[1])
                 => q[2] <= Len(Blocks[q[1]]) - Len(frame.txs)
      BY DEF Applied
    <3>4. \A q \in Places : q[2] <= Len(Blocks[q[1]])
      BY <1>2, <1>3
    <3>5. listener = "apply" => k = last - Len(frame.txs)
      OBVIOUS
    <3>6. listener # "apply" => k = last
      BY <2>2
    <3> HIDE DEF k, L
    <3> QED
      BY <3>1, <3>2, <3>3, <3>4, <3>5, <3>6
  <2> HIDE DEF k, L
  <2>4. CASE k # 0
    <3> DEFINE p == <<n, k>>
    <3>1. p \in Places
      <4>1. k \in 1 .. last
        BY <2>2, <2>4
      <4> QED
        BY <1>3, <2>1, <4>1
    <3>2. \A q \in Places : ~Before(p, q) <=> q[1] <= n /\ (q[1] = n => q[2] <= k)
      <4> HIDE DEF last
      <4> QED
        BY <1>2, <2>1, <2>2 DEF Before
    <3>3. UpTo(p) = Applied
      BY <2>3, <3>2 DEF UpTo
    <3> QED
      BY <1>4, <3>1, <3>3
  <2>5. CASE k = 0 /\ n = 1
    <3>1. Applied = {}
      BY <1>2, <2>3, <2>5
    <3> QED
      BY <1>5, <3>1
  <2>6. CASE k = 0 /\ n # 1
    <3> DEFINE b == n - 1
               e == Len(Blocks[b])
               p == <<b, e>>
    <3>1. b \in Delivered /\ b \in Nat /\ b # 0
      BY <1>1, <2>1, <2>6
    <3>2. b \in DOMAIN Blocks
      BY <3>1, DeliveredIs
    <3>3. e \in Nat \ {0} /\ \A i \in 1 .. e : <<b, i>> \in Places
      BY <1>3, <3>2
    <3>4. \A q \in Places : q[1] = b => q[2] <= e
      BY <1>2, <3>3
    <3> HIDE DEF e
    <3>5. p \in Places
      BY <3>3
    <3>6. \A q \in Places : q[1] <= n /\ (q[1] = n => q[2] <= k) <=> q[1] <= b
      BY <1>2, <2>6
    <3>7. \A q \in Places : ~Before(p, q) <=> q[1] <= b
      <4> HIDE DEF b
      <4>1. p[1] = b /\ p[2] = e
        OBVIOUS
      <4> HIDE DEF p
      <4> QED
        BY <1>2, <3>1, <3>3, <3>4, <4>1 DEF Before
    <3>8. UpTo(p) = Applied
      BY <2>3, <3>6, <3>7 DEF UpTo
    <3> QED
      BY <1>4, <3>5, <3>8
  <2> QED
    BY <2>4, <2>5, <2>6
<1> QED
  BY <1>6, <1>7

\* The chain up to a place does not change any more.
LEMMA UpToKept ==
  ASSUME SysInv, [Next]_vars, NEW p \in Places \cup {<<0, 0>>}
  PROVE  /\ p \in Places' \cup {<<0, 0>>} /\ UpTo(p)' = UpTo(p)
         /\ \A q \in UpTo(p) : At(q)' = At(q)
<1>1. Longer(Blocks, Blocks') /\ Blocks \in Seq(Seq(Message))
  BY ChainGrows, SysTypes
<1>2. \A b \in DOMAIN Blocks : b \in DOMAIN Blocks' /\ Blocks'[b] = Blocks[b]
  BY <1>1 DEF Longer
<1>3. \A q : q[1] \in DOMAIN Blocks => (q \in Places' <=> q \in Places) /\ At(q)' = At(q)
  <2>1. \A q : q \in Places <=> \E b \in DOMAIN Blocks : q \in {b} \X DOMAIN Blocks[b]
    BY DEF Places
  <2>2. \A q : q \in Places' <=> \E b \in DOMAIN Blocks' : q \in {b} \X DOMAIN Blocks'[b]
    BY DEF Places
  <2>3. \A q, b, D : q \in {b} \X D => q[1] = b
    OBVIOUS
  <2>4. \A q : q[1] \in DOMAIN Blocks => (q \in Places' <=> q \in Places)
    BY <1>2, <2>1, <2>2, <2>3
  <2> QED
    BY <1>2, <2>4 DEF At
<1>4. \A q \in Places : q[1] \in DOMAIN Blocks
  BY PlaceIs
<1>5. \A q \in Places' : q[1] \in Nat \ {0}
  <2>1. DOMAIN Blocks' \subseteq Nat \ {0}
    <3>1. Blocks' \in Seq(Seq(Message))
      <4>1. [P!Next]_P!vars
        BY ServiceNext
      <4>2. P!TypeOK'
        BY <4>1, P!NextTypeOK, ServiceAssumption DEF SysInv
      <4> QED
        BY <4>2 DEF P!TypeOK, P!BuilderTypes
    <3> QED
      BY <3>1
  <2> QED
    BY <2>1 DEF Places
<1>6. \A q \in Places' : ~Before(p, q) => q[1] \in DOMAIN Blocks
  <2>1. p[1] \in DOMAIN Blocks \cup {0}
    BY <1>4
  <2>2. \A b \in DOMAIN Blocks : \A a \in Nat \ {0} : ~(b < a) => a \in DOMAIN Blocks
    BY <1>1
  <2>3. \A a \in Nat \ {0} : 0 < a
    OBVIOUS
  <2> QED
    BY <1>5, <2>1, <2>2, <2>3 DEF Before
<1>7. UpTo(p) = {q \in Places : ~Before(p, q)} /\ UpTo(p)' = {q \in Places' : ~Before(p, q)}
  BY DEF UpTo, Before
<1>8. UpTo(p)' = UpTo(p)
  BY <1>3, <1>4, <1>6, <1>7
<1>9. \A q \in UpTo(p) : At(q)' = At(q)
  BY <1>3, <1>4, <1>7
<1> QED
  BY <1>3, <1>4, <1>8, <1>9

LEMMA IsValueKept ==
  ASSUME NEW v, NEW places, NEW key, \A p \in places : At(p)' = At(p),
         IsValueAfter(v, places, key)
  PROVE  IsValueAfter(v, places, key)'
<1> DEFINE on == {p \in places : Congruent(KeyArg[At(p)], key)}
<1>1. {p \in places : Congruent(KeyArg[At(p)'], key)} = on
  OBVIOUS
<1>2. /\ v \in I32
      /\ on = {} => v = 0
      /\ \A p \in on : (\A q \in on : ~Before(p, q)) => Congruent(v, ValueArg[At(p)] + 1)
  BY DEF IsValueAfter
<1>3. \A p \in on : At(p)' = At(p)
  OBVIOUS
<1>4. IsValueAfter(v, places, key)' <=>
        /\ v \in I32
        /\ on = {} => v = 0
        /\ \A p \in on : (\A q \in on : ~Before(p, q)) => Congruent(v, ValueArg[At(p)'] + 1)
  BY <1>1 DEF IsValueAfter, Before, I32, Congruent
<1> HIDE DEF on
<1> QED
  BY <1>2, <1>3, <1>4

\* The places the old values are of, the later the later the call, and none
\* after what is applied.
FromChain(place) ==
  \A i \in DOMAIN calls :
    /\ \A j \in 1 .. i : ~Before(place[i], place[j])
    /\ IsValueAfter(calls[i].OldVal, UpTo(place[i]), KeyArg[calls[i].id])
    /\ \A p \in UpTo(place[i]) : At(p) # calls[i].id
    /\ place[i] # <<0, 0>> => place[i] \in Applied

HistoryInv ==
  Gapless => \E place \in [DOMAIN calls -> Places \cup {<<0, 0>>}] : FromChain(place)

LEMMA HistoryKept ==
  ASSUME SysInv, [Next]_vars, calls' = calls, Applied \subseteq Applied',
         NEW place \in [DOMAIN calls -> Places \cup {<<0, 0>>}], FromChain(place)
  PROVE  place \in [DOMAIN calls' -> Places' \cup {<<0, 0>>}] /\ FromChain(place)'
<1>1. \A i \in DOMAIN calls : place[i] \in Places \cup {<<0, 0>>}
  OBVIOUS
<1>2. place \in [DOMAIN calls' -> Places' \cup {<<0, 0>>}]
  <2>1. \A i \in DOMAIN calls : place[i] \in Places' \cup {<<0, 0>>}
    BY <1>1, UpToKept
  <2> QED
    BY <2>1
<1>3. ASSUME NEW i \in DOMAIN calls
      PROVE  /\ IsValueAfter(calls[i].OldVal, UpTo(place[i]), KeyArg[calls[i].id])'
             /\ \A p \in UpTo(place[i])' : At(p)' # calls'[i].id
  <2>1. UpTo(place[i])' = UpTo(place[i]) /\ \A q \in UpTo(place[i]) : At(q)' = At(q)
    BY <1>1, UpToKept
  <2>2. /\ IsValueAfter(calls[i].OldVal, UpTo(place[i]), KeyArg[calls[i].id])
        /\ \A p \in UpTo(place[i]) : At(p) # calls[i].id
    BY DEF FromChain
  <2>3. ASSUME NEW v, v = calls[i].OldVal, NEW k, k = KeyArg[calls[i].id], NEW S, S = UpTo(place[i])
        PROVE  IsValueAfter(calls[i].OldVal, UpTo(place[i]), KeyArg[calls[i].id])'
    <3>1. IsValueAfter(v, S, k)'
      BY <2>1, <2>2, <2>3, IsValueKept
    <3>2. v = calls'[i].OldVal /\ k = KeyArg[calls'[i].id] /\ S = UpTo(place[i])'
      BY <2>1, <2>3
    <3> QED
      BY <3>1, <3>2 DEF IsValueAfter
  <2> QED
    BY <2>1, <2>2, <2>3
<1>4. ASSUME NEW i \in DOMAIN calls
      PROVE  /\ \A j \in 1 .. i : ~Before(place[i], place[j])'
             /\ place[i] # <<0, 0>> => place[i] \in Applied'
  BY DEF FromChain, Before
<1> QED
  BY <1>2, <1>3, <1>4 DEF FromChain

LEMMA HistoryAppend ==
  ASSUME CallTypes, UNCHANGED <<Blocks, frames, seen, listener, frame>>,
         NEW c \in [id : Request, OldVal : I32], calls' = Append(calls, c),
         NEW place \in [DOMAIN calls -> Places \cup {<<0, 0>>}], FromChain(place), SysInv,
         NEW p \in Places \cup {<<0, 0>>}, UpTo(p) = Applied, p # <<0, 0>> => p \in Applied,
         IsValueAfter(c.OldVal, Applied, KeyArg[c.id]), \A q \in Applied : At(q) # c.id
  PROVE  \E pl \in [DOMAIN calls' -> Places' \cup {<<0, 0>>}] : FromChain(pl)'
<1>0. PICK n, pl : n = Len(calls) /\ pl = [i \in 1 .. n + 1 |-> IF i = n + 1 THEN p ELSE place[i]]
  OBVIOUS
<1>1. /\ n \in Nat /\ DOMAIN calls = 1 .. n /\ DOMAIN calls' = 1 .. n + 1
      /\ \A i \in 1 .. n : calls'[i] = calls[i]
      /\ calls'[n + 1] = c
  <2> DEFINE C == [id : Request, OldVal : I32]
  <2>1. calls \in Seq(C) /\ c \in C
    BY DEF CallTypes
  <2> HIDE DEF C
  <2>2. /\ Len(calls) \in Nat /\ DOMAIN calls = 1 .. Len(calls)
        /\ Append(calls, c) \in Seq(C) /\ Len(Append(calls, c)) = Len(calls) + 1
        /\ \A i \in 1 .. Len(calls) : Append(calls, c)[i] = calls[i]
        /\ Append(calls, c)[Len(calls) + 1] = c
    BY <2>1, AppendProperties
  <2>3. DOMAIN Append(calls, c) = 1 .. Len(calls) + 1
    BY <2>2
  <2> QED
    BY <1>0, <2>2, <2>3
<1>2. /\ Places' = Places /\ Applied' = Applied
      /\ \A q : At(q)' = At(q) /\ UpTo(q)' = UpTo(q)
  <2>1. Places' = Places /\ Delivered' = Delivered
    BY DEF Places, Delivered
  <2> QED
    BY <2>1 DEF Applied, At, UpTo, Before
<1>3. \A i \in 1 .. n + 1 : i \in 1 .. n \/ i = n + 1
  BY <1>1
<1>4. /\ \A i \in 1 .. n : pl[i] = place[i] /\ i \in 1 .. n + 1 /\ i # n + 1
      /\ pl[n + 1] = p /\ n + 1 \in 1 .. n + 1
      /\ pl \in [1 .. n + 1 -> Places \cup {<<0, 0>>}]
  <2>1. /\ \A i \in 1 .. n : i \in 1 .. n + 1 /\ i # n + 1
        /\ n + 1 \in 1 .. n + 1
    BY <1>1
  <2>2. \A i \in 1 .. n + 1 : pl[i] \in Places \cup {<<0, 0>>}
    BY <1>0, <1>1, <1>3
  <2> QED
    BY <1>0, <2>1, <2>2
<1>5. \A q \in Places \cup {<<0, 0>>} : q = <<q[1], q[2]>> /\ q[1] \in Nat /\ q[2] \in Nat
  BY PlaceIs
<1>6. ASSUME NEW q \in Places \cup {<<0, 0>>}, q # <<0, 0>> => q \in Applied
      PROVE  ~Before(p, q)
  <2>1. CASE q = <<0, 0>>
    BY <1>5, <2>1 DEF Before
  <2>2. CASE q # <<0, 0>>
    BY <1>6, <2>2 DEF UpTo
  <2> QED
    BY <2>1, <2>2
<1>7. ASSUME NEW i \in 1 .. n + 1, NEW j \in 1 .. i
      PROVE  ~Before(pl[i], pl[j])
  <2>1. CASE i \in 1 .. n
    <3>1. j \in 1 .. n
      BY <1>1, <2>1
    <3> QED
      BY <1>1, <1>4, <2>1, <3>1 DEF FromChain
  <2>2. CASE i = n + 1
    <3>1. j \in 1 .. n + 1
      BY <2>2
    <3>2. pl[j] \in Places \cup {<<0, 0>>} /\ (pl[j] # <<0, 0>> => pl[j] \in Applied)
      BY <1>1, <1>3, <1>4, <3>1 DEF FromChain
    <3> QED
      BY <1>4, <1>6, <2>2, <3>2
  <2> QED
    BY <1>3, <2>1, <2>2
<1>8. ASSUME NEW i \in 1 .. n + 1
      PROVE  /\ IsValueAfter(calls'[i].OldVal, UpTo(pl[i]), KeyArg[calls'[i].id])
             /\ \A q \in UpTo(pl[i]) : At(q) # calls'[i].id
             /\ pl[i] # <<0, 0>> => pl[i] \in Applied
  <2>1. CASE i \in 1 .. n
    <3>1. pl[i] = place[i] /\ calls'[i] = calls[i] /\ i \in DOMAIN calls
      BY <1>1, <1>4, <2>1
    <3> QED
      BY <3>1 DEF FromChain
  <2>2. CASE i = n + 1
    <3>1. pl[i] = p /\ calls'[i] = c
      BY <1>1, <1>4, <2>2
    <3> QED
      BY <3>1
  <2> QED
    BY <1>3, <2>1, <2>2
<1>9. ASSUME NEW i \in 1 .. n + 1
      PROVE  IsValueAfter(calls[i].OldVal, UpTo(pl[i]), KeyArg[calls[i].id])'
  <2> SUFFICES ASSUME NEW v, v = calls'[i].OldVal, NEW k, k = KeyArg[calls'[i].id],
                      NEW S, S = UpTo(pl[i])
               PROVE  IsValueAfter(calls[i].OldVal, UpTo(pl[i]), KeyArg[calls[i].id])'
    OBVIOUS
  <2>1. IsValueAfter(v, S, k)'
    BY <1>2, <1>8, IsValueKept
  <2>2. S = UpTo(pl[i])'
    BY <1>2
  <2> QED
    BY <2>1, <2>2 DEF IsValueAfter
<1>10. FromChain(pl)'
  <2>1. \A i \in 1 .. n + 1 :
          /\ \A j \in 1 .. i : ~Before(pl[i], pl[j])'
          /\ IsValueAfter(calls[i].OldVal, UpTo(pl[i]), KeyArg[calls[i].id])'
          /\ \A q \in UpTo(pl[i])' : At(q)' # calls'[i].id
          /\ pl[i] # <<0, 0>> => pl[i] \in Applied'
    BY <1>2, <1>7, <1>8, <1>9 DEF Before
  <2> QED
    BY <1>1, <2>1 DEF FromChain
<1> QED
  BY <1>1, <1>2, <1>4, <1>10

\* The step in which the wasm function is called.
LEMMA CallStep ==
  ASSUME [Next]_vars, calls' # calls
  PROVE  \E r \in Request :
           /\ pc[r] = "call" /\ runtimeMu' = r
           /\ UNCHANGED <<serviceVars, env, listener, frame>>
           /\ calls' = Append(calls, [id |-> r, OldVal |-> OldVal(r)])
<1>1. PICK r \in Request : UseWasmFunction(r) /\ UNCHANGED serviceVars
  BY DEF Next, RuntimeStep, Arrive, Lock, SendFails, Send, Apply, ListenRead, Idle, vars
<1> QED
  BY <1>1 DEF UseWasmFunction, R!UseWasmFunction, R!listenerVars

LEMMA HistoryNext ==
  ASSUME SysInv, Q!TypeOK, Q!UnsentInv, CallTypes, EnvTypes, EnvInv, LeftInv, PrefixInv,
         HistoryInv, [Next]_vars
  PROVE  HistoryInv'
<1> SUFFICES ASSUME Gapless'
             PROVE  \E place \in [DOMAIN calls' -> Places' \cup {<<0, 0>>}] : FromChain(place)'
  BY DEF HistoryInv
<1>1. Gapless
  BY PrefixNext
<1>2. PICK place \in [DOMAIN calls -> Places \cup {<<0, 0>>}] : FromChain(place)
  BY <1>1 DEF HistoryInv
<1>3. Applied \subseteq Applied'
  BY AppliedNext, ApplyOne
<1>4. CASE calls' = calls
  BY <1>2, <1>3, <1>4, HistoryKept
<1>5. CASE calls' # calls
  <2>1. PICK r \in Request :
          /\ pc[r] = "call" /\ UNCHANGED <<serviceVars, listener, frame>>
          /\ calls' = Append(calls, [id |-> r, OldVal |-> OldVal(r)])
    BY <1>5, CallStep
  <2>2. PICK p \in Places \cup {<<0, 0>>} : UpTo(p) = Applied /\ (p # <<0, 0>> => p \in Applied)
    BY <1>1, AppliedIsUpTo
  <2>3. r \in Message /\ r \notin P!Held
    BY <2>1, NotHeldBefore
  <2>4. IsValueAfter(OldVal(r), Applied, KeyArg[r])
    BY <2>3, EnvIsReplay DEF StoreIsReplay
  <2>5. \A q \in Applied : At(q) # r
    BY <2>3, PlaceHeld DEF Applied
  <2>6. ASSUME NEW c, c = [id |-> r, OldVal |-> OldVal(r)]
        PROVE  \E pl \in [DOMAIN calls' -> Places' \cup {<<0, 0>>}] : FromChain(pl)'
    <3>1. c \in [id : Request, OldVal : I32] /\ c.id = r /\ c.OldVal = OldVal(r)
      BY <2>3, <2>6, OldValInRange
    <3>2. calls' = Append(calls, c) /\ UNCHANGED <<Blocks, frames, seen, listener, frame>>
      BY <2>1, <2>6 DEF serviceVars
    <3>3. IsValueAfter(c.OldVal, Applied, KeyArg[c.id]) /\ \A q \in Applied : At(q) # c.id
      BY <2>4, <2>5, <3>1
    <3> QED
      BY <1>2, <2>2, <3>1, <3>2, <3>3, HistoryAppend
  <2> QED
    BY <2>6
<1> QED
  BY <1>4, <1>5

\* While no block was dropped on the way, every old value is the value its key had
\* at some place of the chain before the transaction's own, and the places do not
\* go back from call to call: calls see one history, if late.
THEOREM OldValsAreOfOneHistory == Spec => []OldValFromChain
<1>1. Init => LeftInv /\ EnvInv /\ EnvTypes /\ CallTypes /\ PrefixInv /\ HistoryInv
  <2> SUFFICES ASSUME Init
               PROVE  LeftInv /\ EnvInv /\ EnvTypes /\ CallTypes /\ PrefixInv /\ HistoryInv
    OBVIOUS
  <2>1. listener = "read" /\ DOMAIN env = {} /\ seen[Here] = 0 /\ calls = <<>>
    BY SystemAssumption DEF Init, R!Init, O!Init
  <2>2. Delivered = {} /\ Applied = {}
    BY <2>1 DEF Applied, Delivered
  <2>3. CallTypes
    BY DEF Init, R!Init, CallTypes
  <2>4. PrefixInv
    <3>1. 1 .. 0 = {} /\ 0 \in Nat
      OBVIOUS
    <3> QED
      BY <2>2, <3>1 DEF PrefixInv
  <2>5. HistoryInv
    <3>1. [i \in {} |-> <<0, 0>>] \in [DOMAIN calls -> Places \cup {<<0, 0>>}] /\ DOMAIN calls = {}
      BY <2>1
    <3> QED
      BY <3>1 DEF HistoryInv, FromChain
  <2> QED
    BY <2>1, <2>2, <2>3, <2>4, <2>5 DEF LeftInv, EnvInv, EnvTypes
<1>2. Spec => [](SysInv /\ Q!TypeOK /\ Q!UnsentInv)
  <2>1. Q!Spec => []Q!UnsentInv
    BY Q!NotSentBefore, RuntimeAssumed
  <2> QED
    BY <2>1, RuntimeRuns, SysInvariant, RuntimeHolds, PTL
<1>3. Spec => [](LeftInv /\ EnvTypes)
  BY <1>1, <1>2, LeftNext, EnvNext, PTL DEF Spec
<1>4. Spec => [](EnvInv /\ CallTypes)
  BY <1>1, <1>2, <1>3, EnvNextInv, CallNext, PTL DEF Spec
<1>5. SysInv /\ PrefixInv /\ [Next]_vars => PrefixInv'
  BY PrefixNext
<1>6. Spec => []PrefixInv
  BY <1>1, <1>2, <1>5, PTL DEF Spec
<1>7. SysInv /\ Q!TypeOK /\ Q!UnsentInv /\ CallTypes /\ EnvTypes /\ EnvInv /\ LeftInv
        /\ PrefixInv /\ HistoryInv /\ [Next]_vars => HistoryInv'
  BY HistoryNext
<1>8. Spec => []HistoryInv
  BY <1>1, <1>2, <1>3, <1>4, <1>6, <1>7, PTL DEF Spec
<1>9. HistoryInv => OldValFromChain
  BY DEF HistoryInv, FromChain, OldValFromChain
<1> QED
  BY <1>8, <1>9, PTL

-----------------------------------------------------------------------------
(***************************************************************************)
(* The service keeps the order in which the runtime's transactions come.   *)
(***************************************************************************)
OneBefore(s, k, a) == \E l \in DOMAIN s : l < k /\ s[l] = a

\* a comes before b to the chain: wherever b is, a is further on.
InService(a, b) ==
  /\ \A p \in Places : At(p) = b => \E q \in Places : At(q) = a /\ Before(q, p)
  /\ builder = "block" =>
       \A k \in DOMAIN job.txs : job.txs[k] = b => a \in P!Committed \/ OneBefore(job.txs, k, a)
  /\ ~P!Resetting =>
       \A k \in DOMAIN allTransactions : allTransactions[k] = b =>
         a \in P!Committed \cup P!Making \/ OneBefore(allTransactions, k, a)

OnTheWire(a, b) ==
  /\ reader[Here] = "lock" /\ msg[Here] = b => a \in P!Held
  /\ \A k \in DOMAIN inbox[Here] : inbox[Here][k] = b =>
       \/ a \in P!Held
       \/ reader[Here] = "lock" /\ msg[Here] = a
       \/ OneBefore(inbox[Here], k, a)

Earlier(a, b) == InService(a, b) /\ OnTheWire(a, b)

LEMMA InServiceKept ==
  ASSUME NEW a, NEW b, InService(a, b), UNCHANGED <<Blocks, allTransactions>>,
         builder = "block" <=> builder' = "block", builder = "block" => job' = job,
         P!Resetting => P!Resetting'
  PROVE  InService(a, b)'
<1>1. P!Committed' = P!Committed /\ P!Making' = P!Making
  BY DEF P!Committed, P!Making, P!Elems
<1>2. Places' = Places /\ \A p : At(p)' = At(p)
  BY DEF Places, At
<1> QED
  BY <1>1, <1>2 DEF InService, OneBefore, Before

LEMMA OnTheWireKept ==
  ASSUME NEW a, NEW b, OnTheWire(a, b), inbox'[Here] = inbox[Here], P!Held \subseteq P!Held',
         reader'[Here] = "lock" <=> reader[Here] = "lock",
         reader[Here] = "lock" => msg'[Here] = msg[Here]
  PROVE  OnTheWire(a, b)'
  BY DEF OnTheWire, OneBefore

LEMMA WireTypes ==
  ASSUME SysInv
  PROVE  inbox \in [Conn -> Seq(Message)] /\ mu \in Conn \cup {None} /\ None \notin Conn
  BY SystemAssumption DEF SysInv, P!TypeOK, P!NetTypes, P!ReaderTypes

\* Steps that take no message from one place to another.
LEMMA EarlierStay ==
  ASSUME SysInv, NEW a, NEW b, Earlier(a, b), NEW c \in Conn,
         \/ P!Accept(c) \/ P!Register(c) \/ P!Receive(c) \/ P!Disconnect(c)
         \/ P!Take(c) \/ P!Write(c)
  PROVE  Earlier(a, b)'
<1>1. UNCHANGED <<Blocks, allTransactions, builder, job, inbox, msg>>
  BY DEF P!Accept, P!Register, P!Receive, P!Disconnect, P!Take, P!Write, P!netVars,
         P!readerVars, P!builderVars
<1>2. P!Held' = P!Held
  BY <1>1, P!HeldUnchanged, ServiceAssumption
<1>3. reader' = reader \/ (reader[c] = "off" /\ reader' = [reader EXCEPT ![c] = "read"])
  BY DEF SysInv, P!LogInv, P!SafetyInv, P!MutexInv, P!Accept, P!Register, P!Receive,
         P!Disconnect, P!Take, P!Write, P!readerVars
<1>4. /\ P!Resetting => P!Resetting'
      /\ reader'[Here] = "lock" <=> reader[Here] = "lock"
  BY <1>3, SysTypes DEF P!Resetting
<1> QED
  BY <1>1, <1>2, <1>4, InServiceKept, OnTheWireKept DEF Earlier

LEMMA EarlierRead ==
  ASSUME SysInv, NEW a, NEW b, Earlier(a, b), a \notin Malformed, NEW c \in Conn,
         P!ReadMessage(c) \/ P!ReadError(c)
  PROVE  Earlier(a, b)'
<1>1. /\ UNCHANGED <<Blocks, allTransactions, builder, job>>
      /\ reader[c] = "read"
      /\ \/ reader' = reader
         \/ \E s \in {"lock", "done"} : reader' = [reader EXCEPT ![c] = s]
  BY DEF P!ReadMessage, P!ReadError, P!builderVars
<1>2. P!Held' = P!Held
  BY <1>1, P!HeldUnchanged, ServiceAssumption
<1>3. P!Resetting => P!Resetting'
  BY <1>1, SysTypes DEF P!Resetting
<1>4. InService(a, b)'
  BY <1>1, <1>3, InServiceKept DEF Earlier
<1>5. CASE c # Here
  <2>1. inbox'[Here] = inbox[Here] /\ msg'[Here] = msg[Here] /\ reader'[Here] = reader[Here]
    BY <1>5, SysTypes, WireTypes DEF P!ReadMessage, P!ReadError
  <2> QED
    BY <1>2, <1>4, <2>1, OnTheWireKept DEF Earlier
<1>6. CASE c = Here /\ P!ReadError(c)
  <2>1. inbox'[Here] = <<>> /\ reader'[Here] = "done"
    BY <1>6, SysTypes, WireTypes DEF P!ReadError
  <2> QED
    BY <1>4, <2>1 DEF Earlier, OnTheWire
<1>7. CASE c = Here /\ P!ReadMessage(c)
  <2> DEFINE s == inbox[Here]
             t == Tail(s)
  <2>1. /\ s \in Seq(Message) /\ s # <<>> /\ inbox'[Here] = t /\ reader[Here] = "read"
        /\ \/ Head(s) \in Malformed /\ reader'[Here] = "read"
           \/ reader'[Here] = "lock" /\ msg'[Here] = Head(s)
    BY <1>7, SysTypes, WireTypes DEF P!ReadMessage
  <2>2. \A k \in DOMAIN s : s[k] = b => a \in P!Held \/ OneBefore(s, k, a)
    BY <2>1 DEF Earlier, OnTheWire
  <2> HIDE DEF s
  <2>3. /\ \A k \in DOMAIN t : k + 1 \in DOMAIN s /\ t[k] = s[k + 1]
        /\ \A k \in DOMAIN s : k = 1 \/ (k - 1 \in DOMAIN t /\ t[k - 1] = s[k])
        /\ Head(s) = s[1] /\ 1 \in DOMAIN s
        /\ \A k \in DOMAIN s \cup DOMAIN t : k \in Nat
    BY <2>1
  <2> HIDE DEF t
  <2>4. ASSUME reader'[Here] = "lock", msg'[Here] = b
        PROVE  a \in P!Held
    <3>1. s[1] = b
      BY <2>1, <2>3, <2>4
    <3>2. ~OneBefore(s, 1, a)
      <4>1. \A l \in DOMAIN s : ~(l < 1)
        BY <2>1
      <4> QED
        BY <4>1 DEF OneBefore
    <3> QED
      BY <2>2, <2>3, <3>1, <3>2
  <2>5. ASSUME NEW k \in DOMAIN t, t[k] = b, a \notin P!Held
        PROVE  (reader'[Here] = "lock" /\ msg'[Here] = a) \/ OneBefore(t, k, a)
    <3>1. k + 1 \in DOMAIN s /\ s[k + 1] = b /\ k \in Nat
      BY <2>3, <2>5
    <3>2. PICK l \in DOMAIN s : l < k + 1 /\ s[l] = a
      BY <2>2, <2>5, <3>1 DEF OneBefore
    <3>3. CASE l = 1
      BY <2>1, <2>3, <3>2, <3>3
    <3>4. CASE l # 1
      <4>1. l - 1 \in DOMAIN t /\ t[l - 1] = a /\ l \in Nat
        BY <2>3, <3>2, <3>4
      <4>2. l - 1 < k
        BY <3>1, <3>2, <4>1
      <4> QED
        BY <4>1, <4>2 DEF OneBefore
    <3> QED
      BY <3>3, <3>4
  <2>6. OnTheWire(a, b)'
    BY <1>2, <2>1, <2>4, <2>5 DEF OnTheWire, OneBefore
  <2> QED
    BY <1>4, <2>6 DEF Earlier
<1> QED
  BY <1>5, <1>6, <1>7

LEMMA EarlierPool ==
  ASSUME SysInv, NEW a, NEW b \in Request, Earlier(a, b), NEW c \in Conn, P!Pool(c)
  PROVE  Earlier(a, b)'
<1>1. /\ UNCHANGED <<Blocks, builder, job, inbox, msg>>
      /\ allTransactions' = Append(allTransactions, msg[c])
      /\ reader[c] = "lock" /\ mu = None
      /\ \E s \in {"block", "ack"} : reader' = [reader EXCEPT ![c] = s]
  BY DEF P!Pool, P!MutexFree, P!PoolWith, P!netVars, P!builderVars
<1>2. P!Held' = P!Held \cup {msg[c]} /\ P!Making' = P!Making /\ P!Committed' = P!Committed
  BY P!HeldPool, ServiceAssumption DEF SysInv
<1>3. msg[c] \in Message /\ allTransactions \in Seq(Message) /\ origin[msg[c]] = c
  <2>1. reader[c] \in P!Deciding /\ msg[c] \in P!Unpooled(c)
    BY <1>1 DEF P!Deciding, P!Unpooled
  <2> QED
    BY <2>1, SysTypes DEF SysInv, P!LogInv, P!SafetyInv, P!WaitingInv
<1>4. ~P!Resetting
  BY <1>1, WireTypes DEF SysInv, P!LogInv, P!SafetyInv, P!MutexInv, P!Holding, P!Resetting
<1>5. Places' = Places /\ \A p : At(p)' = At(p)
  BY <1>1 DEF Places, At
<1>6. msg[c] = b => c = Here
  BY <1>3, SystemAssumption DEF SysInv, OwnInv
<1> DEFINE s == allTransactions
           t == Append(s, msg[c])
<1>7. ASSUME NEW k \in DOMAIN t, t[k] = b
      PROVE  a \in P!Committed \cup P!Making \/ OneBefore(t, k, a)
  <2>1. /\ Len(s) \in Nat /\ DOMAIN s = 1 .. Len(s) /\ DOMAIN t = 1 .. Len(s) + 1
        /\ \A i \in 1 .. Len(s) : t[i] = s[i] /\ i \in DOMAIN t /\ i < Len(s) + 1
        /\ t[Len(s) + 1] = msg[c]
    <3>1. /\ t \in Seq(Message) /\ Len(t) = Len(s) + 1 /\ Len(s) \in Nat
          /\ \A i \in 1 .. Len(s) : t[i] = s[i]
          /\ t[Len(s) + 1] = msg[c] /\ DOMAIN s = 1 .. Len(s)
      BY <1>3, AppendProperties
    <3> QED
      BY <3>1
  <2> HIDE DEF t
  <2>2. CASE k \in DOMAIN s
    <3>1. s[k] = b
      BY <1>7, <2>1, <2>2
    <3>2. a \in P!Committed \cup P!Making \/ OneBefore(s, k, a)
      BY <1>4, <2>2, <3>1 DEF Earlier, InService
    <3> QED
      BY <2>1, <3>2 DEF OneBefore
  <2>3. CASE k \notin DOMAIN s
    <3>1. k = Len(s) + 1
      BY <1>7, <2>1, <2>3
    <3>2. msg[Here] = b /\ reader[Here] = "lock"
      BY <1>1, <1>6, <1>7, <2>1, <3>1
    <3>3. a \in P!Held
      BY <3>2 DEF Earlier, OnTheWire
    <3>4. CASE a \in P!Elems(s)
      BY <2>1, <3>1, <3>4 DEF P!Elems, OneBefore
    <3> QED
      BY <3>3, <3>4 DEF P!Held
  <2> QED
    BY <2>2, <2>3
<1>8. InService(a, b)'
  BY <1>1, <1>2, <1>5, <1>7 DEF Earlier, InService, OneBefore, Before
<1>9. CASE c # Here
  <2>1. reader'[Here] = reader[Here]
    BY <1>1, <1>9, SysTypes
  <2> QED
    BY <1>1, <1>2, <1>8, <2>1, OnTheWireKept DEF Earlier
<1>10. CASE c = Here
  <2>1. reader'[Here] # "lock" /\ reader[Here] = "lock"
    BY <1>1, <1>10, SysTypes
  <2>2. OnTheWire(a, b)'
    BY <1>1, <1>2, <1>10, <2>1 DEF Earlier, OnTheWire, OneBefore
  <2> QED
    BY <1>8, <2>2 DEF Earlier
<1> QED
  BY <1>9, <1>10

LEMMA EarlierHandOver ==
  ASSUME SysInv, NEW a, NEW b, Earlier(a, b), NEW c \in Conn, P!HandOver(c)
  PROVE  Earlier(a, b)'
<1>1. /\ UNCHANGED <<Blocks, allTransactions, inbox, msg>> /\ builder = "idle"
      /\ \/ /\ reader[c] = "block" /\ builder' = "block" /\ job'.txs = allTransactions
            /\ reader' = [reader EXCEPT ![c] = "reset"]
         \/ /\ reader[c] = "ack" /\ builder' = "cast"
            /\ reader' = [reader EXCEPT ![c] = "unlock"]
  BY DEF P!HandOver, P!netVars
<1>2. P!Held' = P!Held /\ P!Committed' = P!Committed /\ P!Making = {}
  BY P!HeldHandOver, ServiceAssumption
<1>3. ~P!Resetting
  BY <1>1, WireTypes DEF SysInv, P!LogInv, P!SafetyInv, P!MutexInv, P!Holding, P!Resetting
<1>4. reader'[Here] = "lock" <=> reader[Here] = "lock"
  BY <1>1, SysTypes
<1>5. OnTheWire(a, b)'
  BY <1>1, <1>2, <1>4, OnTheWireKept DEF Earlier
<1>6. Places' = Places /\ \A p : At(p)' = At(p)
  BY <1>1 DEF Places, At
<1>7. \A k \in DOMAIN allTransactions : allTransactions[k] = b =>
        a \in P!Committed \/ OneBefore(allTransactions, k, a)
  BY <1>2, <1>3 DEF Earlier, InService
<1>8. CASE reader[c] = "block"
  <2>1. builder' = "block" /\ job'.txs = allTransactions /\ P!Resetting'
    BY <1>1, <1>8, SysTypes DEF P!Resetting
  <2> QED
    BY <1>1, <1>2, <1>5, <1>6, <1>7, <2>1 DEF Earlier, InService, OneBefore, Before
<1>9. CASE reader[c] = "ack"
  BY <1>1, <1>2, <1>5, <1>6, <1>7, <1>9 DEF Earlier, InService, OneBefore, Before
<1> QED
  BY <1>1, <1>8, <1>9

LEMMA EarlierUnlock ==
  ASSUME SysInv, NEW a, NEW b, Earlier(a, b), NEW c \in Conn, P!Unlock(c)
  PROVE  Earlier(a, b)'
<1>1. /\ UNCHANGED <<Blocks, builder, job, inbox>>
      /\ reader[c] \in {"reset", "unlock"}
      /\ reader[c] = "reset" => allTransactions' = <<>>
      /\ reader[c] = "unlock" => allTransactions' = allTransactions
      /\ reader' = [reader EXCEPT ![c] = "read"] /\ msg' = [msg EXCEPT ![c] = None]
  BY DEF P!Unlock, P!PoolAfterBlock, P!netVars, P!builderVars
<1>2. P!Held' = P!Held /\ P!Committed' = P!Committed /\ P!Making' = P!Making
  BY P!HeldUnlock, ServiceAssumption DEF SysInv, P!LogInv, P!SafetyInv
<1>3. /\ reader'[Here] = "lock" <=> reader[Here] = "lock"
      /\ reader[Here] = "lock" => msg'[Here] = msg[Here]
  BY <1>1, SysTypes
<1>4. OnTheWire(a, b)'
  BY <1>1, <1>2, <1>3, OnTheWireKept DEF Earlier
<1>5. Places' = Places /\ \A p : At(p)' = At(p)
  BY <1>1 DEF Places, At
<1>6. CASE reader[c] = "reset"
  BY <1>1, <1>2, <1>4, <1>5, <1>6 DEF Earlier, InService, OneBefore, Before
<1>7. CASE reader[c] = "unlock"
  <2>1. ~P!Resetting
    BY <1>7, WireTypes DEF SysInv, P!LogInv, P!SafetyInv, P!MutexInv, P!Holding, P!Resetting
  <2> QED
    BY <1>1, <1>4, <1>7, <2>1, InServiceKept DEF Earlier
<1> QED
  BY <1>1, <1>6, <1>7

LEMMA EarlierAddBlock ==
  ASSUME SysInv, NEW a, NEW b, Earlier(a, b), P!AddBlock
  PROVE  Earlier(a, b)'
<1> DEFINE n == Len(Blocks)
           s == job.txs
<1>1. /\ UNCHANGED <<allTransactions, inbox, msg, reader>>
      /\ builder = "block" /\ builder' = "cast" /\ Blocks' = Append(Blocks, s)
  BY DEF P!AddBlock, P!netVars, P!readerVars
<1>2. P!Held' = P!Held /\ P!Committed' = P!Committed \cup P!Making
  BY P!HeldAddBlock, ServiceAssumption DEF SysInv
<1>3. OnTheWire(a, b)'
  BY <1>1, <1>2, OnTheWireKept DEF Earlier
<1>4. /\ Blocks \in Seq(Seq(Message)) /\ s \in Seq(Message)
      /\ n \in Nat /\ DOMAIN Blocks = 1 .. n /\ DOMAIN Blocks' = 1 .. n + 1
      /\ \A i \in 1 .. n : Blocks'[i] = Blocks[i] /\ i < n + 1 /\ i \in 1 .. n + 1
      /\ Blocks'[n + 1] = s /\ n + 1 \in 1 .. n + 1 /\ n + 1 \notin 1 .. n
      /\ \A i \in 1 .. n + 1 : i \in 1 .. n \/ i = n + 1
  <2>1. Blocks \in Seq(Seq(Message)) /\ s \in Seq(Message)
    BY <1>1, SysTypes DEF P!Job
  <2>2. /\ Append(Blocks, s) \in Seq(Seq(Message))
        /\ Len(Append(Blocks, s)) = n + 1 /\ n \in Nat /\ DOMAIN Blocks = 1 .. n
        /\ \A i \in 1 .. n : Append(Blocks, s)[i] = Blocks[i]
        /\ Append(Blocks, s)[n + 1] = s
    BY <2>1, AppendProperties
  <2>3. DOMAIN Append(Blocks, s) = 1 .. n + 1
    BY <2>2
  <2>4. /\ \A i \in 1 .. n : i < n + 1 /\ i \in 1 .. n + 1
        /\ n + 1 \in 1 .. n + 1 /\ n + 1 \notin 1 .. n
        /\ \A i \in 1 .. n + 1 : i \in 1 .. n \/ i = n + 1
    BY <2>2
  <2> QED
    BY <1>1, <2>1, <2>2, <2>3, <2>4
<1>5. PICK N : N = n + 1
  OBVIOUS
<1> HIDE DEF n, s
<1>6. /\ \A p \in Places' : \/ p \in Places /\ At(p)' = At(p) /\ p[1] < N
                            \/ p[1] = N /\ p[2] \in DOMAIN s /\ At(p)' = s[p[2]]
      /\ \A p \in Places : p \in Places' /\ At(p)' = At(p) /\ p[1] < N
      /\ \A k \in DOMAIN s : <<N, k>> \in Places' /\ At(<<N, k>>)' = s[k]
  <2>1. \A p : p \in Places <=> \E e \in 1 .. n : p \in {e} \X DOMAIN Blocks[e]
    BY <1>4 DEF Places
  <2>2. \A p : p \in Places' <=> \E e \in 1 .. n + 1 : p \in {e} \X DOMAIN Blocks'[e]
    BY <1>4 DEF Places
  <2>3. \A p, e, D : p \in {e} \X D => p[1] = e /\ p[2] \in D
    OBVIOUS
  <2>4. \A p : At(p)' = Blocks'[p[1]][p[2]] /\ At(p) = Blocks[p[1]][p[2]]
    BY DEF At
  <2>5. ASSUME NEW p \in Places'
        PROVE  \/ p \in Places /\ At(p)' = At(p) /\ p[1] < N
               \/ p[1] = N /\ p[2] \in DOMAIN s /\ At(p)' = s[p[2]]
    <3>1. PICK e \in 1 .. n + 1 : p \in {e} \X DOMAIN Blocks'[e]
      BY <2>2
    <3>2. p[1] = e /\ p[2] \in DOMAIN Blocks'[e]
      BY <2>3, <3>1
    <3>3. CASE e \in 1 .. n
      BY <1>4, <1>5, <2>1, <2>4, <3>1, <3>2, <3>3
    <3>4. CASE e = n + 1
      BY <1>4, <1>5, <2>4, <3>2, <3>4
    <3> QED
      BY <1>4, <3>3, <3>4
  <2>6. ASSUME NEW p \in Places
        PROVE  p \in Places' /\ At(p)' = At(p) /\ p[1] < N
    <3>1. PICK e \in 1 .. n : p \in {e} \X DOMAIN Blocks[e]
      BY <2>1
    <3>2. p[1] = e
      BY <2>3, <3>1
    <3> QED
      BY <1>4, <1>5, <2>2, <2>4, <3>1, <3>2
  <2>7. ASSUME NEW k \in DOMAIN s
        PROVE  <<N, k>> \in Places' /\ At(<<N, k>>)' = s[k]
    <3>1. <<N, k>> \in {N} \X DOMAIN Blocks'[N]
      BY <1>4, <1>5
    <3> QED
      BY <1>4, <1>5, <2>2, <2>4, <3>1
  <2> QED
    BY <2>5, <2>6, <2>7
<1>7. \A k \in DOMAIN s : k \in Nat
  BY <1>4
<1>8. ASSUME NEW p \in Places', At(p)' = b
      PROVE  \E q \in Places' : At(q)' = a /\ Before(q, p)
  <2>1. CASE p \in Places /\ At(p)' = At(p) /\ p[1] < N
    <3>1. PICK q \in Places : At(q) = a /\ Before(q, p)
      BY <1>8, <2>1 DEF Earlier, InService
    <3> QED
      BY <1>6, <3>1
  <2>2. CASE p[1] = N /\ p[2] \in DOMAIN s /\ At(p)' = s[p[2]]
    <3>1. a \in P!Committed \/ OneBefore(s, p[2], a)
      BY <1>1, <1>8, <2>2 DEF Earlier, InService, s
    <3>2. CASE a \in P!Committed
      <4>1. PICK q \in Places : At(q) = a
        <5>1. PICK e \in DOMAIN Blocks : a \in P!Elems(Blocks[e])
          BY <3>2 DEF P!Committed
        <5>2. PICK i \in DOMAIN Blocks[e] : a = Blocks[e][i]
          BY <5>1 DEF P!Elems
        <5> QED
          BY <5>2, PlaceIs
      <4> QED
        BY <1>6, <2>2, <4>1 DEF Before
    <3>3. CASE OneBefore(s, p[2], a)
      <4>1. PICK l \in DOMAIN s : l < p[2] /\ s[l] = a
        BY <3>3 DEF OneBefore
      <4>2. <<N, l>> \in Places' /\ At(<<N, l>>)' = a /\ Before(<<N, l>>, p)
        BY <1>6, <2>2, <4>1 DEF Before
      <4> QED
        BY <4>2
    <3> QED
      BY <3>1, <3>2, <3>3
  <2> QED
    BY <1>6, <2>1, <2>2
<1>9. ASSUME ~P!Resetting', NEW k \in DOMAIN allTransactions, allTransactions[k] = b
      PROVE  a \in P!Committed' \/ OneBefore(allTransactions, k, a)
  <2>1. ~P!Resetting
    BY <1>1, <1>9 DEF P!Resetting
  <2> QED
    BY <1>2, <1>9, <2>1 DEF Earlier, InService
<1>10. InService(a, b)'
  BY <1>1, <1>8, <1>9 DEF InService, OneBefore, Before
<1> QED
  BY <1>3, <1>10 DEF Earlier

LEMMA EarlierCast ==
  ASSUME SysInv, NEW a, NEW b, Earlier(a, b), P!Cast
  PROVE  Earlier(a, b)'
<1>1. /\ UNCHANGED <<Blocks, allTransactions, inbox, msg, reader>>
      /\ builder = "cast" /\ builder' \in {"cast", "idle"}
  BY DEF P!Cast, P!netVars, P!readerVars
<1>2. P!Held' = P!Held
  BY P!HeldCast, ServiceAssumption
<1> QED
  BY <1>1, <1>2, InServiceKept, OnTheWireKept DEF Earlier, P!Resetting

LEMMA EarlierSubmit ==
  ASSUME SysInv, NEW a, NEW b, Earlier(a, b), NEW c \in Conn, NEW m \in Message, m # b,
         P!Submit(c, m)
  PROVE  Earlier(a, b)'
<1>1. /\ UNCHANGED <<Blocks, allTransactions, builder, job, reader, msg>>
      /\ inbox' = [inbox EXCEPT ![c] = Append(@, m)]
  BY DEF P!Submit, P!readerVars, P!builderVars
<1>2. P!Held' = P!Held
  BY <1>1, P!HeldUnchanged, ServiceAssumption
<1>3. InService(a, b)'
  BY <1>1, InServiceKept DEF Earlier, P!Resetting
<1>4. CASE c # Here
  <2>1. inbox'[Here] = inbox[Here]
    BY <1>1, <1>4, WireTypes
  <2> QED
    BY <1>1, <1>2, <1>3, <2>1, OnTheWireKept DEF Earlier
<1>5. CASE c = Here
  <2> DEFINE s == inbox[Here]
             t == Append(s, m)
  <2>1. inbox'[Here] = t /\ s \in Seq(Message)
    BY <1>1, <1>5, WireTypes
  <2>2. \A k \in DOMAIN t : t[k] = b => k \in DOMAIN s /\ s[k] = b
    BY <2>1
  <2>3. \A l \in DOMAIN s : l \in DOMAIN t /\ t[l] = s[l]
    BY <2>1
  <2> HIDE DEF t
  <2>4. \A k \in DOMAIN s : OneBefore(s, k, a) => OneBefore(t, k, a)
    BY <2>3 DEF OneBefore
  <2>5. OnTheWire(a, b)'
    BY <1>1, <1>2, <2>1, <2>2, <2>4 DEF Earlier, OnTheWire, OneBefore
  <2> QED
    BY <1>3, <2>5 DEF Earlier
<1> QED
  BY <1>4, <1>5

\* Once a comes before b it does for good: only the send of b could change it.
LEMMA EarlierStep ==
  ASSUME SysInv, [Next]_vars, NEW a \in Request, NEW b \in Request, Earlier(a, b), ~Send(b)
  PROVE  Earlier(a, b)'
<1>0. a \notin Malformed /\ b \in Message /\ Here \in Conn /\ Request \subseteq Message
  BY SystemAssumption
<1>1. CASE UNCHANGED serviceVars
  <2>1. UNCHANGED <<Blocks, allTransactions, builder, job, inbox, reader, msg>>
    BY <1>1 DEF serviceVars
  <2>2. P!Held' = P!Held
    BY <2>1, P!HeldUnchanged, ServiceAssumption
  <2> QED
    BY <2>1, <2>2, InServiceKept, OnTheWireKept DEF Earlier, P!Resetting
<1>2. CASE ListenRead
  BY <1>0, <1>2, SameNetwork, EarlierStay DEF ListenRead
<1>3. ASSUME NEW r \in Request, Send(r) PROVE Earlier(a, b)'
  <2>1. r # b
    BY <1>3
  <2> QED
    BY <1>0, <1>3, <2>1, SameNetwork, EarlierSubmit DEF Send
<1>4. CASE ServiceStep \/ OtherRuntimes \/ Network
  <2>1. ASSUME NEW c \in Conn,
               \/ P!Accept(c) \/ P!Register(c) \/ P!Disconnect(c) \/ P!Receive(c)
               \/ P!Take(c) \/ P!Write(c)
        PROVE  Earlier(a, b)'
    BY <2>1, EarlierStay
  <2>2. ASSUME NEW c \in Conn, P!ReadMessage(c) \/ P!ReadError(c)
        PROVE  Earlier(a, b)'
    BY <1>0, <2>2, EarlierRead
  <2>3. ASSUME NEW c \in Conn, P!Pool(c) \/ P!HandOver(c) \/ P!Unlock(c)
        PROVE  Earlier(a, b)'
    BY <2>3, EarlierPool, EarlierHandOver, EarlierUnlock
  <2>4. ASSUME NEW c \in Conn, NEW m \in Foreign, P!Submit(c, m)
        PROVE  Earlier(a, b)'
    <3>1. m \in Message /\ m # b
      BY DEF Foreign
    <3> QED
      BY <2>4, <3>1, EarlierSubmit
  <2>5. CASE P!AddBlock \/ P!Cast
    BY <2>5, EarlierAddBlock, EarlierCast
  <2> QED
    BY <1>4, <2>1, <2>2, <2>3, <2>4, <2>5, ServiceActions
<1> QED
  BY <1>1, <1>2, <1>3, <1>4 DEF Next, RuntimeStep, Idle, vars

\* What reached the service, be it that no ReadPump has pooled it yet.
Arrived == P!Held \cup P!Unpooled(Here)

\* A message that is nowhere yet comes after all others.
LEMMA NowhereYet ==
  ASSUME SysInv, NEW a, NEW b, b \notin Arrived
  PROVE  Earlier(a, b)
<1>1. \A p \in Places : At(p) # b
  BY PlaceHeld DEF Arrived
<1>2. builder = "block" => \A k \in DOMAIN job.txs : job.txs[k] # b
  BY DEF Arrived, P!Held, P!Making, P!Elems
<1>3. \A k \in DOMAIN allTransactions : allTransactions[k] # b
  BY DEF Arrived, P!Held, P!Elems
<1>4. ~(reader[Here] = "lock" /\ msg[Here] = b) /\ \A k \in DOMAIN inbox[Here] : inbox[Here][k] # b
  BY DEF Arrived, P!Unpooled, P!Elems
<1> QED
  BY <1>1, <1>2, <1>3, <1>4 DEF Earlier, InService, OnTheWire

\* What has arrived stays while the connection does.
LEMMA ArrivedStays ==
  ASSUME SysInv, [Next]_vars, LinkUp', NEW m \in Request, m \in Arrived
  PROVE  m \in Arrived'
<1>0. m \notin Malformed /\ m \in Message /\ Here \in Conn
  BY SystemAssumption
<1>1. P!Held \subseteq P!Held'
  <2>1. [P!Next]_(P!vars) /\ P!TypeOK /\ P!PlaceInv
    BY ServiceNext DEF SysInv, P!LogInv, P!SafetyInv
  <2>2. restarts' = restarts
    BY DEF Next, RuntimeStep, Send, ListenRead, ServiceStep, OtherRuntimes, Network, Idle, vars,
       serviceVars, O!Submit, O!Receive, O!Disconnect, O!Accept, O!Register, O!ReadPump,
       O!WritePump, O!Builder, O!ReadMessage, O!ReadError, O!Pool, O!HandOver, O!Unlock,
       O!AddBlock, O!Cast, O!Take, O!Write
  <2> QED
    BY <2>1, <2>2, P!HeldGrows, ServiceAssumption
<1>2. CASE m \in P!Held
  BY <1>1, <1>2 DEF Arrived
<1> SUFFICES ASSUME m \in P!Unpooled(Here)
             PROVE  m \in P!Unpooled(Here)' \/ m \in P!Held'
  BY <1>2 DEF Arrived
<1>3. CASE /\ P!Elems(inbox[Here]) \subseteq P!Elems(inbox'[Here])
           /\ reader[Here] = "lock" => reader'[Here] = "lock" /\ msg'[Here] = msg[Here]
  <2>1. P!Elems(inbox[Here])' = P!Elems(inbox'[Here])
    BY DEF P!Elems
  <2> QED
    BY <1>3, <2>1 DEF P!Unpooled
<1>4. CASE UNCHANGED <<inbox, reader, msg>>
  BY <1>3, <1>4
<1>5. ASSUME NEW c \in Conn, NEW x \in Message, P!Submit(c, x)
      PROVE  m \in P!Unpooled(Here)' \/ m \in P!Held'
  <2>1. UNCHANGED <<reader, msg>> /\ inbox' = [inbox EXCEPT ![c] = Append(@, x)]
    BY <1>5 DEF P!Submit, P!readerVars
  <2>2. P!Elems(inbox[Here]) \subseteq P!Elems(inbox'[Here])
    <3> DEFINE s == inbox[Here]
               t == Append(s, x)
    <3>1. s \in Seq(Message) /\ inbox'[Here] \in {s, t}
      BY <2>1, WireTypes, <1>0
    <3>2. \A l \in DOMAIN s : l \in DOMAIN t /\ t[l] = s[l]
      BY <3>1
    <3> HIDE DEF t
    <3> QED
      BY <3>1, <3>2 DEF P!Elems
  <2> QED
    BY <1>3, <2>1, <2>2
<1>6. ASSUME NEW c \in Conn, P!ReadMessage(c)
      PROVE  m \in P!Unpooled(Here)' \/ m \in P!Held'
  <2>1. CASE c # Here
    BY <1>3, <1>6, <2>1, SysTypes, WireTypes DEF P!ReadMessage
  <2>2. CASE c = Here
    <3> DEFINE s == inbox[Here]
               t == Tail(s)
    <3>1. /\ s \in Seq(Message) /\ s # <<>> /\ inbox'[Here] = t /\ reader[Here] = "read"
          /\ \/ Head(s) \in Malformed
             \/ reader'[Here] = "lock" /\ msg'[Here] = Head(s)
      BY <1>6, <2>2, SysTypes, WireTypes DEF P!ReadMessage
    <3>2. PICK k \in DOMAIN s : s[k] = m
      BY <3>1 DEF P!Unpooled, P!Elems
    <3>3. CASE k = 1
      BY <1>0, <3>1, <3>2, <3>3 DEF P!Unpooled
    <3>4. CASE k # 1
      <4>1. k - 1 \in DOMAIN t /\ t[k - 1] = s[k]
        BY <3>1, <3>4
      <4> HIDE DEF t
      <4> QED
        BY <3>1, <3>2, <4>1 DEF P!Unpooled, P!Elems
    <3> QED
      BY <3>3, <3>4
  <2> QED
    BY <2>1, <2>2
<1>7. ASSUME NEW c \in Conn, P!ReadError(c)
      PROVE  m \in P!Unpooled(Here)' \/ m \in P!Held'
  <2>1. c # Here
    BY <1>7 DEF P!ReadError, LinkUp
  <2> QED
    BY <1>3, <1>7, <2>1, SysTypes, WireTypes DEF P!ReadError
<1>8. ASSUME NEW c \in Conn, P!Pool(c)
      PROVE  m \in P!Unpooled(Here)' \/ m \in P!Held'
  <2>1. /\ UNCHANGED <<inbox, msg>> /\ P!Held' = P!Held \cup {msg[c]}
        /\ \E s \in {"block", "ack"} : reader' = [reader EXCEPT ![c] = s]
    BY <1>8, P!HeldPool, ServiceAssumption DEF SysInv, P!Pool, P!netVars
  <2>2. CASE c # Here
    BY <1>3, <2>1, <2>2, SysTypes
  <2>3. CASE c = Here
    BY <2>1, <2>3 DEF P!Unpooled, P!Elems
  <2> QED
    BY <2>2, <2>3
<1>9. ASSUME NEW c \in Conn, P!HandOver(c) \/ P!Unlock(c) \/ P!Register(c)
      PROVE  m \in P!Unpooled(Here)' \/ m \in P!Held'
  <2>1. /\ inbox' = inbox
        /\ reader[c] # "lock"
        /\ \E s : reader' = [reader EXCEPT ![c] = s]
        /\ msg' = msg \/ msg' = [msg EXCEPT ![c] = None]
    BY <1>9 DEF P!HandOver, P!Unlock, P!Register, P!netVars, SysInv, P!LogInv, P!SafetyInv,
       P!MutexInv
  <2>2. reader[Here] = "lock" => reader'[Here] = "lock" /\ msg'[Here] = msg[Here]
    BY <2>1, SysTypes
  <2> QED
    BY <1>3, <2>1, <2>2
<1>10. CASE ServiceStep \/ OtherRuntimes \/ Network
  <2>1. ASSUME NEW c \in Conn, P!Accept(c) \/ P!Disconnect(c) \/ P!Receive(c) \/ P!Take(c) \/ P!Write(c)
        PROVE  m \in P!Unpooled(Here)' \/ m \in P!Held'
    BY <1>4, <2>1 DEF P!Accept, P!Disconnect, P!Receive, P!Take, P!Write, P!netVars, P!readerVars
  <2>2. CASE P!AddBlock \/ P!Cast
    BY <1>4, <2>2 DEF P!AddBlock, P!Cast, P!netVars, P!readerVars
  <2>3. Foreign \subseteq Message
    BY DEF Foreign
  <2> QED
    BY <1>5, <1>6, <1>7, <1>8, <1>9, <1>10, <2>1, <2>2, <2>3, ServiceActions
<1>11. CASE ListenRead
  BY <1>0, <1>4, <1>11, SameNetwork DEF ListenRead, P!Receive, P!readerVars
<1>12. ASSUME NEW r \in Request, Send(r)
       PROVE  m \in P!Unpooled(Here)' \/ m \in P!Held'
  <2>1. r \in Message
    BY SystemAssumption
  <2> QED
    BY <1>0, <1>5, <1>12, <2>1, SameNetwork DEF Send
<1>13. CASE UNCHANGED serviceVars
  BY <1>4, <1>13 DEF serviceVars
<1> QED
  BY <1>10, <1>11, <1>12, <1>13 DEF Next, RuntimeStep, Idle, vars

-----------------------------------------------------------------------------
(***************************************************************************)
(* The order of the calls.                                                 *)
(***************************************************************************)

\* While the connection stands, a call has been sent or is about to be; a message
\* that was sent had its call; and the calls come in their order.
SentInv ==
  LinkUp => \A i \in DOMAIN calls : pc[calls[i].id] = "send" \/ calls[i].id \in Arrived

CalledInv == \A r \in Request : origin[r] # None => \E i \in DOMAIN calls : calls[i].id = r

OrderInv ==
  \A a, b \in Request : \A j \in DOMAIN calls : \A i \in 1 .. j - 1 :
    calls[i].id = a /\ calls[j].id = b => Earlier(a, b)

\* A call is added at the end, and its request is then about to send.
LEMMA CallAdded ==
  ASSUME Q!TypeOK, CallTypes, [Next]_vars, calls' # calls
  PROVE  \E r \in Request, n \in Nat :
           /\ pc[r] = "call" /\ pc' = [pc EXCEPT ![r] = "send"] /\ UNCHANGED serviceVars
           /\ DOMAIN calls = 1 .. n /\ DOMAIN calls' = 1 .. n + 1
           /\ \A i \in 1 .. n : calls'[i] = calls[i]
           /\ calls'[n + 1].id = r
<1>1. PICK r \in Request : UseWasmFunction(r) /\ UNCHANGED serviceVars
  BY DEF Next, RuntimeStep, Arrive, Lock, SendFails, Send, Apply, ListenRead, Idle, vars
<1> DEFINE e == [id |-> r, OldVal |-> OldVal(r)]
<1>2. calls' = Append(calls, e) /\ runtimeMu' = r
  BY <1>1 DEF UseWasmFunction
<1>3. r # None
  BY SystemAssumption
<1>4. pc[r] = "call" /\ pc' = [pc EXCEPT ![r] = "send"]
  BY <1>1, <1>2, <1>3 DEF UseWasmFunction, R!UseWasmFunction, Q!TypeOK
<1>5. PICK n \in Nat : n = Len(calls) /\ DOMAIN calls = 1 .. n
  BY CallIs
<1>6. e.id = r
  OBVIOUS
<1> HIDE DEF e
<1>7. PICK C : calls \in Seq(C)
  BY DEF CallTypes
<1>8. /\ DOMAIN Append(calls, e) = 1 .. n + 1 /\ Append(calls, e)[n + 1] = e
      /\ \A i \in 1 .. n : Append(calls, e)[i] = calls[i]
  BY <1>5, <1>7
<1> QED
  BY <1>1, <1>2, <1>4, <1>5, <1>6, <1>8

\* A request leaves "send" by sending.
LEMMA SendLeaves ==
  ASSUME Q!TypeOK, [Next]_vars, NEW r \in Request, pc[r] = "send", pc'[r] # "send"
  PROVE  Send(r) \/ SendFails(r)
<1>0. pc \in [Request -> {"new"} \cup Q!Busy \cup Q!Answers]
  BY DEF Q!TypeOK
<1>1. CASE UNCHANGED pc
  BY <1>1
<1>2. ASSUME NEW q \in Request, \/ Arrive(q) \/ Lock(q) \/ UseWasmFunction(q)
                                \/ SendFails(q) \/ Send(q) \/ R!TimeOut(q) \/ R!Deliver(q)
      PROVE  Send(r) \/ SendFails(r)
  <2>1. \E s : pc' = [pc EXCEPT ![q] = s]
    BY <1>2 DEF Arrive, Lock, UseWasmFunction, SendFails, Send, R!Arrive, R!Lock,
                R!UseWasmFunction, R!Send, R!TimeOut, R!Deliver
  <2>2. q = r
    BY <1>0, <2>1
  <2> QED
    BY <1>2, <2>2
    DEF Arrive, Lock, UseWasmFunction, R!Arrive, R!Lock, R!UseWasmFunction, R!TimeOut, R!Deliver
<1> QED
  BY <1>1, <1>2
  DEF Next, RuntimeStep, Apply, R!Apply, R!ListenError, R!SaveBegin, R!SaveEnd, R!Match,
      R!Delete, ListenRead, R!ListenRead, R!requestVars, runtimeVars, Idle, vars

\* The link to the ordering service does not come back.
LEMMA LinkGoes ==
  ASSUME SysInv, [Next]_vars, LinkUp'
  PROVE  LinkUp
<1>1. ASSUME NEW c \in Conn, P!Accept(c) \/ P!Disconnect(c)
      PROVE  LinkUp
  <2>1. link[c] # "closed" /\ \E s : link' = [link EXCEPT ![c] = s]
    BY <1>1 DEF P!Accept, P!Disconnect
  <2> QED
    BY <2>1, SysTypes DEF LinkUp
<1>2. CASE UNCHANGED link
  BY <1>2 DEF LinkUp
<1>3. CASE ServiceStep \/ OtherRuntimes \/ Network
  BY <1>1, <1>2, <1>3, ServiceActions
  DEF P!Register, P!ReadMessage, P!ReadError, P!Pool, P!HandOver, P!Unlock, P!Take, P!Write,
      P!Receive, P!Submit, P!AddBlock, P!Cast, P!netVars
<1> QED
  BY <1>2, <1>3 DEF Next, RuntimeStep, Send, O!Submit, ListenRead, O!Receive, Idle, vars, serviceVars

\* What is sent is on the wire.
LEMMA SentArrives ==
  ASSUME SysInv, NEW r \in Request, Send(r)
  PROVE  r \in Arrived'
<1> DEFINE s == inbox[Here]
           t == Append(s, r)
<1>1. s \in Seq(Message) /\ r \in Message /\ inbox'[Here] = t
  BY SysTypes, WireTypes, SystemAssumption DEF Send, O!Submit
<1>2. Len(s) + 1 \in DOMAIN t /\ t[Len(s) + 1] = r
  BY <1>1
<1> HIDE DEF t
<1> QED
  BY <1>1, <1>2 DEF Arrived, P!Unpooled, P!Elems

LEMMA SentNext ==
  ASSUME SysInv, Q!TypeOK, CallTypes, SentInv, [Next]_vars
  PROVE  SentInv'
<1> SUFFICES ASSUME LinkUp', NEW i \in DOMAIN calls', pc'[calls'[i].id] # "send"
             PROVE  calls'[i].id \in Arrived'
  BY DEF SentInv
<1>0. LinkUp /\ pc \in [Request -> {"new"} \cup Q!Busy \cup Q!Answers]
  BY LinkGoes DEF Q!TypeOK
<1>1. CASE calls' = calls
  <2>1. calls[i].id \in Request /\ i \in DOMAIN calls
    BY <1>1, CallIs
  <2>2. PICK r \in Request : r = calls[i].id
    BY <2>1
  <2>3. CASE pc[r] = "send"
    <3>1. Send(r)
      BY <1>0, <1>1, <2>2, <2>3, SendLeaves DEF SendFails, LinkUp
    <3> QED
      BY <1>1, <2>2, <3>1, SentArrives
  <2>4. CASE pc[r] # "send"
    <3>1. r \in Arrived
      BY <1>0, <2>1, <2>2, <2>4 DEF SentInv
    <3> QED
      BY <1>1, <2>2, <3>1, ArrivedStays
  <2> QED
    BY <2>3, <2>4
<1>2. CASE calls' # calls
  <2>1. PICK r \in Request, n \in Nat :
          /\ pc[r] = "call" /\ pc' = [pc EXCEPT ![r] = "send"]
          /\ DOMAIN calls = 1 .. n /\ DOMAIN calls' = 1 .. n + 1
          /\ \A k \in 1 .. n : calls'[k] = calls[k]
          /\ calls'[n + 1].id = r
    BY <1>2, CallAdded
  <2>2. i # n + 1
    BY <1>0, <2>1
  <2>3. i \in 1 .. n
    BY <2>1, <2>2
  <2>4. PICK q \in Request : q = calls[i].id
    BY <2>1, <2>3, CallIs
  <2>5. pc[q] # "send"
    BY <1>0, <2>1, <2>3, <2>4
  <2>6. q \in Arrived
    BY <1>0, <2>1, <2>3, <2>4, <2>5 DEF SentInv
  <2> QED
    BY <2>1, <2>3, <2>4, <2>6, ArrivedStays
<1> QED
  BY <1>1, <1>2

LEMMA CalledNext ==
  ASSUME SysInv, Q!TypeOK, CallTypes, CalledInv, [Next]_vars
  PROVE  CalledInv'
<1>1. CASE calls' # calls
  <2>1. PICK n \in Nat :
          /\ UNCHANGED serviceVars
          /\ DOMAIN calls = 1 .. n /\ DOMAIN calls' = 1 .. n + 1
          /\ \A k \in 1 .. n : calls'[k] = calls[k]
    BY <1>1, CallAdded
  <2>2. \A k \in 1 .. n : k \in 1 .. n + 1
    OBVIOUS
  <2>3. origin' = origin
    BY <2>1 DEF serviceVars
  <2> QED
    BY <2>1, <2>2, <2>3 DEF CalledInv
<1>2. CASE calls' = calls
  <2>1. ASSUME NEW r \in Request, origin'[r] # None, origin[r] = None
        PROVE  Send(r)
    <3>1. r \in Message
      BY SystemAssumption
    <3>2. ASSUME NEW c \in Conn, NEW m \in Foreign
          PROVE  ~P!Submit(c, m)
      <4>1. m # r
        BY DEF Foreign
      <4> QED
        BY <2>1, <3>1, <4>1, SysTypes DEF P!Submit
    <3>3. CASE ServiceStep \/ OtherRuntimes \/ Network
      BY <2>1, <3>2, <3>3, ServiceActions
      DEF P!Accept, P!Register, P!ReadMessage, P!ReadError, P!Pool, P!HandOver, P!Unlock, P!Take,
          P!Write, P!Receive, P!Disconnect, P!AddBlock, P!Cast, P!netVars
    <3>4. ASSUME NEW q \in Request, Send(q)
          PROVE  q = r
      BY <2>1, <3>1, <3>4, SysTypes DEF Send, O!Submit
    <3> QED
      BY <2>1, <3>3, <3>4 DEF Next, RuntimeStep, ListenRead, O!Receive, Idle, vars, serviceVars
  <2>2. \A r \in Request : Send(r) => pc[r] = "send"
    BY DEF Send, R!Send
  <2> QED
    BY <1>2, <2>1, <2>2 DEF CalledInv, CallTypes
<1> QED
  BY <1>1, <1>2

\* The send of b, when a has arrived.
LEMMA EarlierSend ==
  ASSUME SysInv, NEW a \in Request, NEW b \in Request, a # b, a \in Arrived, Earlier(a, b), Send(b)
  PROVE  Earlier(a, b)'
<1> DEFINE s == inbox[Here]
           t == Append(s, b)
<1>1. /\ UNCHANGED <<Blocks, allTransactions, builder, job, reader, msg>>
      /\ inbox'[Here] = t /\ s \in Seq(Message) /\ b \in Message
  BY SysTypes, WireTypes, SystemAssumption DEF Send, O!Submit, O!readerVars, O!builderVars
<1>2. P!Held' = P!Held
  BY <1>1, P!HeldUnchanged, ServiceAssumption
<1>3. InService(a, b)'
  BY <1>1, InServiceKept DEF Earlier, P!Resetting
<1>4. PICK n \in Nat : /\ DOMAIN s = 1 .. n /\ DOMAIN t = 1 .. n + 1
                       /\ \A l \in 1 .. n : t[l] = s[l]
  <2>1. Len(s) \in Nat /\ DOMAIN s = 1 .. Len(s) /\ DOMAIN t = 1 .. Len(s) + 1
        /\ \A l \in 1 .. Len(s) : t[l] = s[l]
    BY <1>1
  <2> QED
    BY <2>1
<1> HIDE DEF s, t
<1>5. \A l \in 1 .. n : l \in 1 .. n + 1 /\ l < n + 1
  OBVIOUS
<1>6. ASSUME NEW k \in DOMAIN t, t[k] = b
      PROVE  a \in P!Held \/ (reader[Here] = "lock" /\ msg[Here] = a) \/ OneBefore(t, k, a)
  <2>1. CASE k \in 1 .. n
    BY <1>4, <1>5, <1>6, <2>1 DEF Earlier, OnTheWire, OneBefore, s
  <2>2. CASE k \notin 1 .. n
    <3>1. k = n + 1
      BY <1>4, <2>2
    <3>2. CASE a \in P!Elems(s)
      <4>1. PICK l \in 1 .. n : s[l] = a
        BY <1>4, <3>2 DEF P!Elems
      <4> QED
        BY <1>4, <1>5, <3>1, <4>1 DEF OneBefore
    <3> QED
      BY <3>2 DEF Arrived, P!Unpooled, s
  <2> QED
    BY <2>1, <2>2
<1>7. OnTheWire(a, b)'
  BY <1>1, <1>2, <1>6 DEF Earlier, OnTheWire, OneBefore
<1> QED
  BY <1>3, <1>7 DEF Earlier

LEMMA OrderNext ==
  ASSUME SysInv, Q!TypeOK, Q!UnsentInv, CallTypes, SentInv, OrderInv, [Next]_vars
  PROVE  OrderInv'
<1> SUFFICES ASSUME NEW a \in Request, NEW b \in Request,
                    NEW j \in DOMAIN calls', NEW i \in 1 .. j - 1,
                    calls'[i].id = a, calls'[j].id = b
             PROVE  Earlier(a, b)'
  BY DEF OrderInv
<1>1. CASE calls' = calls
  <2>1. j \in Nat /\ i \in DOMAIN calls /\ i # j /\ j \in DOMAIN calls
    <3>1. PICK n \in Nat : DOMAIN calls = 1 .. n
      BY CallIs
    <3> QED
      BY <1>1, <3>1
  <2>2. a = calls[i].id /\ b = calls[j].id
    BY <1>1
  <2>3. a # b
    BY <2>1, <2>2 DEF CallTypes
  <2>4. Earlier(a, b)
    BY <2>1, <2>2 DEF OrderInv
  <2>5. CASE Send(b)
    <3>1. pc[b] = "send" /\ LinkUp
      BY <2>5 DEF Send, R!Send, O!Submit, LinkUp
    <3>2. pc[a] # "send"
      BY <2>3, <3>1 DEF Q!TypeOK
    <3>3. a \in Arrived
      BY <2>1, <2>2, <3>1, <3>2 DEF SentInv
    <3> QED
      BY <2>3, <2>4, <2>5, <3>3, EarlierSend
  <2>6. CASE ~Send(b)
    BY <2>4, <2>6, EarlierStep
  <2> QED
    BY <2>5, <2>6
<1>2. CASE calls' # calls
  <2>1. PICK r \in Request, n \in Nat :
          /\ pc[r] = "call"
          /\ DOMAIN calls = 1 .. n /\ DOMAIN calls' = 1 .. n + 1
          /\ \A k \in 1 .. n : calls'[k] = calls[k]
          /\ calls'[n + 1].id = r
    BY <1>2, CallAdded
  <2>2. i \in 1 .. n /\ (j \in 1 .. n \/ j = n + 1)
    BY <2>1
  <2>3. a = calls[i].id
    BY <2>1, <2>2
  <2>4. ~Send(b)
    BY <1>2 DEF Send
  <2>5. CASE j \in 1 .. n
    <3>1. b = calls[j].id
      BY <2>1, <2>5
    <3>2. Earlier(a, b)
      BY <2>1, <2>3, <2>5, <3>1 DEF OrderInv
    <3> QED
      BY <2>4, <3>2, EarlierStep
  <2>6. CASE j = n + 1
    <3>1. origin[r] = None /\ r \notin P!Held
      BY <2>1, NotHeldBefore
    <3>2. r \notin P!Unpooled(Here)
      BY <3>1, SystemAssumption DEF SysInv, P!LogInv, P!SafetyInv, P!WaitingInv
    <3>3. Earlier(a, b)
      BY <2>1, <2>6, <3>1, <3>2, NowhereYet DEF Arrived
    <3> QED
      BY <2>4, <3>3, EarlierStep
  <2> QED
    BY <2>2, <2>5, <2>6
<1> QED
  BY <1>1, <1>2

\* What the runtime sends is ordered as its wasm calls were: the chain has none of
\* its transactions without all that were called before, each further on.
THEOREM CallsAreInOrder == Spec => []ProgramOrder
<1>1. Init => EnvTypes /\ CallTypes /\ SentInv /\ CalledInv /\ OrderInv
  <2> SUFFICES ASSUME Init
               PROVE  EnvTypes /\ CallTypes /\ SentInv /\ CalledInv /\ OrderInv
    OBVIOUS
  <2>1. EnvTypes /\ CallTypes
    BY DEF Init, R!Init, EnvTypes, CallTypes
  <2>2. calls = <<>> /\ \A r \in Request : origin[r] = None
    BY SystemAssumption DEF Init, O!Init
  <2> QED
    BY <2>1, <2>2 DEF SentInv, CalledInv, OrderInv
<1>2. Spec => [](SysInv /\ Q!TypeOK /\ Q!UnsentInv)
  <2>1. Q!Spec => []Q!UnsentInv
    BY Q!NotSentBefore, RuntimeAssumed
  <2> QED
    BY <2>1, RuntimeRuns, SysInvariant, RuntimeHolds, PTL
<1>3. Spec => []CallTypes
  <2>1. Spec => []EnvTypes
    BY <1>1, <1>2, EnvNext, PTL DEF Spec
  <2> QED
    BY <1>1, <1>2, <2>1, CallNext, PTL DEF Spec
<1>4. Spec => [](SentInv /\ CalledInv)
  <2>1. SysInv /\ Q!TypeOK /\ CallTypes /\ SentInv /\ [Next]_vars => SentInv'
    BY SentNext
  <2>2. SysInv /\ Q!TypeOK /\ CallTypes /\ CalledInv /\ [Next]_vars => CalledInv'
    BY CalledNext
  <2> QED
    BY <1>1, <1>2, <1>3, <2>1, <2>2, PTL DEF Spec
<1>5. Spec => []OrderInv
  <2>1. SysInv /\ Q!TypeOK /\ Q!UnsentInv /\ CallTypes /\ SentInv /\ OrderInv /\ [Next]_vars
          => OrderInv'
    BY OrderNext
  <2> QED
    BY <1>1, <1>2, <1>3, <1>4, <2>1, PTL DEF Spec
<1>6. SysInv /\ CallTypes /\ CalledInv /\ OrderInv => ProgramOrder
  <2> SUFFICES ASSUME SysInv, CallTypes, CalledInv, OrderInv, NEW p \in Places, At(p) \in Request
               PROVE  \E j \in DOMAIN calls :
                        /\ calls[j].id = At(p)
                        /\ \A i \in 1 .. j - 1 :
                             \E q \in Places : At(q) = calls[i].id /\ Before(q, p)
    BY DEF ProgramOrder
  <2>1. origin[At(p)] # None
    BY PlaceHeld DEF SysInv, P!LogInv, P!SafetyInv, P!WaitingInv
  <2>2. PICK j \in DOMAIN calls : calls[j].id = At(p)
    BY <2>1 DEF CalledInv
  <2>3. PICK b \in Request : b = At(p)
    OBVIOUS
  <2>4. ASSUME NEW i \in 1 .. j - 1
        PROVE  \E q \in Places : At(q) = calls[i].id /\ Before(q, p)
    <3>1. calls[i].id \in Request
      BY CallIs
    <3>2. Earlier(calls[i].id, b)
      BY <2>2, <2>3, <3>1 DEF OrderInv
    <3> QED
      BY <2>3, <3>2 DEF Earlier, InService
  <2> QED
    BY <2>2, <2>4
<1> QED
  BY <1>2, <1>3, <1>4, <1>5, <1>6, PTL

=============================================================================
