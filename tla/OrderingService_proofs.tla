----------------------- MODULE OrderingService_proofs -----------------------
(***************************************************************************)
(* Theorems of OrderingService, for every number of connections, messages  *)
(* and restarts, every blockSize and every channel capacity.               *)
(***************************************************************************)
EXTENDS OrderingService, TLAPS, SequenceTheorems

-----------------------------------------------------------------------------
(***************************************************************************)
(* Type correctness.  TypeOK is inductive as it stands: it says of every   *)
(* program counter which variables hold an item.                           *)
(***************************************************************************)

\* The initial state is well typed.
LEMMA InitTypeOK == Init => TypeOK
  BY ConstAssumption
  DEF Init, TypeOK, NetTypes, HandlerTypes, ReaderTypes, BuilderTypes,
      ChannelTypes, Deciding

\* A group of variables that does not change keeps its types.
LEMMA StutterTypes ==
  ASSUME TypeOK
  PROVE  /\ UNCHANGED <<link, origin, inbox>> => NetTypes'
         /\ UNCHANGED handlerVars => HandlerTypes'
         /\ UNCHANGED readerVars => ReaderTypes'
         /\ UNCHANGED builderVars => BuilderTypes'
         /\ UNCHANGED <<frames, writerVars, seen>> => ChannelTypes'
         /\ UNCHANGED restarts => restarts' \in 0 .. MaxRestarts
<1>1. UNCHANGED <<link, origin, inbox>> => NetTypes'
  BY DEF TypeOK, NetTypes
<1>2. UNCHANGED handlerVars => HandlerTypes'
  BY DEF TypeOK, HandlerTypes, handlerVars
<1>3. UNCHANGED readerVars => ReaderTypes'
  BY DEF TypeOK, ReaderTypes, readerVars, Deciding
<1>4. UNCHANGED builderVars => BuilderTypes'
  BY DEF TypeOK, BuilderTypes, builderVars
<1>5. UNCHANGED <<frames, writerVars, seen>> => ChannelTypes'
  BY DEF TypeOK, ChannelTypes, writerVars
<1>6. QED
  BY <1>1, <1>2, <1>3, <1>4, <1>5 DEF TypeOK

\* A slice of connections another handler's append wrote into has that
\* handler's connection in place of an entry, or is as it was.
LEMMA OverwrittenEntry ==
  ASSUME NEW s \in Seq(Conn), NEW c \in Conn, NEW t \in Overwritten(s, c)
  PROVE  /\ t \in Seq(Conn) /\ DOMAIN t = DOMAIN s
         /\ t = s \/ \E i \in DOMAIN s : t = [s EXCEPT ![i] = c]
<1>1. CASE t = s
  BY <1>1
<1>2. ASSUME NEW i \in DOMAIN s, t = [s EXCEPT ![i] = c]
      PROVE  t \in Seq(Conn) /\ DOMAIN t = DOMAIN s
  <2>1. i \in 1 .. Len(s)
    BY LenProperties
  <2>2. QED
    BY <1>2, <2>1, ExceptSeq
<1>3. t = s \/ \E i \in DOMAIN s : t = [s EXCEPT ![i] = c]
  BY DEF Overwritten
<1>4. QED
  BY <1>1, <1>2, <1>3

LEMMA RegisterLoads ==
  ASSUME loaded \in [Conn -> Seq(Conn)], NEW c \in Conn, Register(c)
  PROVE  /\ loaded' \in [Conn -> Seq(Conn)]
         /\ loaded'[c] = <<>>
         /\ \A d \in Conn \ {c} : loaded'[d] \in Overwritten(loaded[d], c)
<1> DEFINE S == {<<>>} \cup UNION {Overwritten(loaded[d], c) : d \in Conn}
<1>1. /\ loaded' \in [Conn -> S]
      /\ loaded'[c] = <<>>
      /\ \A d \in Conn \ {c} : loaded'[d] \in Overwritten(loaded[d], c)
  BY DEF Register
<1>2. S \subseteq Seq(Conn)
  <2>1. \A d \in Conn : \A t \in Overwritten(loaded[d], c) : t \in Seq(Conn)
    BY OverwrittenEntry
  <2>2. QED
    BY <2>1, EmptySeq
<1>3. loaded' \in [Conn -> Seq(Conn)]
  BY <1>1, <1>2
<1>4. QED
  BY <1>1, <1>3

\* Every step of the service and of its environment preserves the types.
LEMMA NextTypeOK == TypeOK /\ [Next]_vars => TypeOK'
<1> SUFFICES ASSUME TypeOK, [Next]_vars
             PROVE  TypeOK'
  OBVIOUS
<1> USE ConstAssumption DEF TypeOK
<1>1. ASSUME NEW c \in Conn, NEW m \in Message, Submit(c, m)
     PROVE  TypeOK'
  <2>1. NetTypes'
    BY <1>1 DEF NetTypes, Submit
  <2>2. QED
    BY <1>1, <2>1, StutterTypes DEF Submit, netVars
<1>2. ASSUME NEW c \in Conn, Receive(c)
     PROVE  TypeOK'
  <2>1. ChannelTypes'
    BY <1>2 DEF ChannelTypes, Receive, writerVars
  <2>2. QED
    BY <1>2, <2>1, StutterTypes DEF Receive, netVars
<1>3. ASSUME NEW c \in Conn, Disconnect(c)
     PROVE  TypeOK'
  <2>1. NetTypes'
    BY <1>3 DEF NetTypes, Disconnect
  <2>2. QED
    BY <1>3, <2>1, StutterTypes DEF Disconnect, netVars
<1>4. ASSUME NEW c \in Conn, Accept(c)
     PROVE  TypeOK'
  <2>1. NetTypes'
    BY <1>4 DEF NetTypes, Accept
  <2>2. HandlerTypes'
    BY <1>4 DEF HandlerTypes, Accept
  <2>3. QED
    BY <1>4, <2>1, <2>2, StutterTypes DEF Accept, netVars
<1>5. ASSUME NEW c \in Conn, Register(c)
     PROVE  TypeOK'
  <2>1. HandlerTypes'
    <3>1. /\ handler' = [handler EXCEPT ![c] = "done"]
          /\ runtime_clients' = Append(loaded[c], c)
          /\ loaded[c] \in Seq(Conn)
      BY <1>5 DEF Register, HandlerTypes
    <3>2. loaded' \in [Conn -> Seq(Conn)]
      BY <1>5, RegisterLoads DEF HandlerTypes
    <3>3. runtime_clients' \in Seq(Conn)
      BY <3>1, AppendProperties
    <3>4. QED
      BY <3>1, <3>2, <3>3 DEF HandlerTypes
  <2>2. ReaderTypes'
    BY <1>5 DEF ReaderTypes, Register, Deciding
  <2>3. BuilderTypes'
    <3>1. UNCHANGED <<builder, job, Blocks>> /\ todo' \in Overwritten(todo, c)
      BY <1>5 DEF Register, Overwritten
    <3>2. todo' \in Seq(Conn)
      BY <3>1, OverwrittenEntry DEF BuilderTypes
    <3>3. QED
      BY <3>1, <3>2 DEF BuilderTypes
  <2>4. QED
    BY <1>5, <2>1, <2>2, <2>3, StutterTypes DEF Register, netVars
<1>6. ASSUME NEW c \in Conn, ReadMessage(c)
     PROVE  TypeOK'
  <2>1. NetTypes'
    BY <1>6 DEF NetTypes, ReadMessage
  <2>2. ReaderTypes'
    <3>1. CASE UNCHANGED <<reader, msg>>
      BY <1>6, <3>1, StutterTypes DEF ReadMessage, readerVars
    <3>2. CASE /\ msg' = [msg EXCEPT ![c] = Head(inbox[c])]
               /\ reader' = [reader EXCEPT ![c] = "lock"]
      <4>1. Head(inbox[c]) \in Message
        BY <1>6 DEF NetTypes, ReadMessage
      <4>2. UNCHANGED <<count, mu, allTransactions>>
        BY <1>6 DEF ReadMessage
      <4>3. QED
        BY <3>2, <4>1, <4>2 DEF ReaderTypes, Deciding
    <3>3. QED
      BY <1>6, <3>1, <3>2 DEF ReadMessage
  <2>3. QED
    BY <1>6, <2>1, <2>2, StutterTypes DEF ReadMessage, netVars
<1>7. ASSUME NEW c \in Conn, ReadError(c)
     PROVE  TypeOK'
  <2>1. NetTypes'
    BY <1>7 DEF NetTypes, ReadError
  <2>2. ReaderTypes'
    BY <1>7 DEF ReaderTypes, ReadError, Deciding
  <2>3. QED
    BY <1>7, <2>1, <2>2, StutterTypes DEF ReadError, netVars
<1>8. ASSUME NEW c \in Conn, Pool(c)
     PROVE  TypeOK'
  <2>1. ReaderTypes'
    <3>1. mu' = c /\ msg' = msg
      BY <1>8 DEF Pool
    <3>2. msg[c] \in Message
      BY <1>8 DEF ReaderTypes, Pool, Deciding
    <3>3. allTransactions' \in Seq(Message)
      BY <1>8, <3>2 DEF ReaderTypes, Pool, PoolWith
    <3>4. count' \in [Conn -> Nat]
      BY <1>8 DEF ReaderTypes, Pool
    <3>5. \E pc \in {"block", "ack"} : reader' = [reader EXCEPT ![c] = pc]
      BY <1>8 DEF Pool
    <3>6. QED
      BY <3>1, <3>2, <3>3, <3>4, <3>5 DEF ReaderTypes, Deciding
  <2>2. QED
    BY <1>8, <2>1, StutterTypes DEF Pool, netVars
<1>9. ASSUME NEW c \in Conn, HandOver(c)
     PROVE  TypeOK'
  <2>1. ReaderTypes'
    BY <1>9 DEF ReaderTypes, HandOver, Deciding
  <2>2. BuilderTypes'
    <3>1. msg[c] \in Message
      BY <1>9 DEF ReaderTypes, HandOver, Deciding
    <3>2. CASE reader[c] = "block"
      <4>1. /\ job' = [txs |-> allTransactions, broadcast |-> TRUE,
                       rc |-> c, id |-> msg[c]]
            /\ builder' = "block" /\ todo' = <<>> /\ Blocks' = Blocks
        BY <1>9, <3>2 DEF HandOver
      <4>2. job' \in Job
        BY <3>1, <4>1 DEF ReaderTypes, Job
      <4>3. QED
        BY <4>1, <4>2 DEF BuilderTypes
    <3>3. CASE reader[c] = "ack"
      <4>1. /\ job' = [txs |-> <<>>, broadcast |-> FALSE,
                       rc |-> c, id |-> msg[c]]
            /\ builder' = "cast" /\ todo' = <<c>> /\ Blocks' = Blocks
        BY <1>9, <3>3 DEF HandOver
      <4>2. job' \in Job
        BY <3>1, <4>1 DEF Job
      <4>3. QED
        BY <4>1, <4>2 DEF BuilderTypes
    <3>4. QED
      BY <1>9, <3>2, <3>3 DEF HandOver
  <2>3. QED
    BY <1>9, <2>1, <2>2, StutterTypes DEF HandOver, netVars
<1>10. ASSUME NEW c \in Conn, Unlock(c)
      PROVE  TypeOK'
  <2>1. ReaderTypes'
    <3>1. /\ allTransactions' = <<>> \/ allTransactions' = allTransactions
          /\ mu' = None /\ count' = count
      BY <1>10 DEF Unlock, PoolAfterBlock
    <3>2. /\ msg' = [msg EXCEPT ![c] = None]
          /\ reader' = [reader EXCEPT ![c] = "read"]
      BY <1>10 DEF Unlock
    <3>3. allTransactions' \in Seq(Message)
      <4>1. allTransactions \in Seq(Message) /\ <<>> \in Seq(Message)
        BY EmptySeq DEF ReaderTypes
      <4>2. QED
        BY <3>1, <4>1
    <3>4. QED
      BY <3>1, <3>2, <3>3 DEF ReaderTypes, Deciding
  <2>2. QED
    BY <1>10, <2>1, StutterTypes DEF Unlock, netVars
<1>11. CASE AddBlock
  <2>1. BuilderTypes'
    BY <1>11 DEF BuilderTypes, AddBlock, Recipients, HandlerTypes, Job
  <2>2. QED
    BY <1>11, <2>1, StutterTypes DEF AddBlock, netVars
<1>12. CASE Cast
  <2>1. BuilderTypes'
    <3>1. todo' \in Seq(Conn)
      <4>1. todo' = <<>> \/ (todo # <<>> /\ todo' = Tail(todo))
        BY <1>12 DEF Cast
      <4>2. QED
        BY <4>1, HeadTailProperties, EmptySeq DEF BuilderTypes
    <3>2. \/ builder' = "idle" /\ job' = None
          \/ builder' = "cast" /\ job' \in Job
      BY <1>12 DEF BuilderTypes, Cast
    <3>3. Blocks' \in Seq(Seq(Message))
      BY <1>12 DEF BuilderTypes, Cast
    <3>4. QED
      BY <3>1, <3>2, <3>3 DEF BuilderTypes
  <2>2. ChannelTypes'
    <3>1. taken' = taken /\ written' = written /\ seen' = seen
      BY <1>12 DEF Cast, writerVars, netVars
    <3>2. CASE todo # <<>> /\ HasRoom(Head(todo))
      <4> DEFINE d == Head(todo)
                 f == FrameOf(job, Len(Blocks))
      <4>1. d \in Conn
        BY <3>2 DEF BuilderTypes
      <4>2. f \in Frame
        BY <1>12 DEF Cast, BuilderTypes, FrameOf, Frame, Job
      <4>3. frames' = [frames EXCEPT ![d] = Append(@, f)]
        BY <1>12, <3>2 DEF Cast
      <4>4. Len(frames[d]) - taken[d] < SendCap
        BY <3>2 DEF HasRoom
      <4>5. /\ frames' \in [Conn -> Seq(Frame)]
            /\ Len(frames'[d]) = Len(frames[d]) + 1
            /\ \A c \in Conn \ {d} : frames'[c] = frames[c]
        BY <4>1, <4>2, <4>3 DEF ChannelTypes
      <4>6. ASSUME NEW c \in Conn
            PROVE  /\ seen'[c] <= written'[c]
                   /\ taken'[c] \in written'[c] .. written'[c] + 1
                   /\ Len(frames'[c]) \in taken'[c] .. taken'[c] + SendCap
        <5>1. CASE c = d
          BY <3>1, <4>4, <4>5, <5>1 DEF ChannelTypes
        <5>2. CASE c # d
          BY <3>1, <4>5, <5>2 DEF ChannelTypes
        <5>3. QED
          BY <5>1, <5>2
      <4>7. QED
        BY <3>1, <4>5, <4>6 DEF ChannelTypes
    <3>3. CASE ~(todo # <<>> /\ HasRoom(Head(todo)))
      BY <1>12, <3>1, <3>3, StutterTypes DEF Cast, writerVars
    <3>4. QED
      BY <3>2, <3>3
  <2>3. QED
    BY <1>12, <2>1, <2>2, StutterTypes DEF Cast, netVars
<1>13. ASSUME NEW c \in Conn, Take(c)
      PROVE  TypeOK'
  <2>1. ChannelTypes'
    BY <1>13 DEF ChannelTypes, Take, netVars
  <2>2. QED
    BY <1>13, <2>1, StutterTypes DEF Take, netVars
<1>14. ASSUME NEW c \in Conn, Write(c)
      PROVE  TypeOK'
  <2>1. ChannelTypes'
    BY <1>14 DEF ChannelTypes, Write, netVars
  <2>2. QED
    BY <1>14, <2>1, StutterTypes DEF Write, netVars
<1>15. CASE Restart
  <2>1. NetTypes'
    BY <1>15 DEF NetTypes, Restart
  <2>2. HandlerTypes'
    BY <1>15 DEF HandlerTypes, Restart
  <2>3. ReaderTypes'
    BY <1>15 DEF ReaderTypes, Restart, Deciding
  <2>4. BuilderTypes'
    BY <1>15 DEF BuilderTypes, Restart
  <2>5. ChannelTypes'
    BY <1>15 DEF ChannelTypes, Restart
  <2>6. restarts' \in 0 .. MaxRestarts
    BY <1>15 DEF Restart
  <2>7. QED
    BY <2>1, <2>2, <2>3, <2>4, <2>5, <2>6
<1>16. CASE UNCHANGED vars
  BY <1>16, StutterTypes DEF vars, netVars
<1>17. QED
  BY <1>1, <1>2, <1>3, <1>4, <1>5, <1>6, <1>7, <1>8, <1>9, <1>10, <1>11, <1>12, <1>13, <1>14, <1>15, <1>16
  DEF Next, ReadPump, Builder, WritePump, Idle

\* Every reachable state is well typed, no Send channel holds more than its
\* capacity and no WritePump more than one frame.
THEOREM TypeCorrect == Spec => []TypeOK
  BY InitTypeOK, NextTypeOK, PTL DEF Spec

=============================================================================
