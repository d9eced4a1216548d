-------------------- MODULE OrderingServiceSafety_proofs --------------------
(***************************************************************************)
(* Where a transaction is, from the wire to the chain: it is at one place  *)
(* at a time, it is never lost but by a crash, it is committed at most     *)
(* once, and a runtime is told of it only when the service holds it.       *)
(***************************************************************************)
EXTENDS OrderingService_proofs

Distinct(s) == \A i, j \in DOMAIN s : s[i] = s[j] => i = j

\* The program points between mu.Lock and mu.Unlock.
Holding == {"block", "ack", "reset", "unlock"}

\* One ReadPump at a time is between Lock and Unlock, and none runs before
\* its connection is registered.
MutexInv ==
  \A c \in Conn : /\ reader[c] \in Holding <=> mu = c
                  /\ handler[c] # "done" => reader[c] = "off"
                  /\ link[c] = "idle" => handler[c] = "idle"

\* A connection gets into a slice of connections when its handler is done,
\* and once.
Registered(s) == Distinct(s) /\ \A i \in DOMAIN s : handler[s[i]] = "done"

RegistryInv ==
  /\ Registered(runtime_clients)
  /\ Registered(todo)
  /\ \A c \in Conn : /\ Registered(loaded[c])
                     /\ handler[c] # "done" => frames[c] = <<>>

\* What came on a connection and is not pooled yet.
Unpooled(c) ==
  Elems(inbox[c]) \cup (IF reader[c] = "lock" THEN {msg[c]} ELSE {})

\* A message that is not pooled is at one place of its own connection, and
\* the service holds no message that was not sent.
WaitingInv ==
  /\ \A c \in Conn : /\ Distinct(inbox[c])
                     /\ reader[c] = "lock" => msg[c] \notin Elems(inbox[c])
                     /\ \A m \in Unpooled(c) : origin[m] = c /\ m \notin Held
  /\ \A m \in Held : origin[m] # None

\* A pooled message is in the pool, in the block being made or in the chain,
\* and at one place of it: but between the hand-over of the pool and its
\* reset, when all of the pool is also in one of the other two.
Resetting == \E c \in Conn : reader[c] = "reset"

PlaceInv ==
  /\ Distinct(allTransactions)
  /\ builder = "block" => Distinct(job.txs) /\ Making \cap Committed = {}
  /\ Resetting => Elems(allTransactions) \subseteq Making \cup Committed
  /\ ~Resetting => Elems(allTransactions) \cap (Making \cup Committed) = {}
  /\ CommittedOnce

\* The message a ReadPump or the builder is about to answer for is held.
AnswerInv ==
  /\ \A c \in Conn : reader[c] \in {"block", "ack"}
                       => msg[c] \in Elems(allTransactions)
  /\ builder # "idle" => job.id \in Held
  /\ RepliesHeld

\* The block being broadcast is the last of the chain, and the connections
\* it has not come to have only earlier ones.
ChainInv ==
  /\ builder = "block" => job.broadcast
  /\ builder = "cast" /\ job.broadcast =>
       /\ Len(Blocks) \in DOMAIN Blocks
       /\ job.txs = Blocks[Len(Blocks)]
       /\ \A k \in DOMAIN todo : \A i \in DOMAIN frames[todo[k]] :
            ~frames[todo[k]][i].ack => frames[todo[k]][i].at < Len(Blocks)
  /\ BlocksInOrder

SafetyInv ==
  /\ MutexInv
  /\ RegistryInv
  /\ WaitingInv
  /\ PlaceInv
  /\ AnswerInv
  /\ ChainInv

-----------------------------------------------------------------------------
(***************************************************************************)
(* Sequences.                                                              *)
(***************************************************************************)

\* Appending adds one element, the tail lacks the head alone.
LEMMA ElemsAppend ==
  ASSUME NEW S, NEW s \in Seq(S), NEW e \in S
  PROVE  Elems(Append(s, e)) = Elems(s) \cup {e}
<1> DEFINE t == Append(s, e)
<1>1. /\ t \in Seq(S) /\ Len(t) = Len(s) + 1 /\ Len(s) \in Nat
      /\ \A i \in 1 .. Len(s) : t[i] = s[i]
      /\ t[Len(s) + 1] = e
  BY AppendProperties, LenProperties
<1>2. DOMAIN s = 1 .. Len(s) /\ DOMAIN t = 1 .. Len(s) + 1
  BY <1>1, LenProperties
<1>3. QED
  BY <1>1, <1>2 DEF Elems

LEMMA ElemsEmpty == Elems(<<>>) = {}
  BY DEF Elems

LEMMA ElemsTail ==
  ASSUME NEW S, NEW s \in Seq(S), s # <<>>
  PROVE  Elems(s) = Elems(Tail(s)) \cup {Head(s)}
<1> DEFINE t == Tail(s)
<1>1. /\ t \in Seq(S) /\ Len(s) \in Nat \ {0} /\ Len(t) = Len(s) - 1
      /\ \A i \in 1 .. Len(t) : t[i] = s[i + 1]
      /\ Head(s) = s[1]
  BY HeadTailProperties, EmptySeq
<1>2. DOMAIN s = 1 .. Len(s) /\ DOMAIN t = 1 .. Len(s) - 1
  BY <1>1, LenProperties
<1>3. \A i \in DOMAIN s : i = 1 \/ (i - 1 \in DOMAIN t /\ s[i] = t[i - 1])
  BY <1>1, <1>2
<1>4. \A i \in DOMAIN t : i + 1 \in DOMAIN s /\ t[i] = s[i + 1]
  BY <1>1, <1>2
<1>5. 1 \in DOMAIN s
  BY <1>1, <1>2
<1>6. \A e : e \in Elems(s) => e \in Elems(t) \/ e = Head(s)
  BY <1>1, <1>3 DEF Elems
<1>7. \A e : e \in Elems(t) \/ e = Head(s) => e \in Elems(s)
  BY <1>1, <1>4, <1>5 DEF Elems
<1>8. QED
  BY <1>6, <1>7

\* Appending a new element keeps a sequence without duplicates, and so does
\* taking the tail, which loses the head.
LEMMA DistinctAppend ==
  ASSUME NEW S, NEW s \in Seq(S), NEW e \in S, Distinct(s), e \notin Elems(s)
  PROVE  Distinct(Append(s, e))
<1> DEFINE t == Append(s, e)
<1>1. /\ t \in Seq(S) /\ Len(t) = Len(s) + 1 /\ Len(s) \in Nat
      /\ \A i \in 1 .. Len(s) : t[i] = s[i]
      /\ t[Len(s) + 1] = e
  BY AppendProperties, LenProperties
<1>2. DOMAIN s = 1 .. Len(s) /\ DOMAIN t = 1 .. Len(s) + 1
  BY <1>1, LenProperties
<1>3. QED
  BY <1>1, <1>2 DEF Elems, Distinct

LEMMA DistinctEmpty == Distinct(<<>>)
  BY DEF Distinct

LEMMA DistinctTail ==
  ASSUME NEW S, NEW s \in Seq(S), s # <<>>, Distinct(s)
  PROVE  /\ Distinct(Tail(s))
         /\ Head(s) \notin Elems(Tail(s))
<1> DEFINE t == Tail(s)
<1>1. /\ t \in Seq(S) /\ Len(s) \in Nat \ {0} /\ Len(t) = Len(s) - 1
      /\ \A i \in 1 .. Len(t) : t[i] = s[i + 1]
      /\ Head(s) = s[1]
  BY HeadTailProperties, EmptySeq
<1>2. DOMAIN s = 1 .. Len(s) /\ DOMAIN t = 1 .. Len(s) - 1
  BY <1>1, LenProperties
<1>3. 1 \in DOMAIN s /\ \A i \in DOMAIN t : i \in Int /\ i + 1 \in DOMAIN s /\ i + 1 # 1 /\ t[i] = s[i + 1]
  BY <1>1, <1>2
<1>4. \A i, j \in DOMAIN t : t[i] = t[j] => i = j
  BY <1>3 DEF Distinct
<1>5. QED
  BY <1>1, <1>3, <1>4 DEF Elems, Distinct

\* Appending a block adds its messages to what is committed, and keeps every
\* message at one place if the block has none twice and none that is there.
CommittedBy(B) == UNION {Elems(B[b]) : b \in DOMAIN B}

OnceIn(B) ==
  \A a, b \in DOMAIN B : \A i \in DOMAIN B[a], j \in DOMAIN B[b] :
    B[a][i] = B[b][j] => a = b /\ i = j

LEMMA CommittedAppend ==
  ASSUME NEW S, NEW B \in Seq(Seq(S)), NEW t \in Seq(S)
  PROVE  CommittedBy(Append(B, t)) = CommittedBy(B) \cup Elems(t)
<1> DEFINE C == Append(B, t)
<1>1. /\ C \in Seq(Seq(S)) /\ Len(C) = Len(B) + 1 /\ Len(B) \in Nat
      /\ \A i \in 1 .. Len(B) : C[i] = B[i]
      /\ C[Len(B) + 1] = t
  BY AppendProperties, LenProperties
<1>2. DOMAIN B = 1 .. Len(B) /\ DOMAIN C = 1 .. Len(B) + 1
  BY <1>1, LenProperties
<1>3. {Elems(C[b]) : b \in DOMAIN C} = {Elems(B[b]) : b \in DOMAIN B} \cup {Elems(t)}
  BY <1>1, <1>2
<1>4. QED
  BY <1>3 DEF CommittedBy

LEMMA OnceAppend ==
  ASSUME NEW S, NEW B \in Seq(Seq(S)), NEW t \in Seq(S),
         OnceIn(B), Distinct(t), Elems(t) \cap CommittedBy(B) = {}
  PROVE  OnceIn(Append(B, t))
<1> DEFINE C == Append(B, t)
<1>1. /\ C \in Seq(Seq(S)) /\ Len(C) = Len(B) + 1 /\ Len(B) \in Nat
      /\ \A i \in 1 .. Len(B) : C[i] = B[i]
      /\ C[Len(B) + 1] = t
  BY AppendProperties, LenProperties
<1>2. DOMAIN B = 1 .. Len(B) /\ DOMAIN C = 1 .. Len(B) + 1
  BY <1>1, LenProperties
<1>3. \A a \in DOMAIN C :
        (a \in DOMAIN B /\ C[a] = B[a]) \/ (a = Len(B) + 1 /\ C[a] = t)
  BY <1>1, <1>2
<1>4. \A a \in DOMAIN B : \A i \in DOMAIN B[a], j \in DOMAIN t : B[a][i] # t[j]
  <2> TAKE a \in DOMAIN B
  <2> TAKE i \in DOMAIN B[a], j \in DOMAIN t
  <2>1. B[a][i] \in Elems(B[a]) /\ t[j] \in Elems(t)
    BY DEF Elems
  <2>2. Elems(B[a]) \subseteq CommittedBy(B)
    BY DEF CommittedBy
  <2>3. QED
    BY <2>1, <2>2
<1>5. ASSUME NEW a \in DOMAIN C, NEW b \in DOMAIN C,
             NEW i \in DOMAIN C[a], NEW j \in DOMAIN C[b], C[a][i] = C[b][j]
      PROVE  a = b /\ i = j
  <2>1. CASE a \in DOMAIN B /\ C[a] = B[a] /\ b \in DOMAIN B /\ C[b] = B[b]
    BY <1>5, <2>1 DEF OnceIn
  <2>2. CASE a = Len(B) + 1 /\ C[a] = t /\ b = Len(B) + 1 /\ C[b] = t
    BY <1>5, <2>2 DEF Distinct
  <2>3. CASE a \in DOMAIN B /\ C[a] = B[a] /\ b = Len(B) + 1 /\ C[b] = t
    BY <1>4, <1>5, <2>3
  <2>4. CASE a = Len(B) + 1 /\ C[a] = t /\ b \in DOMAIN B /\ C[b] = B[b]
    BY <1>4, <1>5, <2>4
  <2>5. QED
    BY <1>3, <2>1, <2>2, <2>3, <2>4
<1>6. QED
  BY <1>5 DEF OnceIn

-----------------------------------------------------------------------------
(***************************************************************************)
(* The effect of every step on what the service holds.                     *)
(***************************************************************************)

\* What is held depends on four variables.
LEMMA HeldUnchanged ==
  ASSUME UNCHANGED <<allTransactions, builder, job, Blocks>>
  PROVE  Held' = Held /\ Making' = Making /\ Committed' = Committed
  BY DEF Held, Making, Committed, Elems

\* Pool adds the message the ReadPump decoded.
LEMMA HeldPool ==
  ASSUME TypeOK, NEW c \in Conn, Pool(c)
  PROVE  /\ Held' = Held \cup {msg[c]} /\ Making' = Making
         /\ Committed' = Committed
         /\ Elems(allTransactions') = Elems(allTransactions) \cup {msg[c]}
<1>1. UNCHANGED <<builder, job, Blocks>>
  BY DEF Pool, builderVars
<1>2. Making' = Making /\ Committed' = Committed
  BY <1>1 DEF Making, Committed, Elems
<1>3. msg[c] \in Message /\ allTransactions \in Seq(Message)
  BY DEF TypeOK, ReaderTypes, Deciding, Pool
<1>4. allTransactions' = Append(allTransactions, msg[c])
  BY DEF Pool, PoolWith
<1>5. Elems(allTransactions') = Elems(allTransactions) \cup {msg[c]}
  BY <1>3, <1>4, ElemsAppend
<1>6. Held' = Elems(allTransactions') \cup Making' \cup Committed'
  BY DEF Held, Elems
<1>7. QED
  BY <1>2, <1>5, <1>6 DEF Held

\* HandOver makes the pool the block in the making, or leaves all alone.
LEMMA HeldHandOver ==
  ASSUME NEW c \in Conn, HandOver(c)
  PROVE  /\ Held' = Held /\ Committed' = Committed /\ Making = {}
         /\ Elems(allTransactions') = Elems(allTransactions)
         /\ reader[c] = "block" => Making' = Elems(allTransactions)
         /\ reader[c] = "ack" => Making' = {}
<1>1. /\ UNCHANGED <<allTransactions, Blocks>> /\ builder = "idle"
      /\ reader[c] = "block" => builder' = "block" /\ job'.txs = allTransactions
      /\ reader[c] = "ack" => builder' = "cast"
      /\ reader[c] \in {"block", "ack"}
  BY DEF HandOver
<1>2. /\ Committed' = Committed
      /\ Elems(allTransactions') = Elems(allTransactions)
  BY <1>1 DEF Committed, Elems
<1>3. Making = {}
  BY <1>1 DEF Making
<1>4. /\ reader[c] = "block" => Making' = Elems(allTransactions)
      /\ reader[c] = "ack" => Making' = {}
  BY <1>1 DEF Making, Elems
<1>5. Held' = Elems(allTransactions') \cup Making' \cup Committed'
  BY DEF Held, Elems
<1>6. QED
  BY <1>1, <1>2, <1>3, <1>4, <1>5 DEF Held

\* AddBlock moves the block in the making into the chain.
LEMMA HeldAddBlock ==
  ASSUME TypeOK, AddBlock
  PROVE  /\ Held' = Held /\ Committed' = Committed \cup Making /\ Making' = {}
         /\ Elems(allTransactions') = Elems(allTransactions)
<1>1. /\ UNCHANGED <<allTransactions, job>>
      /\ Blocks' = Append(Blocks, job.txs) /\ builder = "block" /\ builder' = "cast"
  BY DEF AddBlock, readerVars
<1>2. Blocks \in Seq(Seq(Message)) /\ job.txs \in Seq(Message)
  BY <1>1 DEF TypeOK, BuilderTypes, Job
<1>3. Committed = CommittedBy(Blocks) /\ Committed' = CommittedBy(Blocks')
  BY DEF Committed, CommittedBy, Elems
<1>4. Making = Elems(job.txs) /\ Making' = {}
  BY <1>1 DEF Making
<1>5. Committed' = Committed \cup Making
  BY <1>1, <1>2, <1>3, <1>4, CommittedAppend
<1>6. Elems(allTransactions') = Elems(allTransactions)
  BY <1>1
<1>7. Held' = Elems(allTransactions') \cup Making' \cup Committed'
  BY DEF Held, Elems
<1>8. QED
  BY <1>4, <1>5, <1>6, <1>7 DEF Held

\* Cast does not change it: a builder that broadcasts makes no block.
LEMMA HeldCast ==
  ASSUME Cast
  PROVE  Held' = Held /\ Making' = Making /\ Committed' = Committed
<1>1. /\ UNCHANGED <<allTransactions, Blocks>>
      /\ builder = "cast" /\ builder' \in {"idle", "cast"}
  BY DEF Cast, readerVars
<1>2. Making = {} /\ Making' = {}
  BY <1>1 DEF Making
<1>3. QED
  BY <1>1, <1>2 DEF Held, Committed, Elems

\* Unlock resets a pool whose messages are all in the block it was handed
\* over for.
LEMMA HeldUnlock ==
  ASSUME PlaceInv, NEW c \in Conn, Unlock(c)
  PROVE  /\ Held' = Held /\ Making' = Making /\ Committed' = Committed
         /\ reader[c] = "reset" => Elems(allTransactions') = {}
         /\ reader[c] = "unlock" => Elems(allTransactions') = Elems(allTransactions)
<1>1. UNCHANGED <<builder, job, Blocks>>
  BY DEF Unlock, builderVars
<1>2. Making' = Making /\ Committed' = Committed
  BY <1>1 DEF Making, Committed, Elems
<1>3. Held' = Elems(allTransactions') \cup Making' \cup Committed'
  BY DEF Held, Elems
<1>4. CASE reader[c] = "reset"
  <2>1. allTransactions' = <<>>
    BY <1>4 DEF Unlock, PoolAfterBlock
  <2>2. Elems(allTransactions') = {}
    BY <2>1, ElemsEmpty
  <2>3. Elems(allTransactions) \subseteq Making \cup Committed
    BY <1>4 DEF PlaceInv, Resetting
  <2>4. QED
    BY <1>2, <1>3, <1>4, <2>2, <2>3 DEF Held
<1>5. CASE reader[c] = "unlock"
  BY <1>2, <1>3, <1>5 DEF Unlock, Held
<1>6. QED
  BY <1>4, <1>5 DEF Unlock

\* A restart leaves what is in the chain.
LEMMA HeldRestart ==
  ASSUME Restart
  PROVE  /\ Held' = Committed /\ Making' = {} /\ Committed' = Committed
         /\ Elems(allTransactions') = {}
<1>1. Blocks' = Blocks /\ builder' = "idle" /\ allTransactions' = <<>>
  BY DEF Restart
<1>2. Elems(allTransactions') = {}
  BY <1>1, ElemsEmpty
<1>3. Making' = {} /\ Committed' = Committed
  BY <1>1 DEF Making, Committed, Elems
<1>4. Held' = Elems(allTransactions') \cup Making' \cup Committed'
  BY DEF Held, Elems
<1>5. QED
  BY <1>2, <1>3, <1>4

-----------------------------------------------------------------------------
(***************************************************************************)
(* Every step preserves the parts of the invariant.                        *)
(***************************************************************************)

\* The mutex: only Pool takes it, and only its holder releases it.
LEMMA MutexStep ==
  ASSUME TypeOK, MutexInv, [Next]_vars
  PROVE  MutexInv'
<1> USE ConstAssumption DEF TypeOK, NetTypes, HandlerTypes, ReaderTypes, Deciding, MutexInv, Holding
<1>1. CASE UNCHANGED <<link, handler, reader, mu>>
  BY <1>1
<1>2. ASSUME NEW c \in Conn, Disconnect(c)
      PROVE  MutexInv'
  BY <1>2 DEF Disconnect, handlerVars, readerVars
<1>3. ASSUME NEW c \in Conn, Accept(c)
      PROVE  MutexInv'
  BY <1>3 DEF Accept, readerVars
<1>4. ASSUME NEW c \in Conn, Register(c)
      PROVE  MutexInv'
  BY <1>4 DEF Register, netVars
<1>5. ASSUME NEW c \in Conn, ReadMessage(c)
      PROVE  MutexInv'
  BY <1>5 DEF ReadMessage, handlerVars
<1>6. ASSUME NEW c \in Conn, ReadError(c)
      PROVE  MutexInv'
  BY <1>6 DEF ReadError, handlerVars
<1>7. ASSUME NEW c \in Conn, Pool(c)
      PROVE  MutexInv'
  BY <1>7 DEF Pool, MutexFree, netVars, handlerVars
<1>8. ASSUME NEW c \in Conn, HandOver(c)
      PROVE  MutexInv'
  BY <1>8 DEF HandOver, netVars, handlerVars
<1>9. ASSUME NEW c \in Conn, Unlock(c)
      PROVE  MutexInv'
  BY <1>9 DEF Unlock, netVars, handlerVars
<1>10. CASE Restart
  BY <1>10 DEF Restart
<1>11. QED
  BY <1>1, <1>2, <1>3, <1>4, <1>5, <1>6, <1>7, <1>8, <1>9, <1>10
  DEF Next, ReadPump, Builder, WritePump, Idle, Submit, Receive, AddBlock,
      Cast, Take, Write, vars, netVars, handlerVars, readerVars

\* A slice of registered connections stays one while handlers only proceed.
Proceeding == \A c \in Conn : handler[c] = "done" => handler'[c] = "done"

LEMMA RegisteredStays ==
  ASSUME Proceeding, NEW s \in Seq(Conn), Registered(s)
  PROVE  Registered(s)'
  BY ElementOfSeq, LenProperties DEF Proceeding, Registered, Distinct

LEMMA RegisteredTail ==
  ASSUME NEW s \in Seq(Conn), s # <<>>, Registered(s)
  PROVE  Registered(Tail(s))
<1>1. Distinct(Tail(s)) /\ Elems(s) = Elems(Tail(s)) \cup {Head(s)}
  BY DistinctTail, ElemsTail DEF Registered
<1>2. \A i \in DOMAIN Tail(s) : \E j \in DOMAIN s : s[j] = Tail(s)[i]
  BY <1>1 DEF Elems
<1>3. QED
  BY <1>1, <1>2 DEF Registered

LEMMA RegisteredEmpty == Registered(<<>>)
  BY DistinctEmpty DEF Registered

\* A slice another handler's append wrote into: that handler is done then,
\* and its connection was not in the slice before.
LEMMA RegisteredOverwritten ==
  ASSUME Proceeding, NEW c \in Conn, handler[c] = "append", handler'[c] = "done",
         NEW s \in Seq(Conn), Registered(s), NEW t \in Overwritten(s, c)
  PROVE  Distinct(t) /\ \A i \in DOMAIN t : handler'[t[i]] = "done"
<1>1. \A i \in DOMAIN s : s[i] \in Conn /\ s[i] # c /\ handler'[s[i]] = "done"
  BY ElementOfSeq, LenProperties DEF Registered, Proceeding
<1>2. CASE t = s
  BY <1>1, <1>2 DEF Registered
<1>3. ASSUME NEW k \in DOMAIN s, t = [s EXCEPT ![k] = c]
      PROVE  Distinct(t) /\ \A i \in DOMAIN t : handler'[t[i]] = "done"
  <2>1. DOMAIN t = DOMAIN s /\ \A i \in DOMAIN s : t[i] = IF i = k THEN c ELSE s[i]
    <3>1. k \in 1 .. Len(s) /\ DOMAIN s = 1 .. Len(s)
      BY LenProperties
    <3>2. QED
      BY <1>3, <3>1, ExceptSeq, OverwrittenEntry
  <2>2. QED
    BY <1>1, <2>1 DEF Registered, Distinct
<1>4. QED
  BY <1>2, <1>3, OverwrittenEntry

\* A connection is registered once, for a handler appends it to a slice it
\* read before it was done.
LEMMA RegistryStep ==
  ASSUME TypeOK, MutexInv, RegistryInv, [Next]_vars
  PROVE  RegistryInv'
<1> USE DEF RegistryInv
<1>0. /\ runtime_clients \in Seq(Conn) /\ todo \in Seq(Conn)
      /\ loaded \in [Conn -> Seq(Conn)]
      /\ handler \in [Conn -> {"idle", "append", "done"}]
  BY DEF TypeOK, HandlerTypes, BuilderTypes
<1>1. CASE UNCHANGED <<handler, runtime_clients, todo, loaded, frames>>
  BY <1>1 DEF Registered, Distinct
<1>2. ASSUME NEW c \in Conn, Accept(c)
      PROVE  RegistryInv'
  <2>1. /\ handler' = [handler EXCEPT ![c] = "append"]
        /\ loaded' = [loaded EXCEPT ![c] = runtime_clients]
        /\ UNCHANGED <<runtime_clients, todo, frames>>
        /\ handler[c] = "idle"
    BY <1>2 DEF Accept, builderVars, MutexInv
  <2>2. Proceeding
    BY <1>0, <2>1 DEF Proceeding
  <2>3. Registered(runtime_clients)' /\ Registered(todo)'
    BY <1>0, <2>1, <2>2, RegisteredStays DEF Registered, Distinct
  <2>4. ASSUME NEW d \in Conn
        PROVE  Registered(loaded[d])' /\ (handler'[d] # "done" => frames'[d] = <<>>)
    <3>1. loaded'[d] = IF d = c THEN runtime_clients ELSE loaded[d]
      BY <1>0, <2>1
    <3>2. Registered(loaded'[d]) /\ loaded'[d] \in Seq(Conn)
      BY <1>0, <3>1
    <3>3. \A i \in DOMAIN loaded'[d] : handler'[loaded'[d][i]] = "done"
      BY <2>2, <3>2, ElementOfSeq, LenProperties DEF Proceeding, Registered
    <3>4. handler'[d] # "done" => frames'[d] = <<>>
      BY <1>0, <2>1
    <3>5. QED
      BY <3>2, <3>3, <3>4 DEF Registered, Distinct
  <2>5. QED
    BY <2>3, <2>4 DEF Registered, Distinct
<1>3. ASSUME NEW c \in Conn, Register(c)
      PROVE  RegistryInv'
  <2>1. /\ handler' = [handler EXCEPT ![c] = "done"]
        /\ runtime_clients' = Append(loaded[c], c)
        /\ todo' \in Overwritten(todo, c)
        /\ frames' = frames
        /\ handler[c] = "append"
    BY <1>3 DEF Register, Overwritten
  <2>2. Proceeding
    BY <1>0, <2>1 DEF Proceeding
  <2>3. c \notin Elems(loaded[c])
    BY <2>1 DEF Registered, Elems
  <2>4. Distinct(runtime_clients')
    BY <1>0, <2>1, <2>3, DistinctAppend DEF Registered
  <2>5. Elems(runtime_clients') = Elems(loaded[c]) \cup {c}
    BY <1>0, <2>1, ElemsAppend
  <2>6. \A d \in Elems(runtime_clients') : d \in Conn /\ handler'[d] = "done"
    BY <1>0, <2>1, <2>2, <2>5, ElementOfSeq, LenProperties DEF Elems, Registered, Proceeding
  <2>7. Registered(runtime_clients)'
    BY <2>4, <2>6 DEF Registered, Distinct, Elems
  <2>8. handler'[c] = "done"
    BY <1>0, <2>1
  <2>9. Registered(todo)'
    <3>1. Distinct(todo') /\ \A i \in DOMAIN todo' : handler'[todo'[i]] = "done"
      BY <1>0, <2>1, <2>2, <2>8, RegisteredOverwritten
    <3>2. QED
      BY <3>1 DEF Registered, Distinct
  <2>10. ASSUME NEW d \in Conn
         PROVE  Registered(loaded[d])' /\ (handler'[d] # "done" => frames'[d] = <<>>)
    <3>1. Distinct(loaded'[d]) /\ \A i \in DOMAIN loaded'[d] : handler'[loaded'[d][i]] = "done"
      <4>1. CASE d = c
        BY <1>0, <1>3, <4>1, RegisterLoads, DistinctEmpty
      <4>2. CASE d # c
        <5>1. loaded'[d] \in Overwritten(loaded[d], c)
          BY <1>0, <1>3, <4>2, RegisterLoads
        <5>2. QED
          BY <1>0, <2>1, <2>2, <2>8, <5>1, RegisteredOverwritten
      <4>3. QED
        BY <4>1, <4>2
    <3>2. handler'[d] # "done" => frames'[d] = <<>>
      BY <1>0, <2>1
    <3>3. QED
      BY <3>1, <3>2 DEF Registered, Distinct
  <2>11. QED
    BY <2>7, <2>9, <2>10 DEF Registered, Distinct
<1>4. ASSUME NEW c \in Conn, HandOver(c)
      PROVE  RegistryInv'
  <2>1. /\ UNCHANGED <<handler, runtime_clients, loaded, frames>>
        /\ todo' = <<>> \/ todo' = <<c>>
        /\ handler[c] = "done"
    BY <1>4 DEF HandOver, handlerVars, MutexInv
  <2>2. Registered(todo)'
    BY <2>1 DEF Registered, Distinct
  <2>3. QED
    BY <2>1, <2>2 DEF Registered, Distinct
<1>5. CASE AddBlock
  BY <1>5 DEF AddBlock, Recipients, handlerVars, Registered, Distinct
<1>6. CASE Cast
  <2>1. UNCHANGED <<handler, runtime_clients, loaded>>
    BY <1>6 DEF Cast, handlerVars
  <2>2. CASE todo' = <<>> /\ UNCHANGED frames
    BY <2>1, <2>2, RegisteredEmpty DEF Registered, Distinct
  <2>3. CASE /\ todo # <<>> /\ todo' = Tail(todo)
             /\ frames' = [frames EXCEPT
                  ![Head(todo)] = Append(@, FrameOf(job, Len(Blocks)))]
    <3>1. Registered(todo')
      BY <1>0, <2>3, RegisteredTail
    <3>2. handler[Head(todo)] = "done"
      BY <1>0, <2>3, EmptySeq, LenProperties DEF Registered
    <3>3. \A d \in Conn : handler[d] # "done" => frames'[d] = frames[d]
      BY <2>3, <3>2 DEF TypeOK, ChannelTypes
    <3>4. QED
      BY <2>1, <3>1, <3>3 DEF Registered, Distinct
  <2>4. QED
    BY <1>6, <2>2, <2>3 DEF Cast
<1>7. CASE Restart
  <2>1. runtime_clients' = <<>> /\ todo' = <<>> /\ \A c \in Conn : loaded'[c] = <<>>
    BY <1>7 DEF Restart
  <2>2. Registered(runtime_clients)' /\ Registered(todo)'
    BY <2>1 DEF Registered, Distinct
  <2>3. \A c \in Conn : Registered(loaded[c])'
    BY <2>1 DEF Registered, Distinct
  <2>4. \A c \in Conn : handler'[c] # "done" => frames'[c] = <<>>
    BY <1>7 DEF Restart, MutexInv
  <2>5. QED
    BY <2>2, <2>3, <2>4
<1>8. QED
  BY <1>1, <1>2, <1>3, <1>4, <1>5, <1>6, <1>7
  DEF Next, ReadPump, Builder, WritePump, Idle, Submit, Receive, Disconnect,
      ReadMessage, ReadError, Pool, Unlock, Take, Write, vars, handlerVars,
      builderVars

\* A step that neither sends nor pools a message only takes messages away.
WireOK(c) == /\ Distinct(inbox[c])
             /\ reader[c] = "lock" => msg[c] \notin Elems(inbox[c])

LEMMA WaitingLess ==
  ASSUME WaitingInv, origin' = origin, Held' \subseteq Held,
         \A c \in Conn : WireOK(c)' /\ Unpooled(c)' \subseteq Unpooled(c)
  PROVE  WaitingInv'
  BY DEF WaitingInv, WireOK

LEMMA WireUnchanged ==
  ASSUME WaitingInv, NEW c \in Conn, inbox'[c] = inbox[c],
         \/ reader'[c] = reader[c] /\ msg'[c] = msg[c]
         \/ reader'[c] # "lock"
  PROVE  WireOK(c)' /\ Unpooled(c)' \subseteq Unpooled(c)
  BY DEF WaitingInv, WireOK, Unpooled, Distinct, Elems

\* A message waits at one place of its connection, and the service has it
\* from the step that pools it.
LEMMA WaitingStep ==
  ASSUME TypeOK, MutexInv, WaitingInv, PlaceInv, [Next]_vars
  PROVE  WaitingInv'
<1>0. /\ inbox \in [Conn -> Seq(Message)] /\ origin \in [Message -> Conn \cup {None}]
      /\ reader \in [Conn -> {"off", "read", "done"} \cup Deciding]
      /\ msg \in [Conn -> Message \cup {None}]
  BY DEF TypeOK, NetTypes, ReaderTypes
<1>1. CASE /\ UNCHANGED <<origin, inbox, reader, msg>>
           /\ Held' = Held
  <2>1. \A c \in Conn : WireOK(c)' /\ Unpooled(c)' \subseteq Unpooled(c)
    BY <1>1, WireUnchanged
  <2>2. QED
    BY <1>1, <2>1, WaitingLess
<1>2. ASSUME NEW c \in Conn, NEW m \in Message, Submit(c, m)
      PROVE  WaitingInv'
  <2>1. /\ origin' = [origin EXCEPT ![m] = c] /\ origin[m] = None
        /\ inbox' = [inbox EXCEPT ![c] = Append(@, m)]
        /\ UNCHANGED <<reader, msg>>
        /\ Held' = Held
    BY <1>2, HeldUnchanged DEF Submit, readerVars, builderVars
  <2>2. /\ m \notin Held
        /\ \A d \in Conn : m \notin Unpooled(d)
    BY <2>1, ConstAssumption DEF WaitingInv
  <2>3. /\ Distinct(inbox'[c])
        /\ Elems(inbox'[c]) = Elems(inbox[c]) \cup {m}
    BY <1>0, <2>1, <2>2, DistinctAppend, ElemsAppend DEF WaitingInv, Unpooled
  <2>4. WireOK(c)' /\ Unpooled(c)' = Unpooled(c) \cup {m}
    <3>1. Elems(inbox[c])' = Elems(inbox[c]) \cup {m} /\ Distinct(inbox[c])'
      BY <2>3 DEF Elems, Distinct
    <3>2. QED
      BY <2>1, <2>2, <3>1 DEF WireOK, Unpooled, WaitingInv
  <2>5. \A d \in Conn \ {c} : WireOK(d)' /\ Unpooled(d)' \subseteq Unpooled(d)
    BY <1>0, <2>1, WireUnchanged
  <2>6. QED
    BY <1>0, <2>1, <2>2, <2>4, <2>5, ConstAssumption DEF WaitingInv, WireOK
<1>3. ASSUME NEW c \in Conn, Register(c)
      PROVE  WaitingInv'
  <2>1. /\ UNCHANGED <<origin, inbox, msg>> /\ Held' = Held
        /\ reader' = [reader EXCEPT ![c] = "read"]
    BY <1>3, HeldUnchanged DEF Register, netVars
  <2>2. \A d \in Conn : WireOK(d)' /\ Unpooled(d)' \subseteq Unpooled(d)
    BY <1>0, <2>1, WireUnchanged
  <2>3. QED
    BY <2>1, <2>2, WaitingLess
<1>4. ASSUME NEW c \in Conn, ReadMessage(c)
      PROVE  WaitingInv'
  <2>1. /\ origin' = origin /\ Held' = Held
        /\ inbox' = [inbox EXCEPT ![c] = Tail(@)] /\ inbox[c] # <<>>
        /\ reader[c] = "read"
        /\ \/ UNCHANGED <<reader, msg>>
           \/ /\ msg' = [msg EXCEPT ![c] = Head(inbox[c])]
              /\ reader' = [reader EXCEPT ![c] = "lock"]
    BY <1>4, HeldUnchanged DEF ReadMessage, builderVars
  <2>2. /\ Distinct(inbox'[c])
        /\ Elems(inbox[c]) = Elems(inbox'[c]) \cup {Head(inbox[c])}
        /\ Head(inbox[c]) \notin Elems(inbox'[c])
    BY <1>0, <2>1, DistinctTail, ElemsTail DEF WaitingInv
  <2>3. WireOK(c)' /\ Unpooled(c)' \subseteq Unpooled(c)
    <3>1. Elems(inbox[c])' = Elems(inbox'[c]) /\ Distinct(inbox[c])'
      BY <2>2 DEF Elems, Distinct
    <3>2. CASE UNCHANGED <<reader, msg>>
      BY <2>1, <2>2, <3>1, <3>2 DEF WireOK, Unpooled
    <3>3. CASE /\ msg' = [msg EXCEPT ![c] = Head(inbox[c])]
               /\ reader' = [reader EXCEPT ![c] = "lock"]
      <4>1. msg'[c] = Head(inbox[c])
        BY <1>0, <3>3
      <4>2. QED
        BY <2>1, <2>2, <3>1, <4>1 DEF WireOK, Unpooled
    <3>4. QED
      BY <2>1, <3>2, <3>3
  <2>4. \A d \in Conn \ {c} : WireOK(d)' /\ Unpooled(d)' \subseteq Unpooled(d)
    BY <1>0, <2>1, WireUnchanged
  <2>5. QED
    BY <2>1, <2>3, <2>4, WaitingLess
<1>5. ASSUME NEW c \in Conn, ReadError(c)
      PROVE  WaitingInv'
  <2>1. /\ origin' = origin /\ msg' = msg /\ Held' = Held
        /\ inbox' = [inbox EXCEPT ![c] = <<>>]
        /\ reader' = [reader EXCEPT ![c] = "done"]
    BY <1>5, HeldUnchanged DEF ReadError, builderVars
  <2>2. WireOK(c)' /\ Unpooled(c)' \subseteq Unpooled(c)
    BY <1>0, <2>1 DEF WireOK, Unpooled, Elems, Distinct
  <2>3. \A d \in Conn \ {c} : WireOK(d)' /\ Unpooled(d)' \subseteq Unpooled(d)
    BY <1>0, <2>1, WireUnchanged
  <2>4. QED
    BY <2>1, <2>2, <2>3, WaitingLess
<1>6. ASSUME NEW c \in Conn, Pool(c)
      PROVE  WaitingInv'
  <2>1. /\ UNCHANGED <<origin, inbox, msg>> /\ reader[c] = "lock"
        /\ reader'[c] # "lock"
        /\ \A d \in Conn \ {c} : reader'[d] = reader[d]
    BY <1>0, <1>6 DEF Pool, netVars
  <2>2. Held' = Held \cup {msg[c]}
    BY <1>6, HeldPool
  <2>3. \A d \in Conn : WireOK(d)' /\ Unpooled(d)' \subseteq Unpooled(d)
    BY <2>1, WireUnchanged
  <2>4. msg[c] \in Unpooled(c) /\ Unpooled(c)' = Elems(inbox[c])
    BY <2>1 DEF Unpooled, Elems
  <2>5. origin[msg[c]] = c /\ msg[c] \notin Elems(inbox[c])
    BY <2>1, <2>4 DEF WaitingInv
  <2>6. \A d \in Conn : msg[c] \notin Unpooled(d)'
    BY <2>3, <2>4, <2>5 DEF WaitingInv
  <2>7. QED
    BY <2>1, <2>2, <2>3, <2>5, <2>6, ConstAssumption DEF WaitingInv, WireOK
<1>7. ASSUME NEW c \in Conn, HandOver(c) \/ Unlock(c)
      PROVE  WaitingInv'
  <2>1. /\ UNCHANGED <<origin, inbox>> /\ reader'[c] # "lock"
        /\ \A d \in Conn \ {c} : reader'[d] = reader[d] /\ msg'[d] = msg[d]
    BY <1>0, <1>7 DEF HandOver, Unlock, netVars
  <2>2. Held' = Held
    BY <1>7, HeldHandOver, HeldUnlock
  <2>3. \A d \in Conn : WireOK(d)' /\ Unpooled(d)' \subseteq Unpooled(d)
    BY <2>1, WireUnchanged
  <2>4. QED
    BY <2>1, <2>2, <2>3, WaitingLess
<1>8. CASE Restart
  <2>1. /\ origin' = origin
        /\ \A c \in Conn : inbox'[c] = <<>> /\ reader'[c] # "lock"
    BY <1>8 DEF Restart
  <2>2. Held' \subseteq Held
    BY <1>8, HeldRestart DEF Held
  <2>3. \A c \in Conn : WireOK(c)' /\ Unpooled(c)' \subseteq Unpooled(c)
    BY <2>1 DEF WireOK, Unpooled, Elems, Distinct
  <2>4. QED
    BY <2>1, <2>2, <2>3, WaitingLess
<1>9. CASE AddBlock \/ Cast
  BY <1>1, <1>9, HeldAddBlock, HeldCast DEF AddBlock, Cast, netVars, readerVars
<1>10. QED
  BY <1>1, <1>2, <1>3, <1>4, <1>5, <1>6, <1>7, <1>8, <1>9, HeldUnchanged
  DEF Next, ReadPump, Builder, WritePump, Idle, Receive, Disconnect, Accept,
      Take, Write, vars, netVars, readerVars, builderVars

\* A pool is not reset while another ReadPump is between Lock and Unlock.
LEMMA NotResetting ==
  ASSUME MutexInv, NEW c \in Conn,
         mu = None \/ reader[c] \in {"block", "ack", "unlock"}
  PROVE  ~Resetting
  BY ConstAssumption DEF MutexInv, Resetting, Holding

\* The pool, the block in the making and the chain stay apart.
LEMMA PlaceStep ==
  ASSUME TypeOK, MutexInv, MutexInv', WaitingInv, PlaceInv, [Next]_vars
  PROVE  PlaceInv'
<1>0. /\ allTransactions \in Seq(Message) /\ Blocks \in Seq(Seq(Message))
      /\ reader \in [Conn -> {"off", "read", "done"} \cup Deciding]
  BY DEF TypeOK, ReaderTypes, BuilderTypes
<1>1. CASE /\ UNCHANGED <<allTransactions, builder, job, Blocks>>
           /\ Resetting' = Resetting
  BY <1>1 DEF PlaceInv, Distinct, Making, Committed, Elems, CommittedOnce
<1>2. ASSUME NEW c \in Conn, Pool(c)
      PROVE  PlaceInv'
  <2>1. ~Resetting /\ ~Resetting'
    <3>1. mu = None /\ reader'[c] \in {"block", "ack"}
      BY <1>0, <1>2 DEF Pool, MutexFree
    <3>2. ~Resetting
      BY <3>1, NotResetting
    <3>3. ~Resetting'
      BY <3>1, ConstAssumption DEF MutexInv, Resetting, Holding
    <3>4. QED
      BY <3>2, <3>3
  <2>2. /\ allTransactions' = Append(allTransactions, msg[c])
        /\ UNCHANGED <<builder, job, Blocks>>
        /\ reader[c] = "lock"
    BY <1>2 DEF Pool, PoolWith, builderVars
  <2>3. msg[c] \in Message /\ msg[c] \notin Held
    BY <2>2 DEF TypeOK, ReaderTypes, Deciding, WaitingInv, Unpooled
  <2>4. Distinct(allTransactions)'
    BY <1>0, <2>2, <2>3, DistinctAppend DEF PlaceInv, Held, Distinct
  <2>5. /\ Elems(allTransactions)' = Elems(allTransactions) \cup {msg[c]}
        /\ Making' = Making /\ Committed' = Committed
    BY <1>2, HeldPool DEF Elems
  <2>6. QED
    BY <2>1, <2>2, <2>3, <2>4, <2>5 DEF PlaceInv, Held, CommittedOnce, Distinct
<1>3. ASSUME NEW c \in Conn, HandOver(c)
      PROVE  PlaceInv'
  <2>1. ~Resetting
    BY <1>3, NotResetting DEF HandOver
  <2>2. /\ Committed' = Committed /\ Making = {}
        /\ Elems(allTransactions)' = Elems(allTransactions)
        /\ UNCHANGED <<allTransactions, Blocks>>
    BY <1>3, HeldHandOver DEF HandOver, Elems
  <2>3. CASE reader[c] = "block"
    <3>1. /\ Resetting' /\ Making' = Elems(allTransactions)
          /\ job'.txs = allTransactions
      BY <1>0, <1>3, <2>3, HeldHandOver DEF HandOver, Resetting
    <3>2. QED
      BY <2>1, <2>2, <3>1 DEF PlaceInv, CommittedOnce, Distinct
  <2>4. CASE reader[c] = "ack"
    <3>1. Making' = {} /\ builder' = "cast" /\ reader'[c] = "unlock"
      BY <1>0, <1>3, <2>4, HeldHandOver DEF HandOver
    <3>2. ~Resetting'
      BY <3>1 DEF MutexInv, Resetting, Holding
    <3>3. QED
      BY <2>1, <2>2, <3>1, <3>2 DEF PlaceInv, CommittedOnce, Distinct
  <2>5. QED
    BY <1>3, <2>3, <2>4 DEF HandOver
<1>4. ASSUME NEW c \in Conn, Unlock(c)
      PROVE  PlaceInv'
  <2>1. /\ UNCHANGED <<builder, job, Blocks>>
        /\ Making' = Making /\ Committed' = Committed
    BY <1>4, HeldUnlock DEF Unlock, builderVars
  <2>2. mu' = None
    BY <1>4 DEF Unlock
  <2>3. ~Resetting'
    BY <2>2, ConstAssumption DEF MutexInv, Resetting, Holding
  <2>4. CASE reader[c] = "reset"
    <3>1. allTransactions' = <<>>
      BY <1>4, <2>4 DEF Unlock, PoolAfterBlock
    <3>2. Distinct(allTransactions)' /\ Elems(allTransactions)' = {}
      BY <3>1 DEF Distinct, Elems
    <3>3. QED
      BY <2>1, <2>3, <3>2 DEF PlaceInv, CommittedOnce, Distinct
  <2>5. CASE reader[c] = "unlock"
    <3>1. ~Resetting
      BY <2>5, NotResetting
    <3>2. allTransactions' = allTransactions
      BY <1>4, <2>5 DEF Unlock
    <3>3. QED
      BY <2>1, <2>3, <3>1, <3>2 DEF PlaceInv, CommittedOnce, Distinct, Elems
  <2>6. QED
    BY <1>4, <2>4, <2>5 DEF Unlock
<1>5. CASE AddBlock
  <2>1. /\ UNCHANGED <<allTransactions, reader>> /\ builder' = "cast"
        /\ Blocks' = Append(Blocks, job.txs) /\ builder = "block"
    BY <1>5 DEF AddBlock, readerVars
  <2>2. /\ Committed' = Committed \cup Making /\ Making' = {}
        /\ Elems(allTransactions)' = Elems(allTransactions)
    BY <1>5, <2>1, HeldAddBlock DEF Elems
  <2>3. CommittedOnce'
    <3>1. job.txs \in Seq(Message)
      BY <2>1 DEF TypeOK, BuilderTypes, Job
    <3>2. Distinct(job.txs) /\ Elems(job.txs) \cap CommittedBy(Blocks) = {}
      BY <2>1 DEF PlaceInv, Making, Committed, CommittedBy
    <3>3. OnceIn(Blocks)
      BY DEF PlaceInv, CommittedOnce, OnceIn
    <3>4. OnceIn(Blocks')
      BY <1>0, <2>1, <3>1, <3>2, <3>3, OnceAppend
    <3>5. QED
      BY <3>4 DEF CommittedOnce, OnceIn
  <2>4. Resetting' = Resetting
    BY <2>1 DEF Resetting
  <2>5. QED
    BY <2>1, <2>2, <2>3, <2>4 DEF PlaceInv, Distinct
<1>6. CASE Cast
  <2>1. /\ UNCHANGED <<allTransactions, reader, Blocks>> /\ builder' # "block"
        /\ Making' = Making /\ Committed' = Committed
    BY <1>6, HeldCast DEF Cast, readerVars
  <2>2. Resetting' = Resetting
    BY <2>1 DEF Resetting
  <2>3. QED
    BY <2>1, <2>2 DEF PlaceInv, Distinct, Elems, CommittedOnce
<1>7. CASE Restart
  <2>1. /\ allTransactions' = <<>> /\ builder' = "idle" /\ Blocks' = Blocks
        /\ ~Resetting'
    BY <1>7 DEF Restart, Resetting
  <2>2. Distinct(allTransactions)' /\ Elems(allTransactions)' = {}
    BY <2>1 DEF Distinct, Elems
  <2>3. QED
    BY <2>1, <2>2 DEF PlaceInv, CommittedOnce
<1>8. ASSUME NEW c \in Conn, Register(c) \/ ReadMessage(c) \/ ReadError(c)
      PROVE  Resetting' = Resetting
  <2>1. /\ reader[c] # "reset" /\ reader'[c] # "reset"
        /\ \A d \in Conn \ {c} : reader'[d] = reader[d]
    <3>1. CASE Register(c)
      <4>1. reader[c] = "off" /\ reader' = [reader EXCEPT ![c] = "read"]
        BY <3>1 DEF Register, MutexInv
      <4>2. QED
        BY <1>0, <4>1
    <3>2. CASE ReadMessage(c) \/ ReadError(c)
      BY <1>0, <3>2 DEF ReadMessage, ReadError
    <3>3. QED
      BY <1>8, <3>1, <3>2
  <2>2. QED
    BY <2>1 DEF Resetting
<1>9. UNCHANGED reader => Resetting' = Resetting
  BY DEF Resetting
<1>10. QED
  BY <1>1, <1>2, <1>3, <1>4, <1>5, <1>6, <1>7, <1>8, <1>9
  DEF Next, ReadPump, Builder, WritePump, Idle, Submit, Receive, Disconnect,
      Accept, Register, ReadMessage, ReadError, Take, Write, vars, readerVars,
      builderVars

\* No step but a restart lets go of a message.
LEMMA HeldGrows ==
  ASSUME TypeOK, PlaceInv, [Next]_vars, restarts' = restarts
  PROVE  Held \subseteq Held'
<1>1. ~Restart
  BY DEF Restart, TypeOK
<1>2. CASE UNCHANGED <<allTransactions, builder, job, Blocks>>
  BY <1>2, HeldUnchanged
<1>3. QED
  BY <1>1, <1>2, HeldPool, HeldHandOver, HeldUnlock, HeldAddBlock, HeldCast
  DEF Next, ReadPump, Builder, WritePump, Idle, Submit, Receive, Disconnect,
      Accept, Register, ReadMessage, ReadError, Take, Write, vars, readerVars,
      builderVars

\* A round of the broadcast appends a frame for the connection at the head,
\* or ends the broadcast.
Sends(d) ==
  /\ todo # <<>> /\ d = Head(todo) /\ todo' = Tail(todo)
  /\ Len(frames'[d]) = Len(frames[d]) + 1
  /\ DOMAIN frames[d] = 1 .. Len(frames[d]) /\ Len(frames[d]) \in Nat
  /\ DOMAIN frames'[d] = 1 .. Len(frames[d]) + 1
  /\ frames'[d][Len(frames[d]) + 1] = FrameOf(job, Len(Blocks))
  /\ \A i \in DOMAIN frames[d] : frames'[d][i] = frames[d][i]
  /\ \A c \in Conn \ {d} : frames'[c] = frames[c]

LEMMA CastSends ==
  ASSUME TypeOK, Cast
  PROVE  (frames' = frames /\ todo' = <<>>) \/ \E d \in Conn : Sends(d)
<1>1. CASE frames' = frames /\ todo' = <<>>
  BY <1>1
<1>2. CASE /\ todo # <<>> /\ todo' = Tail(todo)
           /\ frames' = [frames EXCEPT
                ![Head(todo)] = Append(@, FrameOf(job, Len(Blocks)))]
  <2> DEFINE d == Head(todo)
             f == FrameOf(job, Len(Blocks))
  <2>1. d \in Conn
    BY <1>2, HeadTailProperties DEF TypeOK, BuilderTypes
  <2>2. f \in Frame
    BY DEF Cast, FrameOf, Frame, TypeOK, BuilderTypes, Job
  <2>3. /\ frames[d] \in Seq(Frame) /\ frames'[d] = Append(frames[d], f)
        /\ \A c \in Conn \ {d} : frames'[c] = frames[c]
    BY <1>2, <2>1 DEF TypeOK, ChannelTypes
  <2>4. /\ frames'[d] \in Seq(Frame)
        /\ Len(frames'[d]) = Len(frames[d]) + 1
        /\ \A i \in 1 .. Len(frames[d]) : frames'[d][i] = frames[d][i]
        /\ frames'[d][Len(frames[d]) + 1] = f
    BY <2>2, <2>3, AppendProperties
  <2>5. /\ DOMAIN frames[d] = 1 .. Len(frames[d]) /\ Len(frames[d]) \in Nat
        /\ DOMAIN frames'[d] = 1 .. Len(frames[d]) + 1
    BY <2>3, <2>4, LenProperties
  <2>6. Sends(d)
    BY <1>2, <2>3, <2>4, <2>5 DEF Sends
  <2>7. QED
    BY <2>1, <2>6
<1>3. QED
  BY <1>1, <1>2 DEF Cast

\* Whoever is about to answer for a message finds it held.
LEMMA AnswerStep ==
  ASSUME TypeOK, MutexInv, MutexInv', RegistryInv, PlaceInv, AnswerInv, [Next]_vars
  PROVE  AnswerInv'
<1> DEFINE PumpsOK == \A c \in Conn : reader[c] \in {"block", "ack"}
                                      => msg[c] \in Elems(allTransactions)
           BuilderOK == builder # "idle" => job.id \in Held
<1>0. /\ reader \in [Conn -> {"off", "read", "done"} \cup Deciding]
      /\ msg \in [Conn -> Message \cup {None}]
      /\ link \in [Conn -> {"idle", "open", "closed"}]
      /\ frames \in [Conn -> Seq(Frame)]
      /\ PumpsOK /\ BuilderOK /\ RepliesHeld
  BY DEF TypeOK, ReaderTypes, NetTypes, ChannelTypes, AnswerInv
<1>1. CASE Restart
  <2>1. /\ builder' = "idle"
        /\ \A c \in Conn : reader'[c] \notin {"block", "ack"} /\ link'[c] # "open"
    BY <1>0, <1>1 DEF Restart
  <2>2. QED
    BY <2>1 DEF AnswerInv, RepliesHeld
<1>2. SUFFICES ASSUME ~Restart
               PROVE  AnswerInv'
  BY <1>1
<1>3. restarts' = restarts
  BY <1>2 DEF Next, ReadPump, Builder, WritePump, Idle, Submit, Receive,
      Disconnect, Accept, Register, ReadMessage, ReadError, Pool, HandOver,
      Unlock, AddBlock, Cast, Take, Write, vars
<1>4. Held \subseteq Held'
  BY <1>3, HeldGrows
<1>5. PumpsOK'
  <2>1. CASE UNCHANGED <<reader, msg, allTransactions>>
    BY <1>0, <2>1 DEF Elems
  <2>2. ASSUME NEW c \in Conn, Register(c) \/ ReadMessage(c) \/ ReadError(c)
        PROVE  PumpsOK'
    <3>1. /\ reader'[c] \notin {"block", "ack"} \/ UNCHANGED <<reader, msg>>
          /\ \A d \in Conn \ {c} : reader'[d] = reader[d] /\ msg'[d] = msg[d]
          /\ allTransactions' = allTransactions
      BY <1>0, <2>2 DEF Register, ReadMessage, ReadError
    <3>2. QED
      BY <1>0, <3>1 DEF Elems
  <2>3. ASSUME NEW c \in Conn, Pool(c)
        PROVE  PumpsOK'
    <3>1. /\ msg' = msg /\ mu' = c
          /\ \A d \in Conn \ {c} : reader'[d] = reader[d]
      BY <1>0, <2>3 DEF Pool
    <3>2. msg[c] \in Elems(allTransactions)'
      BY <2>3, HeldPool DEF Elems
    <3>3. \A d \in Conn \ {c} : reader'[d] \notin {"block", "ack"}
      BY <3>1 DEF MutexInv, Holding
    <3>4. QED
      BY <3>1, <3>2, <3>3
  <2>4. ASSUME NEW c \in Conn, HandOver(c) \/ Unlock(c)
        PROVE  PumpsOK'
    <3>1. /\ reader'[c] \notin {"block", "ack"} /\ mu = c
          /\ \A d \in Conn \ {c} : reader'[d] = reader[d]
      BY <1>0, <2>4 DEF HandOver, Unlock, MutexInv, Holding
    <3>2. \A d \in Conn \ {c} : reader'[d] \notin {"block", "ack"}
      BY <3>1 DEF MutexInv, Holding
    <3>3. QED
      BY <3>1, <3>2
  <2>5. QED
    BY <1>2, <2>1, <2>2, <2>3, <2>4
    DEF Next, ReadPump, Builder, WritePump, Idle, Submit, Receive, Disconnect,
        Accept, AddBlock, Cast, Take, Write, vars, readerVars
<1>6. BuilderOK'
  <2>1. CASE UNCHANGED <<builder, job>>
    BY <1>0, <1>4, <2>1
  <2>2. ASSUME NEW c \in Conn, HandOver(c)
        PROVE  BuilderOK'
    <3>1. job'.id = msg[c] /\ reader[c] \in {"block", "ack"}
      BY <2>2 DEF HandOver
    <3>2. msg[c] \in Held
      BY <1>0, <3>1 DEF Held
    <3>3. QED
      BY <1>4, <3>1, <3>2
  <2>3. CASE AddBlock \/ Cast
    BY <1>0, <1>4, <2>3 DEF AddBlock, Cast
  <2>4. QED
    BY <1>2, <2>1, <2>2, <2>3
    DEF Next, ReadPump, Builder, WritePump, Idle, Submit, Receive, Disconnect,
        Accept, Register, ReadMessage, ReadError, Pool, Unlock, Take, Write,
        vars, builderVars
<1>7. RepliesHeld'
  <2>1. CASE /\ frames' = frames
             /\ \A c \in Conn : link'[c] = "open" => link[c] = "open"
    BY <1>0, <1>4, <2>1 DEF RepliesHeld
  <2>2. ASSUME NEW c \in Conn, Accept(c)
        PROVE  RepliesHeld'
    <3>1. /\ frames' = frames /\ frames[c] = <<>>
          /\ \A d \in Conn \ {c} : link'[d] = link[d]
      BY <1>0, <2>2 DEF Accept, MutexInv, RegistryInv
    <3>2. QED
      BY <1>0, <1>4, <3>1 DEF RepliesHeld
  <2>3. CASE Cast
    <3>1. link' = link
      BY <2>3 DEF Cast, netVars
    <3>2. CASE frames' = frames
      BY <2>1, <3>1, <3>2
    <3>3. ASSUME NEW d \in Conn, Sends(d)
          PROVE  RepliesHeld'
      <4>1. FrameOf(job, Len(Blocks)).id \in Held
        BY <1>0, <2>3 DEF Cast, FrameOf
      <4>2. \A i \in DOMAIN frames'[d] :
              (i \in DOMAIN frames[d]) \/ (i = Len(frames[d]) + 1)
        BY <3>3 DEF Sends
      <4>3. \A i \in DOMAIN frames'[d] :
              \/ frames'[d][i].id \in Held
              \/ i \in DOMAIN frames[d] /\ frames'[d][i] = frames[d][i]
        BY <3>3, <4>1, <4>2 DEF Sends
      <4>4. \A c \in Conn \ {d} : frames'[c] = frames[c]
        BY <3>3 DEF Sends
      <4>5. \A c \in Conn : link[c] = "open" =>
              \A i \in DOMAIN frames'[c] : frames'[c][i].id \in Held
        BY <1>0, <4>3, <4>4 DEF RepliesHeld
      <4>6. QED
        BY <1>4, <3>1, <4>5 DEF RepliesHeld
    <3>4. QED
      BY <2>3, <3>2, <3>3, CastSends
  <2>4. ASSUME NEW c \in Conn, Disconnect(c)
        PROVE  RepliesHeld'
    BY <1>0, <2>1, <2>4 DEF Disconnect
  <2>5. QED
    BY <1>2, <2>1, <2>2, <2>3, <2>4
    DEF Next, ReadPump, Builder, WritePump, Idle, Submit, Receive, Register,
        ReadMessage, ReadError, Pool, HandOver, Unlock, AddBlock, Take, Write,
        vars, netVars
<1>8. QED
  BY <1>5, <1>6, <1>7 DEF AnswerInv

\* While a block is broadcast, the connections to come have only earlier
\* blocks, so that none gets a block twice or after a later one.
LEMMA ChainStep ==
  ASSUME TypeOK, MutexInv, RegistryInv, ChainInv, [Next]_vars
  PROVE  ChainInv'
<1> DEFINE Behind(c) == \A i \in DOMAIN frames[c] :
                          ~frames[c][i].ack => frames[c][i].at < Len(Blocks)
<1>0. /\ frames \in [Conn -> Seq(Frame)] /\ Blocks \in Seq(Seq(Message))
      /\ todo \in Seq(Conn) /\ BlocksInOrder /\ Len(Blocks) \in Nat
      /\ DOMAIN Blocks = 1 .. Len(Blocks)
  BY LenProperties DEF TypeOK, BuilderTypes, ChannelTypes, ChainInv
<1>1. CASE UNCHANGED <<builder, job, todo, Blocks, frames>>
  BY <1>1 DEF ChainInv, BlocksInOrder
<1>2. ASSUME NEW c \in Conn, HandOver(c)
      PROVE  ChainInv'
  <2>1. /\ UNCHANGED <<Blocks, frames>>
        /\ builder' = "block" => job'.broadcast
        /\ builder' = "cast" => ~job'.broadcast
    BY <1>2 DEF HandOver
  <2>2. QED
    BY <2>1 DEF ChainInv, BlocksInOrder
<1>3. CASE AddBlock
  <2>1. /\ UNCHANGED <<frames, job>> /\ builder' = "cast"
        /\ Blocks' = Append(Blocks, job.txs) /\ todo' = runtime_clients
        /\ runtime_clients \in Seq(Conn) /\ job.txs \in Seq(Message)
    BY <1>3 DEF AddBlock, Recipients, TypeOK, BuilderTypes, HandlerTypes, Job
  <2>2. /\ Len(Blocks') = Len(Blocks) + 1 /\ DOMAIN Blocks' = 1 .. Len(Blocks) + 1
        /\ \A b \in DOMAIN Blocks : Blocks'[b] = Blocks[b]
        /\ Blocks'[Len(Blocks')] = job.txs
    BY <1>0, <2>1, AppendProperties, LenProperties
  <2>3. ASSUME NEW c \in Conn
        PROVE  Behind(c)'
    <3>1. \A i \in DOMAIN frames[c] :
            ~frames[c][i].ack => frames[c][i].at \in 1 .. Len(Blocks)
      BY <1>0 DEF BlocksInOrder
    <3>2. \A k \in 1 .. Len(Blocks) : k < Len(Blocks')
      BY <1>0, <2>2
    <3>3. QED
      BY <2>1, <3>1, <3>2
  <2>4. \A k \in DOMAIN todo' : todo'[k] \in Conn
    BY <2>1, ElementOfSeq, LenProperties
  <2>5. BlocksInOrder'
    BY <1>0, <2>1, <2>2 DEF BlocksInOrder
  <2>6. QED
    BY <1>0, <2>1, <2>2, <2>3, <2>4, <2>5 DEF ChainInv
<1>4. CASE Cast
  <2>1. /\ Blocks' = Blocks /\ builder = "cast" /\ builder' \in {"idle", "cast"}
        /\ builder' = "cast" => job' = job
        /\ builder' = "idle" <=> todo' = <<>>
    BY <1>4 DEF Cast
  <2>2. CASE frames' = frames /\ todo' = <<>>
    BY <2>1, <2>2 DEF ChainInv, BlocksInOrder
  <2>3. ASSUME NEW d \in Conn, Sends(d)
        PROVE  ChainInv'
    <3> DEFINE f == FrameOf(job, Len(Blocks))
               n == Len(frames[d]) + 1
    <3>1. \A i \in DOMAIN frames'[d] :
            (i \in DOMAIN frames[d] /\ frames'[d][i] = frames[d][i] /\ i < n)
              \/ (i = n /\ frames'[d][i] = f)
      BY <2>3 DEF Sends
    <3>2. f.ack = ~job.broadcast /\ f.txs = job.txs
          /\ (~f.ack => f.at = Len(Blocks))
      BY <2>1 DEF FrameOf, TypeOK, BuilderTypes, Job
    <3>3. ~f.ack => /\ f.at \in DOMAIN Blocks /\ f.txs = Blocks[f.at]
                    /\ Behind(d)
      <4>1. 1 \in DOMAIN todo /\ todo[1] = d
        BY <1>0, <2>3, EmptySeq, LenProperties DEF Sends
      <4>2. QED
        BY <2>1, <3>2, <4>1 DEF ChainInv
    <3>4. BlocksInOrder'
      <4>1. ASSUME NEW i \in DOMAIN frames'[d], ~frames'[d][i].ack
            PROVE  /\ frames'[d][i].at \in DOMAIN Blocks
                   /\ frames'[d][i].txs = Blocks[frames'[d][i].at]
        BY <1>0, <3>1, <3>3, <4>1 DEF BlocksInOrder
      <4>2. ASSUME NEW i \in DOMAIN frames'[d], NEW j \in DOMAIN frames'[d],
                   i < j, ~frames'[d][i].ack, ~frames'[d][j].ack
            PROVE  frames'[d][i].at < frames'[d][j].at
        <5>1. CASE j = n /\ frames'[d][j] = f
          <6>1. i \in DOMAIN frames[d] /\ frames'[d][i] = frames[d][i]
            BY <2>3, <3>1, <4>2, <5>1 DEF Sends
          <6>2. QED
            BY <3>2, <3>3, <4>2, <5>1, <6>1
        <5>2. CASE j \in DOMAIN frames[d] /\ frames'[d][j] = frames[d][j] /\ j < n
          <6>1. i \in DOMAIN frames[d] /\ frames'[d][i] = frames[d][i]
            BY <2>3, <3>1, <4>2, <5>2 DEF Sends
          <6>2. QED
            BY <1>0, <4>2, <5>2, <6>1 DEF BlocksInOrder
        <5>3. QED
          BY <3>1, <5>1, <5>2
      <4>3. \A c \in Conn \ {d} : frames'[c] = frames[c]
        BY <2>3 DEF Sends
      <4>4. ASSUME NEW c \in Conn, NEW i \in DOMAIN frames'[c], ~frames'[c][i].ack
            PROVE  /\ frames'[c][i].at \in DOMAIN Blocks
                   /\ frames'[c][i].txs = Blocks[frames'[c][i].at]
        <5>1. CASE c = d
          BY <4>1, <4>4, <5>1
        <5>2. CASE c # d
          BY <1>0, <4>3, <4>4, <5>2 DEF BlocksInOrder
        <5>3. QED
          BY <5>1, <5>2
      <4>5. ASSUME NEW c \in Conn,
                   NEW i \in DOMAIN frames'[c], NEW j \in DOMAIN frames'[c],
                   i < j, ~frames'[c][i].ack, ~frames'[c][j].ack
            PROVE  frames'[c][i].at < frames'[c][j].at
        <5>1. CASE c = d
          BY <4>2, <4>5, <5>1
        <5>2. CASE c # d
          BY <1>0, <4>3, <4>5, <5>2 DEF BlocksInOrder
        <5>3. QED
          BY <5>1, <5>2
      <4>6. QED
        BY <2>1, <4>4, <4>5 DEF BlocksInOrder
    <3>5. ASSUME builder' = "cast", job'.broadcast
          PROVE  /\ Len(Blocks') \in DOMAIN Blocks'
                 /\ job'.txs = Blocks'[Len(Blocks')]
                 /\ \A k \in DOMAIN todo' : Behind(todo[k])'
      <4>1. job' = job /\ job.broadcast
        BY <2>1, <3>5
      <4>2. /\ Len(Blocks') \in DOMAIN Blocks'
            /\ job'.txs = Blocks'[Len(Blocks')]
        BY <2>1, <4>1 DEF ChainInv
      <4>3. \A e \in Elems(todo) : Behind(e)
        BY <2>1, <4>1 DEF ChainInv, Elems
      <4>4. /\ Elems(todo) = Elems(todo') \cup {d}
            /\ d \notin Elems(todo')
        BY <1>0, <2>3, ElemsTail, DistinctTail DEF Sends, RegistryInv, Registered
      <4>5. \A k \in DOMAIN todo' : todo'[k] \in Elems(todo) /\ todo'[k] # d
        BY <4>4 DEF Elems
      <4>6. \A e \in Elems(todo) : e \in Conn
        BY <1>0, ElementOfSeq, LenProperties DEF Elems
      <4>7. \A k \in DOMAIN todo' : frames'[todo'[k]] = frames[todo'[k]]
        BY <2>3, <4>5, <4>6 DEF Sends
      <4>8. QED
        BY <2>1, <4>2, <4>3, <4>5, <4>7
    <3>6. QED
      BY <2>1, <3>4, <3>5 DEF ChainInv
  <2>4. QED
    BY <1>4, <2>2, <2>3, CastSends
<1>5. CASE Restart
  BY <1>5 DEF Restart, ChainInv, BlocksInOrder
<1>6. ASSUME NEW c \in Conn, Register(c)
      PROVE  ChainInv'
  <2>1. /\ UNCHANGED <<builder, job, Blocks, frames>>
        /\ todo' \in Overwritten(todo, c)
        /\ frames[c] = <<>>
    BY <1>6 DEF Register, Overwritten, RegistryInv
  <2>2. DOMAIN todo' = DOMAIN todo
        /\ (todo' = todo \/ \E i \in DOMAIN todo : todo' = [todo EXCEPT ![i] = c])
    BY <1>0, <2>1, OverwrittenEntry
  <2>3. \A k \in DOMAIN todo' : todo'[k] = c \/ todo'[k] = todo[k]
    <3>1. ASSUME NEW i \in DOMAIN todo, todo' = [todo EXCEPT ![i] = c]
          PROVE  \A k \in DOMAIN todo' : todo'[k] = c \/ todo'[k] = todo[k]
      <4>1. i \in 1 .. Len(todo) /\ DOMAIN todo = 1 .. Len(todo)
        BY <1>0, LenProperties
      <4>2. QED
        BY <1>0, <3>1, <4>1, ExceptSeq, <2>2
    <3>2. QED
      BY <2>2, <3>1
  <2>4. Behind(c)
    BY <2>1
  <2>5. /\ builder' = "block" => job'.broadcast
        /\ BlocksInOrder'
    BY <2>1 DEF ChainInv, BlocksInOrder
  <2>6. builder' = "cast" /\ job'.broadcast =>
          /\ Len(Blocks') \in DOMAIN Blocks'
          /\ job'.txs = Blocks'[Len(Blocks')]
          /\ \A k \in DOMAIN todo' : Behind(todo[k])'
    BY <2>1, <2>2, <2>3, <2>4 DEF ChainInv
  <2>7. QED
    BY <2>5, <2>6 DEF ChainInv
<1>7. QED
  BY <1>1, <1>2, <1>3, <1>4, <1>5, <1>6
  DEF Next, ReadPump, Builder, WritePump, Idle, Submit, Receive, Disconnect,
      Accept, ReadMessage, ReadError, Pool, Unlock, Take, Write,
      vars, builderVars

-----------------------------------------------------------------------------
(***************************************************************************)
(* The theorems.                                                           *)
(***************************************************************************)
LEMMA InitSafety == Init => SafetyInv
<1> SUFFICES ASSUME Init
             PROVE  SafetyInv
  OBVIOUS
<1>1. MutexInv
  BY ConstAssumption DEF Init, MutexInv, Holding
<1>2. RegistryInv
  BY RegisteredEmpty DEF Init, RegistryInv
<1>3. Held = {} /\ Making = {} /\ Committed = {}
  BY ElemsEmpty DEF Init, Held, Making, Committed
<1>4. WaitingInv
  BY <1>3, ElemsEmpty, DistinctEmpty DEF Init, WaitingInv, Unpooled
<1>5. PlaceInv
  BY <1>3, ElemsEmpty, DistinctEmpty DEF Init, PlaceInv, Resetting, CommittedOnce
<1>6. AnswerInv
  BY DEF Init, AnswerInv, RepliesHeld
<1>7. ChainInv
  BY DEF Init, ChainInv, BlocksInOrder
<1>8. QED
  BY <1>1, <1>2, <1>4, <1>5, <1>6, <1>7 DEF SafetyInv

\* The conjunction is inductive, given the types.
LEMMA NextSafety == TypeOK /\ SafetyInv /\ [Next]_vars => SafetyInv'
<1> SUFFICES ASSUME TypeOK, SafetyInv, [Next]_vars
             PROVE  SafetyInv'
  OBVIOUS
<1>1. MutexInv'
  BY MutexStep DEF SafetyInv
<1>2. RegistryInv'
  BY RegistryStep DEF SafetyInv
<1>3. WaitingInv'
  BY WaitingStep DEF SafetyInv
<1>4. PlaceInv'
  BY <1>1, PlaceStep DEF SafetyInv
<1>5. AnswerInv'
  BY <1>1, AnswerStep DEF SafetyInv
<1>6. ChainInv'
  BY ChainStep DEF SafetyInv
<1>7. QED
  BY <1>1, <1>2, <1>3, <1>4, <1>5, <1>6 DEF SafetyInv

LEMMA SafetyInvariant == Spec => []SafetyInv
  BY InitSafety, NextSafety, TypeCorrect, PTL DEF Spec

\* However the ReadPumps and the builder interleave, and whatever crashes,
\* no transaction is committed twice.
THEOREM NoDoubleCommit == Spec => []CommittedOnce
<1>1. SafetyInv => CommittedOnce
  BY DEF SafetyInv, PlaceInv
<1>2. QED
  BY SafetyInvariant, <1>1, PTL

\* A runtime is told only of transactions the service still holds.
THEOREM RepliesAreHeld == Spec => []RepliesHeld
<1>1. SafetyInv => RepliesHeld
  BY DEF SafetyInv, AnswerInv
<1>2. QED
  BY SafetyInvariant, <1>1, PTL

\* Every runtime gets blocks of the chain, each once, in their order.
THEOREM ChainOrder == Spec => []BlocksInOrder
<1>1. SafetyInv => BlocksInOrder
  BY DEF SafetyInv, ChainInv
<1>2. QED
  BY SafetyInvariant, <1>1, PTL

\* No step but a crash loses a pooled or committed transaction.
THEOREM NoLoss == Spec => NothingLost
<1>1. TypeOK /\ SafetyInv /\ [Next]_vars
        => [restarts' = restarts => Held \subseteq Held']_vars
  BY HeldGrows DEF SafetyInv
<1>2. QED
  BY SafetyInvariant, TypeCorrect, <1>1, PTL DEF Spec, NothingLost

=============================================================================
