--------------------- MODULE OrderingServiceLog_proofs ---------------------
(***************************************************************************)
(* What the runtimes are answered and what a block holds: nobody is        *)
(* answered twice for a message, no connection has more in the pool than   *)
(* its counter says, no block is longer than that allows, and every step   *)
(* of the service is one that TransactionLog allows.                       *)
(***************************************************************************)
EXTENDS OrderingServiceSafety_proofs, FiniteSetTheorems

\* The messages of a connection that are still to be answered, but for the
\* one the builder has, and those that are or will be.
Unanswered(c) ==
  Unpooled(c) \cup (IF reader[c] \in {"block", "ack"} THEN {msg[c]} ELSE {})

AnsweredOn(c) == {frames[c][i].id : i \in DOMAIN frames[c]}

Answering == IF builder = "idle" THEN {} ELSE {job.id}

\* A message is answered from one place at a time: while it waits nobody has
\* an answer to it, and while the builder has it no connection still to be
\* sent to does.
ReplyInv ==
  /\ \A c \in Conn : \A m \in Unanswered(c) : origin[m] = c /\ m \notin Answering
  /\ \A m \in Answering : origin[m] # None
  /\ \A c, d \in Conn : \A m \in AnsweredOn(d) : origin[m] # None /\ m \notin Unanswered(c)
  /\ builder = "block" => \A c \in Conn : job.id \notin AnsweredOn(c)
  /\ builder = "cast" =>
       \A k \in DOMAIN todo : /\ job.id \notin AnsweredOn(todo[k])
                              /\ ~job.broadcast => todo[k] = origin[job.id]
  /\ RepliedOnce

\* The message that completed a block is its last one, and frames say so.
LastOf(s) == s[Len(s)]

NameInv ==
  /\ \A c \in Conn : reader[c] = "block" =>
       allTransactions # <<>> /\ msg[c] = LastOf(allTransactions)
  /\ builder = "block" => job.txs # <<>> /\ job.id = LastOf(job.txs)
  /\ builder = "cast" /\ job.broadcast => job.id = LastOf(Blocks[Len(Blocks)])
  /\ \A c \in Conn : \A i \in DOMAIN frames[c] :
       IF frames[c][i].ack
         THEN frames[c][i].at = 0
         ELSE frames[c][i].id = LastOf(Blocks[frames[c][i].at])

\* The length of a block that was handed over.
InBound(s) == Len(s) \in 1 .. Cardinality(Conn) * (BlockSize - 1) + 1

LengthInv == BlockBound /\ (builder = "block" => InBound(job.txs))

-----------------------------------------------------------------------------
(***************************************************************************)
(* Answers.                                                                *)
(***************************************************************************)

\* A step that answers nothing only takes messages away from what waits.
LEMMA ReplyLess ==
  ASSUME ReplyInv, UNCHANGED <<origin, frames, builder, job, todo>>,
         \A c \in Conn : Unanswered(c)' \subseteq Unanswered(c)
  PROVE  ReplyInv'
  BY DEF ReplyInv, AnsweredOn, Answering, RepliedOnce

LEMMA UnansweredLess ==
  ASSUME NEW c \in Conn, inbox'[c] = inbox[c],
         \/ reader'[c] \notin {"lock", "block", "ack"}
         \/ reader'[c] = reader[c] /\ msg'[c] = msg[c]
  PROVE  Unanswered(c)' \subseteq Unanswered(c)
  BY DEF Unanswered, Unpooled, Elems

\* A message is answered once: by the ReadPump's own item, an ack for its
\* connection or a block for all, which no connection is sent twice.
LEMMA ReplyStep ==
  ASSUME TypeOK, MutexInv, RegistryInv, WaitingInv, AnswerInv, ChainInv, ReplyInv,
         [Next]_vars
  PROVE  ReplyInv'
<1>0. /\ inbox \in [Conn -> Seq(Message)] /\ origin \in [Message -> Conn \cup {None}]
      /\ reader \in [Conn -> {"off", "read", "done"} \cup Deciding]
      /\ msg \in [Conn -> Message \cup {None}]
      /\ frames \in [Conn -> Seq(Frame)] /\ todo \in Seq(Conn)
  BY DEF TypeOK, NetTypes, ReaderTypes, ChannelTypes, BuilderTypes
<1>1. CASE UNCHANGED <<origin, inbox, reader, msg, frames, builder, job, todo>>
  BY <1>1, ReplyLess, UnansweredLess
<1>2. ASSUME NEW c \in Conn, NEW m \in Message, Submit(c, m)
      PROVE  ReplyInv'
  <2>1. /\ origin' = [origin EXCEPT ![m] = c] /\ origin[m] = None
        /\ inbox' = [inbox EXCEPT ![c] = Append(@, m)]
        /\ UNCHANGED <<reader, msg, frames, builder, job, todo>>
    BY <1>2 DEF Submit, readerVars, builderVars
  <2>2. Elems(inbox[c])' = Elems(inbox[c]) \cup {m}
    <3>1. Elems(inbox'[c]) = Elems(inbox[c]) \cup {m}
      BY <1>0, <2>1, ElemsAppend
    <3>2. QED
      BY <3>1 DEF Elems
  <2>3. /\ Unanswered(c)' \subseteq Unanswered(c) \cup {m}
        /\ \A d \in Conn \ {c} : Unanswered(d)' \subseteq Unanswered(d)
    <3>1. Unanswered(c)' \subseteq Unanswered(c) \cup {m}
      BY <2>1, <2>2 DEF Unanswered, Unpooled
    <3>2. QED
      BY <1>0, <2>1, <3>1, UnansweredLess
  <2>4. /\ m \notin Answering
        /\ \A d \in Conn : m \notin AnsweredOn(d) /\ m \notin Unanswered(d)
    BY <2>1, ConstAssumption DEF ReplyInv
  <2>5. Answering' = Answering /\ \A d \in Conn : AnsweredOn(d)' = AnsweredOn(d)
    BY <2>1 DEF Answering, AnsweredOn
  <2>6. /\ \A d \in Conn : Unanswered(d) \subseteq Message /\ AnsweredOn(d) \subseteq Message
        /\ Answering \subseteq Message
        /\ \A x \in Message \ {m} : origin'[x] = origin[x]
        /\ origin'[m] = c
    <3>1. \A d \in Conn : Unanswered(d) \subseteq Message
      BY ElementOfSeq, LenProperties
      DEF TypeOK, ReaderTypes, NetTypes, Deciding, Unanswered, Unpooled, Elems
    <3>2. \A d \in Conn : \A i \in DOMAIN frames[d] : frames[d][i] \in Frame
      BY <1>0, ElementOfSeq, LenProperties
    <3>3. Answering \subseteq Message
      BY DEF TypeOK, BuilderTypes, Job, Answering
    <3>4. \A d \in Conn : AnsweredOn(d) \subseteq Message
      BY <3>2 DEF AnsweredOn, Frame
    <3>5. QED
      BY <1>0, <2>1, <3>1, <3>3, <3>4
  <2>7. \A d \in Conn : \A x \in Unanswered(d)' : origin'[x] = d /\ x \notin Answering
    BY <2>3, <2>4, <2>6 DEF ReplyInv
  <2>8. /\ \A x \in Answering : origin'[x] # None
        /\ \A b, d \in Conn : \A x \in AnsweredOn(d) :
              origin'[x] # None /\ x \notin Unanswered(b)'
    BY <2>3, <2>4, <2>6 DEF ReplyInv
  <2>9. builder = "cast" => \A k \in DOMAIN todo :
          /\ job.id \notin AnsweredOn(todo[k])
          /\ ~job.broadcast => todo[k] = origin'[job.id]
    BY <2>4, <2>6 DEF ReplyInv, Answering
  <2>10. RepliedOnce'
    <3>1. \A d \in Conn : \A i \in DOMAIN frames[d] : frames[d][i].id \in AnsweredOn(d)
      BY DEF AnsweredOn
    <3>2. \A d \in Conn : \A i \in DOMAIN frames[d] :
            origin'[frames[d][i].id] = origin[frames[d][i].id]
      BY <2>4, <2>6, <3>1 DEF ReplyInv
    <3>3. QED
      BY <2>1, <3>2 DEF ReplyInv, RepliedOnce
  <2>11. QED
    BY <2>1, <2>5, <2>7, <2>8, <2>9, <2>10, ElementOfSeq, LenProperties, <1>0
    DEF ReplyInv, AnsweredOn
<1>3. ASSUME NEW c \in Conn, Register(c)
      PROVE  ReplyInv'
  <2>1. /\ UNCHANGED <<origin, inbox, msg, frames, builder, job>>
        /\ reader' = [reader EXCEPT ![c] = "read"]
        /\ frames[c] = <<>>
    BY <1>3 DEF Register, netVars, RegistryInv
  <2>2. \A d \in Conn : Unanswered(d)' \subseteq Unanswered(d)
    BY <1>0, <2>1, UnansweredLess
  <2>3. CASE todo' = todo
    BY <2>1, <2>2, <2>3, ReplyLess
  <2>4. CASE builder = "cast" /\ job.broadcast /\ todo' \in Overwritten(todo, c)
    <3>1. DOMAIN todo' = DOMAIN todo
          /\ (todo' = todo \/ \E i \in DOMAIN todo : todo' = [todo EXCEPT ![i] = c])
      BY <1>0, <2>4, OverwrittenEntry
    <3>2. \A k \in DOMAIN todo' : todo'[k] = c \/ todo'[k] = todo[k]
      <4>1. ASSUME NEW i \in DOMAIN todo, todo' = [todo EXCEPT ![i] = c]
            PROVE  \A k \in DOMAIN todo' : todo'[k] = c \/ todo'[k] = todo[k]
        <5>1. i \in 1 .. Len(todo) /\ DOMAIN todo = 1 .. Len(todo)
          BY <1>0, LenProperties
        <5>2. QED
          BY <1>0, <4>1, <5>1, ExceptSeq, <3>1
      <4>2. QED
        BY <3>1, <4>1
    <3>3. AnsweredOn(c) = {}
      BY <2>1 DEF AnsweredOn
    <3>4. \A k \in DOMAIN todo' : job.id \notin AnsweredOn(todo'[k])
      BY <2>4, <3>1, <3>2, <3>3 DEF ReplyInv
    <3>5. QED
      BY <2>1, <2>2, <2>4, <3>4 DEF ReplyInv, AnsweredOn, Answering, RepliedOnce
  <2>5. QED
    BY <1>3, <2>3, <2>4 DEF Register
<1>4. ASSUME NEW c \in Conn, ReadMessage(c)
      PROVE  ReplyInv'
  <2>1. /\ UNCHANGED <<origin, frames, builder, job, todo>>
        /\ inbox' = [inbox EXCEPT ![c] = Tail(@)] /\ inbox[c] # <<>>
        /\ reader[c] = "read"
        /\ \/ UNCHANGED <<reader, msg>>
           \/ /\ msg' = [msg EXCEPT ![c] = Head(inbox[c])]
              /\ reader' = [reader EXCEPT ![c] = "lock"]
    BY <1>4 DEF ReadMessage, builderVars
  <2>2. Elems(inbox[c]) = Elems(inbox[c])' \cup {Head(inbox[c])}
    <3>1. Elems(inbox[c]) = Elems(inbox'[c]) \cup {Head(inbox[c])}
      BY <1>0, <2>1, ElemsTail
    <3>2. QED
      BY <3>1 DEF Elems
  <2>3. Unanswered(c)' \subseteq Unanswered(c)
    BY <1>0, <2>1, <2>2 DEF Unanswered, Unpooled
  <2>4. \A d \in Conn \ {c} : Unanswered(d)' \subseteq Unanswered(d)
    BY <1>0, <2>1, UnansweredLess
  <2>5. QED
    BY <2>1, <2>3, <2>4, ReplyLess
<1>5. ASSUME NEW c \in Conn, ReadError(c) \/ Pool(c) \/ Unlock(c)
      PROVE  ReplyInv'
  <2>1. /\ UNCHANGED <<origin, frames, builder, job, todo>>
        /\ \A d \in Conn \ {c} :
             inbox'[d] = inbox[d] /\ reader'[d] = reader[d] /\ msg'[d] = msg[d]
    BY <1>0, <1>5 DEF ReadError, Pool, Unlock, netVars, builderVars
  <2>2. Unanswered(c)' \subseteq Unanswered(c)
    <3>1. CASE ReadError(c)
      BY <1>0, <3>1 DEF ReadError, Unanswered, Unpooled, Elems
    <3>2. CASE Pool(c)
      <4>1. reader[c] = "lock" /\ inbox' = inbox /\ msg' = msg
        BY <3>2 DEF Pool, netVars
      <4>2. QED
        BY <4>1 DEF Unanswered, Unpooled, Elems
    <3>3. CASE Unlock(c)
      BY <1>0, <3>3, UnansweredLess DEF Unlock, netVars
    <3>4. QED
      BY <1>5, <3>1, <3>2, <3>3
  <2>3. \A d \in Conn \ {c} : Unanswered(d)' \subseteq Unanswered(d)
    BY <2>1, UnansweredLess
  <2>4. QED
    BY <2>1, <2>2, <2>3, ReplyLess
<1>6. ASSUME NEW c \in Conn, HandOver(c)
      PROVE  ReplyInv'
  <2>1. /\ UNCHANGED <<origin, inbox, msg, frames>> /\ builder = "idle"
        /\ reader[c] \in {"block", "ack"} /\ reader'[c] \in {"reset", "unlock"}
        /\ \A d \in Conn \ {c} : reader'[d] = reader[d]
        /\ builder' \in {"block", "cast"} /\ job'.id = msg[c]
        /\ builder' = "cast" => ~job'.broadcast /\ todo' = <<c>>
    BY <1>0, <1>6 DEF HandOver, netVars
  <2>2. \A d \in Conn : Unanswered(d)' \subseteq Unanswered(d)
    BY <2>1, UnansweredLess
  <2>3. msg[c] \in Unanswered(c) /\ Unanswered(c)' = Elems(inbox[c])
    BY <2>1 DEF Unanswered, Unpooled, Elems
  <2>4. msg[c] \notin Elems(inbox[c])
    BY <2>1 DEF AnswerInv, Held, WaitingInv, Unpooled
  <2>5. origin[msg[c]] = c /\ \A d \in Conn : msg[c] \notin AnsweredOn(d)
    BY <2>3 DEF ReplyInv
  <2>6. \A d \in Conn : msg[c] \notin Unanswered(d)'
    BY <2>2, <2>3, <2>4, <2>5 DEF ReplyInv
  <2>7. Answering' = {msg[c]} /\ \A d \in Conn : AnsweredOn(d)' = AnsweredOn(d)
    BY <2>1 DEF Answering, AnsweredOn
  <2>8. builder' = "cast" => \A k \in DOMAIN todo' : todo'[k] = c
    BY <2>1
  <2>9. QED
    BY <2>1, <2>2, <2>5, <2>6, <2>7, <2>8, ConstAssumption
    DEF ReplyInv, RepliedOnce, AnsweredOn
<1>7. CASE AddBlock
  <2>1. /\ UNCHANGED <<origin, inbox, reader, msg, frames, job>>
        /\ builder = "block" /\ builder' = "cast" /\ todo' = runtime_clients
        /\ job.broadcast /\ runtime_clients \in Seq(Conn)
    BY <1>7 DEF AddBlock, Recipients, netVars, readerVars, ChainInv, TypeOK, HandlerTypes
  <2>2. \A d \in Conn : Unanswered(d)' \subseteq Unanswered(d)
    BY <2>1, UnansweredLess
  <2>3. \A k \in DOMAIN todo' : todo'[k] \in Conn
    BY <2>1, ElementOfSeq, LenProperties
  <2>4. QED
    BY <2>1, <2>2, <2>3 DEF ReplyInv, RepliedOnce, AnsweredOn, Answering
<1>8. CASE Cast
  <2>1. /\ UNCHANGED <<origin, inbox, reader, msg>> /\ builder = "cast"
        /\ \/ builder' = "idle"
           \/ builder' = "cast" /\ job' = job
    BY <1>8 DEF Cast, netVars, readerVars
  <2>2. /\ \A d \in Conn : Unanswered(d)' \subseteq Unanswered(d)
        /\ Answering' \subseteq Answering
    BY <2>1, UnansweredLess DEF Answering
  <2>3. CASE frames' = frames /\ todo' = <<>>
    BY <2>1, <2>2, <2>3 DEF ReplyInv, RepliedOnce, AnsweredOn
  <2>4. ASSUME NEW d \in Conn, Sends(d)
        PROVE  ReplyInv'
    <3> DEFINE n == Len(frames[d]) + 1
    <3>1. \A i \in DOMAIN frames'[d] :
            \/ i \in DOMAIN frames[d] /\ frames'[d][i] = frames[d][i] /\ i # n
            \/ i = n /\ frames'[d][i].id = job.id /\ frames'[d][i].ack = ~job.broadcast
      BY <2>4 DEF Sends, FrameOf
    <3>2. 1 \in DOMAIN todo /\ todo[1] = d
      BY <1>0, <2>4, EmptySeq, LenProperties DEF Sends
    <3>3. job.id \notin AnsweredOn(d) /\ (~job.broadcast => d = origin[job.id])
      BY <2>1, <3>2 DEF ReplyInv
    <3>4. /\ AnsweredOn(d)' \subseteq AnsweredOn(d) \cup {job.id}
          /\ \A c \in Conn \ {d} : AnsweredOn(c)' = AnsweredOn(c)
      BY <2>4, <3>1 DEF Sends, AnsweredOn
    <3>5. job.id \in Answering
      BY <2>1 DEF Answering
    <3>6. \A b, c \in Conn : \A m \in AnsweredOn(c)' :
            origin'[m] # None /\ m \notin Unanswered(b)'
      BY <2>1, <2>2, <3>4, <3>5 DEF ReplyInv
    <3>7. builder' = "cast" => \A k \in DOMAIN todo' :
            /\ \A i \in DOMAIN frames'[todo'[k]] : frames'[todo'[k]][i].id # job'.id
            /\ ~job'.broadcast => todo'[k] = origin'[job'.id]
      <4>1. \A e \in Elems(todo) :
              /\ job.id \notin AnsweredOn(e)
              /\ ~job.broadcast => e = origin[job.id]
        BY <2>1 DEF ReplyInv, Elems
      <4>2. Elems(todo) = Elems(todo') \cup {d} /\ d \notin Elems(todo')
        BY <1>0, <2>4, ElemsTail, DistinctTail DEF Sends, RegistryInv, Registered
      <4>3. \A k \in DOMAIN todo' : todo'[k] \in Elems(todo) /\ todo'[k] # d
        BY <4>2 DEF Elems
      <4>4. \A e \in Elems(todo) : e \in Conn
        BY <1>0, ElementOfSeq, LenProperties DEF Elems
      <4>5. \A k \in DOMAIN todo' : frames'[todo'[k]] = frames[todo'[k]]
        BY <2>4, <4>3, <4>4 DEF Sends
      <4>6. \A k \in DOMAIN todo' : \A i \in DOMAIN frames'[todo'[k]] :
              frames'[todo'[k]][i].id # job.id
        BY <4>1, <4>3, <4>5 DEF AnsweredOn
      <4>7. \A k \in DOMAIN todo' : ~job.broadcast => todo'[k] = origin[job.id]
        BY <4>1, <4>3
      <4>8. QED
        BY <2>1, <4>6, <4>7
    <3>8. RepliedOnce'
      <4>1. \A i \in DOMAIN frames[d] : frames[d][i].id # job.id
        BY <3>3 DEF AnsweredOn
      <4>2. /\ \A i \in DOMAIN frames[d] :
                   frames[d][i].ack => origin[frames[d][i].id] = d
            /\ \A i, j \in DOMAIN frames[d] :
                   frames[d][i].id = frames[d][j].id => i = j
        BY DEF ReplyInv, RepliedOnce
      <4>3. \A i, j \in DOMAIN frames'[d] :
              /\ frames'[d][i].ack => origin[frames'[d][i].id] = d
              /\ frames'[d][i].id = frames'[d][j].id => i = j
        BY <3>1, <3>3, <4>1, <4>2
      <4>4. \A c \in Conn \ {d} : frames'[c] = frames[c]
        BY <2>4 DEF Sends
      <4>5. \A c \in Conn : \A i, j \in DOMAIN frames'[c] :
              /\ frames'[c][i].ack => origin[frames'[c][i].id] = c
              /\ frames'[c][i].id = frames'[c][j].id => i = j
        BY <4>3, <4>4 DEF ReplyInv, RepliedOnce
      <4>6. QED
        BY <2>1, <4>5 DEF RepliedOnce
    <3>9. /\ \A c \in Conn : \A m \in Unanswered(c)' : origin'[m] = c /\ m \notin Answering'
          /\ \A m \in Answering' : origin'[m] # None
          /\ builder' # "block"
      BY <2>1, <2>2 DEF ReplyInv
    <3>10. QED
      BY <3>6, <3>7, <3>8, <3>9 DEF ReplyInv, AnsweredOn
  <2>5. QED
    BY <1>8, <2>3, <2>4, CastSends
<1>9. CASE Restart
  <2>1. /\ origin' = origin /\ frames' = frames /\ builder' = "idle"
        /\ \A c \in Conn : inbox'[c] = <<>> /\ reader'[c] \notin {"lock", "block", "ack"}
    BY <1>9 DEF Restart
  <2>2. Answering' = {} /\ \A c \in Conn : Unanswered(c)' = {}
    BY <2>1 DEF Answering, Unanswered, Unpooled, Elems
  <2>3. QED
    BY <2>1, <2>2 DEF ReplyInv, RepliedOnce, AnsweredOn
<1>10. QED
  BY <1>1, <1>2, <1>3, <1>4, <1>5, <1>6, <1>7, <1>8, <1>9
  DEF Next, ReadPump, Builder, WritePump, Idle, Receive, Disconnect, Accept,
      Take, Write, vars, netVars, readerVars, builderVars

-----------------------------------------------------------------------------
(***************************************************************************)
(* Quotas.                                                                 *)
(***************************************************************************)

\* A connection's places in the pool are finitely many.
LEMMA FromConnFinite ==
  ASSUME TypeOK, NEW c \in Conn
  PROVE  /\ FromConn(c) \subseteq 1 .. Len(allTransactions)
         /\ IsFiniteSet(FromConn(c)) /\ Cardinality(FromConn(c)) \in Nat
<1>1. /\ Len(allTransactions) \in Nat
      /\ DOMAIN allTransactions = 1 .. Len(allTransactions)
  BY LenProperties DEF TypeOK, ReaderTypes
<1>2. IsFiniteSet(1 .. Len(allTransactions))
  BY <1>1, FS_Interval
<1>3. FromConn(c) \subseteq 1 .. Len(allTransactions)
  BY <1>1 DEF FromConn
<1>4. QED
  BY <1>2, <1>3, FS_Subset, FS_CardinalityType

\* Whom the pooled messages came from does not change while the pool stays.
LEMMA FromConnKept ==
  ASSUME allTransactions' = allTransactions, NEW c \in Conn,
         \A i \in DOMAIN allTransactions :
           origin'[allTransactions[i]] = origin[allTransactions[i]]
  PROVE  FromConn(c)' = FromConn(c)
  BY DEF FromConn

\* The quota's invariant for one connection.
QuotaKept(c) ==
  /\ count[c] < BlockSize
  /\ Cardinality(FromConn(c)) <=
       IF reader[c] \in {"block", "reset"} THEN BlockSize ELSE count[c]

\* Pooling a message counts it for its connection and for no other.
LEMMA ShareStep ==
  ASSUME TypeOK, MutexInv, WaitingInv, PoolShare, [Next]_vars
  PROVE  PoolShare'
<1> USE ConstAssumption
<1>0. /\ allTransactions \in Seq(Message) /\ count \in [Conn -> Nat]
      /\ origin \in [Message -> Conn \cup {None}]
      /\ reader \in [Conn -> {"off", "read", "done"} \cup Deciding]
      /\ Len(allTransactions) \in Nat
      /\ DOMAIN allTransactions = 1 .. Len(allTransactions)
      /\ \A i \in DOMAIN allTransactions : allTransactions[i] \in Message
  BY ElementOfSeq, LenProperties DEF TypeOK, ReaderTypes, NetTypes
<1>1. \A c \in Conn : QuotaKept(c) /\ Cardinality(FromConn(c)) \in Nat
  BY FromConnFinite DEF PoolShare, QuotaKept
<1>2. SUFFICES \A c \in Conn : QuotaKept(c)'
  BY DEF PoolShare, QuotaKept
<1>3. CASE /\ UNCHANGED <<allTransactions, origin, count>>
           /\ \A c \in Conn : reader[c] \in {"block", "reset"} => reader'[c] \in {"block", "reset"}
           /\ \A c \in Conn : reader'[c] \in {"block", "reset"} => reader[c] \in {"block", "reset"}
  <2>1. \A c \in Conn : FromConn(c)' = FromConn(c)
    BY <1>3, FromConnKept
  <2>2. QED
    BY <1>1, <1>3, <2>1 DEF QuotaKept
<1>4. ASSUME NEW c \in Conn, NEW m \in Message, Submit(c, m)
      PROVE  \A d \in Conn : QuotaKept(d)'
  <2>1. /\ origin' = [origin EXCEPT ![m] = c] /\ origin[m] = None
        /\ UNCHANGED <<allTransactions, count, reader>>
    BY <1>4 DEF Submit, readerVars
  <2>2. \A i \in DOMAIN allTransactions :
          /\ allTransactions[i] # m
          /\ origin'[allTransactions[i]] = origin[allTransactions[i]]
    BY <1>0, <2>1 DEF WaitingInv, Held, Elems
  <2>3. \A d \in Conn : FromConn(d)' = FromConn(d)
    BY <2>1, <2>2, FromConnKept
  <2>4. QED
    BY <1>1, <2>1, <2>3 DEF QuotaKept
<1>5. ASSUME NEW c \in Conn, Register(c) \/ ReadMessage(c) \/ ReadError(c)
      PROVE  \A d \in Conn : QuotaKept(d)'
  BY <1>0, <1>3, <1>5
  DEF Register, ReadMessage, ReadError, MutexInv, netVars
<1>6. ASSUME NEW c \in Conn, HandOver(c)
      PROVE  \A d \in Conn : QuotaKept(d)'
  BY <1>0, <1>3, <1>6 DEF HandOver, netVars
<1>7. ASSUME NEW c \in Conn, Pool(c)
      PROVE  \A d \in Conn : QuotaKept(d)'
  <2> DEFINE n == Len(allTransactions) + 1
  <2>1. /\ origin' = origin /\ reader[c] = "lock"
        /\ allTransactions' = Append(allTransactions, msg[c])
        /\ \A d \in Conn \ {c} : reader'[d] = reader[d] /\ count'[d] = count[d]
        /\ \/ /\ count[c] + 1 >= BlockSize
              /\ count'[c] = 0
              /\ reader'[c] = "block"
           \/ /\ count[c] + 1 < BlockSize
              /\ count'[c] = count[c] + 1
              /\ reader'[c] = "ack"
    BY <1>0, <1>7 DEF Pool, PoolWith, Full, netVars
  <2>2. msg[c] \in Message /\ origin[msg[c]] = c
    BY <2>1 DEF TypeOK, ReaderTypes, Deciding, WaitingInv, Unpooled
  <2>3. /\ DOMAIN allTransactions' = 1 .. n /\ allTransactions'[n] = msg[c]
        /\ \A i \in DOMAIN allTransactions : allTransactions'[i] = allTransactions[i]
    BY <1>0, <2>1, <2>2, AppendProperties, LenProperties
  <2>4. \A d \in Conn \ {c} : FromConn(d)' = FromConn(d)
    BY <1>0, <2>1, <2>2, <2>3 DEF FromConn
  <2>5. FromConn(c)' = FromConn(c) \cup {n} /\ n \notin FromConn(c)
    BY <1>0, <2>1, <2>2, <2>3 DEF FromConn
  <2>6. Cardinality(FromConn(c))' = Cardinality(FromConn(c)) + 1
    <3>1. Cardinality(FromConn(c) \cup {n}) = Cardinality(FromConn(c)) + 1
      BY <2>5, FromConnFinite, FS_AddElement
    <3>2. QED
      BY <2>5, <3>1
  <2>7. QuotaKept(c)'
    <3>1. /\ count[c] \in Nat /\ count[c] < BlockSize /\ BlockSize \in Nat
          /\ Cardinality(FromConn(c)) \in Nat /\ Cardinality(FromConn(c)) <= count[c]
      BY <1>0, <1>1, <2>1 DEF QuotaKept
    <3>2. QED
      BY <2>1, <2>6, <3>1 DEF QuotaKept
  <2>8. \A d \in Conn \ {c} : QuotaKept(d)'
    BY <1>1, <2>1, <2>4 DEF QuotaKept
  <2>9. QED
    BY <2>7, <2>8
<1>8. ASSUME NEW c \in Conn, Unlock(c)
      PROVE  \A d \in Conn : QuotaKept(d)'
  <2>1. /\ UNCHANGED <<origin, count>> /\ reader[c] \in {"reset", "unlock"}
        /\ reader'[c] = "read" /\ \A d \in Conn \ {c} : reader'[d] = reader[d]
        /\ reader[c] = "reset" => allTransactions' = <<>>
        /\ reader[c] = "unlock" => allTransactions' = allTransactions
    BY <1>0, <1>8 DEF Unlock, PoolAfterBlock, netVars
  <2>2. CASE reader[c] = "unlock"
    BY <1>3, <2>1, <2>2
  <2>3. CASE reader[c] = "reset"
    <3>1. \A d \in Conn : FromConn(d)' = {}
      BY <2>1, <2>3 DEF FromConn
    <3>2. \A d \in Conn : Cardinality(FromConn(d))' = 0
      BY <3>1, FS_EmptySet
    <3>3. QED
      BY <1>0, <1>1, <2>1, <3>2 DEF QuotaKept
  <2>4. QED
    BY <2>1, <2>2, <2>3
<1>9. CASE Restart
  <2>1. allTransactions' = <<>> /\ \A c \in Conn : count'[c] = 0
    BY <1>9 DEF Restart
  <2>2. \A d \in Conn : FromConn(d)' = {}
    BY <2>1 DEF FromConn
  <2>3. \A d \in Conn : Cardinality(FromConn(d))' = 0
    BY <2>2, FS_EmptySet
  <2>4. QED
    BY <2>1, <2>3 DEF QuotaKept
<1>10. QED
  BY <1>3, <1>4, <1>5, <1>6, <1>7, <1>8, <1>9
  DEF Next, ReadPump, Builder, WritePump, Idle, Receive, Disconnect, Accept,
      AddBlock, Cast, Take, Write, vars, netVars, readerVars

\* Places of which no owner has more than k are at most k for every owner:
\* a place is known by its owner and by how many of the owner's come before.
Before(I, f, i) == {j \in I : f[j] = f[i] /\ j < i}

LEMMA BeforeCount ==
  ASSUME NEW S, NEW I \in SUBSET Nat, IsFiniteSet(I), NEW f \in [I -> S], NEW i \in I
  PROVE  /\ IsFiniteSet(Before(I, f, i)) /\ Cardinality(Before(I, f, i)) \in Nat
         /\ IsFiniteSet(Before(I, f, i) \cup {i})
         /\ Cardinality(Before(I, f, i) \cup {i}) = Cardinality(Before(I, f, i)) + 1
<1>1. Before(I, f, i) \in SUBSET I /\ i \notin Before(I, f, i)
  BY DEF Before
<1>2. IsFiniteSet(Before(I, f, i)) /\ Cardinality(Before(I, f, i)) \in Nat
  BY <1>1, FS_Subset, FS_CardinalityType
<1>3. QED
  BY <1>1, <1>2, FS_AddElement

LEMMA BeforeGrows ==
  ASSUME NEW S, NEW I \in SUBSET Nat, IsFiniteSet(I), NEW f \in [I -> S],
         NEW i \in I, NEW j \in I, f[i] = f[j], i < j
  PROVE  Cardinality(Before(I, f, i)) < Cardinality(Before(I, f, j))
<1>1. i \in Nat /\ j \in Nat /\ \A x \in I : x \in Nat
  OBVIOUS
<1>2. \A x \in I : x < i => x < j
  BY <1>1
<1>3. Before(I, f, i) \cup {i} \in SUBSET Before(I, f, j)
  BY <1>2 DEF Before
<1>4. Cardinality(Before(I, f, i) \cup {i}) <= Cardinality(Before(I, f, j))
  BY <1>3, BeforeCount, FS_Subset
<1>5. /\ Cardinality(Before(I, f, i)) \in Nat /\ Cardinality(Before(I, f, j)) \in Nat
      /\ Cardinality(Before(I, f, i) \cup {i}) = Cardinality(Before(I, f, i)) + 1
  BY BeforeCount
<1>6. QED
  BY <1>4, <1>5

LEMMA SharesBound ==
  ASSUME NEW S, IsFiniteSet(S), NEW I \in SUBSET Nat, IsFiniteSet(I),
         NEW f \in [I -> S], NEW k \in Nat,
         \A s \in S : Cardinality({i \in I : f[i] = s}) <= k
  PROVE  Cardinality(I) <= Cardinality(S) * k
<1> DEFINE Own(s) == {i \in I : f[i] = s}
           T == S \X (0 .. k - 1)
           g == [i \in I |-> <<f[i], Cardinality(Before(I, f, i))>>]
<1>1. \A i \in I : f[i] \in S /\ i \in Nat
  OBVIOUS
<1>2. \A i \in I : Cardinality(Before(I, f, i)) \in 0 .. k - 1
  <2> TAKE i \in I
  <2>1. Before(I, f, i) \cup {i} \in SUBSET Own(f[i]) /\ Own(f[i]) \in SUBSET I
    BY DEF Before
  <2>2. IsFiniteSet(Own(f[i])) /\ Cardinality(Own(f[i])) \in Nat
    BY <2>1, FS_Subset, FS_CardinalityType
  <2>3. Cardinality(Before(I, f, i) \cup {i}) <= Cardinality(Own(f[i]))
    BY <2>1, <2>2, FS_Subset
  <2>4. Cardinality(Own(f[i])) <= k
    BY <1>1
  <2>5. /\ Cardinality(Before(I, f, i)) \in Nat
        /\ Cardinality(Before(I, f, i) \cup {i}) = Cardinality(Before(I, f, i)) + 1
    BY BeforeCount
  <2> HIDE DEF Own
  <2>6. QED
    BY <2>2, <2>3, <2>4, <2>5
<1>3. g \in Injection(I, T)
  <2>1. g \in [I -> T]
    BY <1>1, <1>2
  <2>2. ASSUME NEW i \in I, NEW j \in I, g[i] = g[j]
        PROVE  i = j
    <3>1. f[i] = f[j] /\ Cardinality(Before(I, f, i)) = Cardinality(Before(I, f, j))
      BY <2>2
    <3>2. /\ Cardinality(Before(I, f, i)) \in Nat
          /\ i < j => Cardinality(Before(I, f, i)) < Cardinality(Before(I, f, j))
          /\ j < i => Cardinality(Before(I, f, j)) < Cardinality(Before(I, f, i))
      BY <3>1, BeforeCount, BeforeGrows
    <3>3. QED
      BY <1>1, <3>1, <3>2
  <2>3. QED
    BY <2>1, <2>2 DEF Injection, IsInjective
<1>4. IsFiniteSet(0 .. k - 1) /\ Cardinality(0 .. k - 1) = k
  BY FS_Interval
<1>5. IsFiniteSet(T) /\ Cardinality(T) = Cardinality(S) * k
  BY <1>4, FS_Product
<1>6. QED
  BY <1>3, <1>5, FS_Injection

-----------------------------------------------------------------------------
(***************************************************************************)
(* Blocks.                                                                 *)
(***************************************************************************)

\* A block is named for the message that completed it.
LEMMA NameStep ==
  ASSUME TypeOK, MutexInv, ChainInv, NameInv, [Next]_vars
  PROVE  NameInv'
<1> DEFINE Pumps == \A c \in Conn : reader[c] = "block" =>
                      allTransactions # <<>> /\ msg[c] = LastOf(allTransactions)
           Building ==
             /\ builder = "block" => job.txs # <<>> /\ job.id = LastOf(job.txs)
             /\ builder = "cast" /\ job.broadcast => job.id = LastOf(Blocks[Len(Blocks)])
           Told(c) == \A i \in DOMAIN frames[c] :
                        IF frames[c][i].ack
                          THEN frames[c][i].at = 0
                          ELSE frames[c][i].id = LastOf(Blocks[frames[c][i].at])
<1> USE DEF LastOf
<1>0. /\ reader \in [Conn -> {"off", "read", "done"} \cup Deciding]
      /\ msg \in [Conn -> Message \cup {None}]
      /\ allTransactions \in Seq(Message) /\ Blocks \in Seq(Seq(Message))
      /\ Pumps /\ Building /\ \A c \in Conn : Told(c)
  BY DEF TypeOK, ReaderTypes, BuilderTypes, NameInv
<1>1. Pumps'
  <2>1. CASE UNCHANGED <<reader, msg, allTransactions>>
    BY <1>0, <2>1
  <2>2. ASSUME NEW c \in Conn, Register(c) \/ ReadMessage(c) \/ ReadError(c)
        PROVE  Pumps'
    <3>1. /\ reader'[c] # "block" \/ UNCHANGED <<reader, msg>>
          /\ \A d \in Conn \ {c} : reader'[d] = reader[d] /\ msg'[d] = msg[d]
          /\ allTransactions' = allTransactions
      BY <1>0, <2>2 DEF Register, ReadMessage, ReadError
    <3>2. QED
      BY <1>0, <3>1
  <2>3. ASSUME NEW c \in Conn, Pool(c)
        PROVE  Pumps'
    <3>1. /\ mu = None /\ msg' = msg /\ reader[c] = "lock"
          /\ allTransactions' = Append(allTransactions, msg[c])
          /\ \A d \in Conn \ {c} : reader'[d] = reader[d]
      BY <1>0, <2>3 DEF Pool, PoolWith, MutexFree
    <3>2. \A d \in Conn : reader[d] # "block"
      BY <3>1, ConstAssumption DEF MutexInv, Holding
    <3>3. msg[c] \in Message
      BY <3>1 DEF TypeOK, ReaderTypes, Deciding
    <3>4. allTransactions' # <<>> /\ msg[c] = LastOf(allTransactions')
      BY <1>0, <3>1, <3>3, AppendProperties, LenProperties
    <3>5. QED
      BY <3>1, <3>2, <3>4
  <2>4. ASSUME NEW c \in Conn, HandOver(c) \/ Unlock(c)
        PROVE  Pumps'
    <3>1. /\ mu = c /\ reader'[c] # "block"
          /\ \A d \in Conn \ {c} : reader'[d] = reader[d]
      BY <1>0, <2>4 DEF HandOver, Unlock, MutexInv, Holding
    <3>2. \A d \in Conn \ {c} : reader[d] # "block"
      BY <3>1 DEF MutexInv, Holding
    <3>3. QED
      BY <3>1, <3>2
  <2>5. CASE Restart
    BY <2>5 DEF Restart
  <2>6. QED
    BY <2>1, <2>2, <2>3, <2>4, <2>5
    DEF Next, ReadPump, Builder, WritePump, Idle, Submit, Receive, Disconnect,
        Accept, AddBlock, Cast, Take, Write, vars, readerVars
<1>2. Building' /\ \A c \in Conn : Told(c)'
  <2>1. CASE UNCHANGED <<builder, job, Blocks, frames>>
    BY <1>0, <2>1
  <2>2. ASSUME NEW c \in Conn, HandOver(c)
        PROVE  Building' /\ \A d \in Conn : Told(d)'
    <3>1. /\ UNCHANGED <<Blocks, frames>>
          /\ builder' = "block" =>
               reader[c] = "block" /\ job'.txs = allTransactions /\ job'.id = msg[c]
          /\ builder' = "cast" => ~job'.broadcast
      BY <2>2 DEF HandOver
    <3>2. QED
      BY <1>0, <3>1
  <2>3. CASE AddBlock
    <3>1. /\ UNCHANGED <<frames, job>> /\ builder = "block" /\ builder' = "cast"
          /\ Blocks' = Append(Blocks, job.txs) /\ job.txs \in Seq(Message)
      BY <2>3 DEF AddBlock, TypeOK, BuilderTypes, Job
    <3>2. /\ \A b \in DOMAIN Blocks : Blocks'[b] = Blocks[b]
          /\ Blocks'[Len(Blocks')] = job.txs
      BY <1>0, <3>1, AppendProperties, LenProperties
    <3>3. Building'
      BY <1>0, <3>1, <3>2
    <3>4. \A c \in Conn : \A i \in DOMAIN frames[c] :
            ~frames[c][i].ack => frames[c][i].at \in DOMAIN Blocks
      BY DEF ChainInv, BlocksInOrder
    <3>5. QED
      BY <1>0, <3>1, <3>2, <3>3, <3>4
  <2>4. CASE Cast
    <3>1. /\ Blocks' = Blocks /\ builder = "cast"
          /\ builder' = "idle" \/ (builder' = "cast" /\ job' = job)
      BY <2>4 DEF Cast
    <3>2. Building'
      BY <1>0, <3>1
    <3>3. ASSUME NEW d \in Conn, Sends(d)
          PROVE  \A c \in Conn : Told(c)'
      <4>1. FrameOf(job, Len(Blocks)).ack = ~job.broadcast
        BY DEF FrameOf
      <4>2. \A i \in DOMAIN frames'[d] :
              \/ i \in DOMAIN frames[d] /\ frames'[d][i] = frames[d][i]
              \/ frames'[d][i] = FrameOf(job, Len(Blocks))
        BY <3>3 DEF Sends
      <4>3. IF job.broadcast
              THEN FrameOf(job, Len(Blocks)).id = LastOf(Blocks[FrameOf(job, Len(Blocks)).at])
              ELSE FrameOf(job, Len(Blocks)).at = 0
        BY <1>0, <3>1 DEF FrameOf
      <4>4. Told(d)'
        <5>1. Told(d)
          BY <1>0
        <5> DEFINE g == FrameOf(job, Len(Blocks))
        <5>2. IF g.ack THEN g.at = 0 ELSE g.id = LastOf(Blocks[g.at])
          BY <4>1, <4>3
        <5> HIDE DEF g
        <5>3. \A i \in DOMAIN frames'[d] :
                IF frames'[d][i].ack
                  THEN frames'[d][i].at = 0
                  ELSE frames'[d][i].id = LastOf(Blocks[frames'[d][i].at])
          BY <4>2, <5>1, <5>2 DEF g
        <5>4. QED
          BY <3>1, <5>3
      <4>5. \A c \in Conn \ {d} : frames'[c] = frames[c]
        BY <3>3 DEF Sends
      <4>6. ASSUME NEW c \in Conn \ {d}
            PROVE  Told(c)'
        <5>1. Told(c) /\ frames'[c] = frames[c] /\ Blocks' = Blocks
          BY <1>0, <3>1, <4>5
        <5>2. QED
          BY <5>1
      <4>7. QED
        BY <4>4, <4>6
    <3>4. QED
      BY <1>0, <2>4, <3>1, <3>2, <3>3, CastSends
  <2>5. CASE Restart
    BY <1>0, <2>5 DEF Restart
  <2>6. QED
    BY <2>1, <2>2, <2>3, <2>4, <2>5
    DEF Next, ReadPump, Builder, WritePump, Idle, Submit, Receive, Disconnect,
        Accept, Register, ReadMessage, ReadError, Pool, Unlock, Take, Write,
        vars, builderVars
<1>3. QED
  BY <1>1, <1>2 DEF NameInv

\* When a quota is full, the pool has its last message and the shares of the
\* connections before it, none of which is full.
LEMMA PoolLength ==
  ASSUME TypeOK, MutexInv, WaitingInv, PoolShare, ReplyInv, NameInv,
         NEW c \in Conn, reader[c] = "block"
  PROVE  InBound(allTransactions)
<1> DEFINE n == Len(allTransactions)
           I == 1 .. n - 1
           f == [i \in I |-> origin[allTransactions[i]]]
           Share(d) == {i \in I : f[i] = d}
<1>1. /\ allTransactions \in Seq(Message) /\ n \in Nat \ {0}
      /\ DOMAIN allTransactions = 1 .. n /\ allTransactions[n] = msg[c]
      /\ count \in [Conn -> Nat] /\ BlockSize \in Nat \ {0} /\ IsFiniteSet(Conn)
      /\ origin \in [Message -> Conn \cup {None}]
  BY LenProperties, EmptySeq, ConstAssumption
  DEF TypeOK, ReaderTypes, NetTypes, NameInv, LastOf
<1>2. f \in [I -> Conn]
  <2>1. \A i \in I : allTransactions[i] \in Message /\ origin[allTransactions[i]] # None
    BY <1>1, ElementOfSeq DEF WaitingInv, Held, Elems
  <2>2. QED
    BY <1>1, <2>1
<1>3. IsFiniteSet(I) /\ Cardinality(I) = n - 1 /\ I \in SUBSET Nat
  <2>1. 1 \in Int /\ n - 1 \in Int /\ (IF 1 > n - 1 THEN 0 ELSE (n - 1) - 1 + 1) = n - 1
    BY <1>1
  <2>2. IsFiniteSet(I) /\ Cardinality(I) = n - 1
    BY <2>1, FS_Interval
  <2>3. I \in SUBSET Nat
    BY <1>1
  <2>4. QED
    BY <2>2, <2>3
<1>4. n \in FromConn(c)
  <2>1. n \in DOMAIN allTransactions /\ allTransactions[n] = msg[c]
    BY <1>1
  <2>2. msg[c] \in Unanswered(c)
    BY DEF Unanswered
  <2>3. origin[msg[c]] = c
    BY <2>2 DEF ReplyInv
  <2>4. QED
    BY <2>1, <2>3 DEF FromConn
<1>5. \A d \in Conn : Cardinality(Share(d)) <= BlockSize - 1
  <2> TAKE d \in Conn
  <2>1. Share(d) \in SUBSET (FromConn(d) \ {n})
    BY <1>1 DEF FromConn
  <2>2. IsFiniteSet(FromConn(d)) /\ Cardinality(FromConn(d)) \in Nat
    BY FromConnFinite
  <2>3. Cardinality(FromConn(d) \ {n}) <= BlockSize - 1
    <3>1. CASE d = c
      <4>1. Cardinality(FromConn(c)) <= BlockSize
        BY DEF PoolShare
      <4>2. Cardinality(FromConn(d) \ {n}) = Cardinality(FromConn(d)) - 1
        BY <1>4, <2>2, <3>1, FS_RemoveElement
      <4>3. BlockSize \in Nat
        BY <1>1
      <4> HIDE DEF n
      <4>4. QED
        BY <2>2, <3>1, <4>1, <4>2, <4>3
    <3>2. CASE d # c
      <4>1. reader[d] \notin {"block", "reset"}
        BY <3>2 DEF MutexInv, Holding
      <4>2. Cardinality(FromConn(d)) <= count[d] /\ count[d] < BlockSize
        BY <4>1 DEF PoolShare
      <4>3. /\ Cardinality(FromConn(d) \ {n}) <= Cardinality(FromConn(d))
            /\ Cardinality(FromConn(d) \ {n}) \in Nat
        BY <2>2, FS_Subset, FS_CardinalityType
      <4>4. count[d] \in Nat /\ BlockSize \in Nat
        BY <1>1
      <4> HIDE DEF n
      <4>5. QED
        BY <2>2, <4>2, <4>3, <4>4
    <3>3. QED
      BY <3>1, <3>2
  <2>4. IsFiniteSet(FromConn(d) \ {n})
    BY <2>2, FS_RemoveElement
  <2>5. /\ Cardinality(Share(d)) <= Cardinality(FromConn(d) \ {n})
        /\ Cardinality(Share(d)) \in Nat /\ Cardinality(FromConn(d) \ {n}) \in Nat
    BY <2>1, <2>4, FS_Subset, FS_CardinalityType
  <2> HIDE DEF Share, n
  <2>6. QED
    BY <1>1, <2>3, <2>5
<1>6. Cardinality(I) <= Cardinality(Conn) * (BlockSize - 1)
  <2>1. BlockSize - 1 \in Nat
    BY <1>1
  <2> HIDE DEF I, f
  <2>2. QED
    BY <1>1, <1>2, <1>3, <1>5, <2>1, SharesBound
<1>7. QED
  <2>1. Cardinality(Conn) * (BlockSize - 1) \in Nat
    <3>1. Cardinality(Conn) \in Nat /\ BlockSize - 1 \in Nat
      BY <1>1, FS_CardinalityType
    <3>2. QED
      BY <3>1
  <2>2. QED
    BY <1>1, <1>3, <1>6, <2>1 DEF InBound

LEMMA LengthStep ==
  ASSUME TypeOK, MutexInv, WaitingInv, PoolShare, ReplyInv, NameInv, LengthInv,
         [Next]_vars
  PROVE  LengthInv'
<1> DEFINE Made == builder = "block" => InBound(job.txs)
<1>1. BlockBound = \A b \in DOMAIN Blocks : InBound(Blocks[b])
  BY DEF BlockBound, InBound
<1>2. CASE UNCHANGED <<Blocks, builder, job>>
  BY <1>2 DEF LengthInv, BlockBound, InBound
<1>3. ASSUME NEW c \in Conn, HandOver(c)
      PROVE  LengthInv'
  <2>1. /\ Blocks' = Blocks
        /\ builder' = "block" => reader[c] = "block" /\ job'.txs = allTransactions
    BY <1>3 DEF HandOver
  <2>2. builder' = "block" => InBound(job'.txs)
    BY <2>1, PoolLength
  <2>3. QED
    BY <2>1, <2>2 DEF LengthInv, BlockBound, InBound
<1>4. CASE AddBlock
  <2>1. /\ Blocks' = Append(Blocks, job.txs) /\ builder = "block" /\ builder' # "block"
        /\ Blocks \in Seq(Seq(Message)) /\ job.txs \in Seq(Message)
    BY <1>4 DEF AddBlock, TypeOK, BuilderTypes, Job
  <2>2. \A b \in DOMAIN Blocks' :
          (b \in DOMAIN Blocks /\ Blocks'[b] = Blocks[b]) \/ Blocks'[b] = job.txs
    BY <2>1, AppendProperties, LenProperties
  <2>3. \A b \in DOMAIN Blocks' : InBound(Blocks'[b])
    BY <1>1, <2>1, <2>2 DEF LengthInv
  <2>4. QED
    BY <2>1, <2>3 DEF LengthInv, BlockBound, InBound
<1>5. CASE Cast \/ Restart
  <2>1. Blocks' = Blocks /\ builder' # "block"
    BY <1>5 DEF Cast, Restart
  <2>2. QED
    BY <2>1 DEF LengthInv, BlockBound
<1>6. QED
  BY <1>2, <1>3, <1>4, <1>5
  DEF Next, ReadPump, Builder, WritePump, Idle, Submit, Receive, Disconnect,
      Accept, Register, ReadMessage, ReadError, Pool, Unlock, Take, Write,
      vars, builderVars

-----------------------------------------------------------------------------
(***************************************************************************)
(* The theorems about answers and blocks.                                  *)
(***************************************************************************)
LogInv ==
  /\ SafetyInv
  /\ ReplyInv
  /\ PoolShare
  /\ NameInv
  /\ LengthInv

LEMMA InitLogInv == Init => LogInv
<1> SUFFICES ASSUME Init
             PROVE  LogInv
  OBVIOUS
<1>1. ReplyInv
  BY ElemsEmpty
  DEF Init, ReplyInv, Unanswered, Unpooled, Answering, AnsweredOn, RepliedOnce
<1>2. PoolShare
  <2>1. \A c \in Conn : FromConn(c) = {}
    BY DEF Init, FromConn
  <2>2. \A c \in Conn : Cardinality(FromConn(c)) = 0
    BY <2>1, FS_EmptySet
  <2>3. \A c \in Conn : count[c] = 0 /\ reader[c] = "off"
    BY DEF Init
  <2>4. QED
    BY <2>2, <2>3, ConstAssumption DEF PoolShare
<1>3. NameInv /\ LengthInv
  BY DEF Init, NameInv, LengthInv, BlockBound
<1>4. QED
  BY <1>1, <1>2, <1>3, InitSafety DEF LogInv

LEMMA NextLogInv == TypeOK /\ LogInv /\ [Next]_vars => LogInv'
<1> SUFFICES ASSUME TypeOK, LogInv, [Next]_vars
             PROVE  LogInv'
  OBVIOUS
<1>1. SafetyInv'
  BY NextSafety DEF LogInv
<1>2. ReplyInv'
  BY ReplyStep DEF LogInv, SafetyInv
<1>3. PoolShare'
  BY ShareStep DEF LogInv, SafetyInv
<1>4. NameInv'
  BY NameStep DEF LogInv, SafetyInv
<1>5. LengthInv'
  BY LengthStep DEF LogInv, SafetyInv
<1>6. QED
  BY <1>1, <1>2, <1>3, <1>4, <1>5 DEF LogInv

LEMMA LogInvariant == Spec => []LogInv
  BY InitLogInv, NextLogInv, TypeCorrect, PTL DEF Spec

\* No runtime is answered twice for a message, be it by an ack or by a
\* block, and an ack goes to the runtime that sent the message.
THEOREM AnsweredOnce == Spec => []RepliedOnce
<1>1. LogInv => RepliedOnce
  BY DEF LogInv, ReplyInv
<1>2. QED
  BY LogInvariant, <1>1, PTL

\* However the ReadPumps take turns, no connection has more of its messages
\* in the pool than its own counter says, or blockSize while a block is made.
THEOREM QuotaPerConnection == Spec => []PoolShare
<1>1. LogInv => PoolShare
  BY DEF LogInv
<1>2. QED
  BY LogInvariant, <1>1, PTL

\* A block holds at most blockSize - 1 transactions of every connection and
\* the one that filled the quota, though the quota is not counted per block.
THEOREM BlocksBounded == Spec => []BlockBound
<1>1. LogInv => BlockBound
  BY DEF LogInv, LengthInv
<1>2. QED
  BY LogInvariant, <1>1, PTL

-----------------------------------------------------------------------------
(***************************************************************************)
(* The service implements TransactionLog.                                  *)
(*                                                                         *)
(* Pool is LogAccept, AddBlock is LogCommit, Receive is LogDeliver or      *)
(* LogAck, Restart is LogForget; every other step leaves the log, what is  *)
(* pending and what the runtimes were given alone.                         *)
(***************************************************************************)
LEMMA LogHolds == Log!Logged = Committed
  BY DEF Log!Logged, Committed, Elems

\* What a runtime was given does not change while it reads nothing and the
\* frames it has read stay.
LEMMA GivenKept ==
  ASSUME seen' = seen, \A c \in Conn : \A i \in 1 .. seen[c] : frames'[c][i] = frames[c][i]
  PROVE  Given' = Given
  BY DEF Given

LEMMA PendingKept ==
  ASSUME Held' = Held, Committed' = Committed
  PROVE  Pending' = Pending
  BY DEF Pending

\* The elements of a sequence are finitely many, and as many as it is long
\* when it has none twice.
LEMMA ElemsFinite ==
  ASSUME NEW S, NEW s \in Seq(S)
  PROVE  IsFiniteSet(Elems(s))
<1>1. Len(s) \in Nat /\ DOMAIN s = 1 .. Len(s) /\ IsFiniteSet(1 .. Len(s))
  BY LenProperties, FS_Interval
<1>2. s \in Surjection(1 .. Len(s), Elems(s))
  BY <1>1 DEF Surjection, Elems
<1>3. QED
  BY <1>1, <1>2, FS_Surjection

LEMMA DistinctLength ==
  ASSUME NEW S, NEW s \in Seq(S), Distinct(s), NEW T, IsFiniteSet(T), Elems(s) \subseteq T
  PROVE  s \in [1 .. Len(s) -> T] /\ Len(s) <= Cardinality(T)
<1>1. /\ Len(s) \in Nat /\ DOMAIN s = 1 .. Len(s) /\ IsFiniteSet(1 .. Len(s))
      /\ Cardinality(1 .. Len(s)) = Len(s)
  <2>1. Len(s) \in Nat /\ DOMAIN s = 1 .. Len(s)
    BY LenProperties
  <2>2. Len(s) \in Int /\ 1 \in Int
    BY <2>1
  <2>3. /\ IsFiniteSet(1 .. Len(s))
        /\ Cardinality(1 .. Len(s)) = IF 1 > Len(s) THEN 0 ELSE Len(s) - 1 + 1
    BY <2>2, FS_Interval
  <2>4. QED
    BY <2>1, <2>3
<1>2. s \in [1 .. Len(s) -> T]
  BY <1>1 DEF Elems
<1>3. s \in Injection(1 .. Len(s), T)
  BY <1>1, <1>2 DEF Injection, IsInjective, Distinct
<1>4. QED
  BY <1>1, <1>2, <1>3, FS_Injection

\* A pooled message is a newly accepted one.
LEMMA PoolAccepts ==
  ASSUME TypeOK, LogInv, NEW c \in Conn, Pool(c)
  PROVE  Log!LogAccept(msg[c]) /\ msg[c] \in Message
<1>1. /\ reader[c] = "lock" /\ UNCHANGED <<Blocks, seen, frames>>
  BY DEF Pool, netVars, builderVars
<1>2. msg[c] \in Message /\ msg[c] \notin Held
  BY <1>1 DEF TypeOK, ReaderTypes, Deciding, LogInv, SafetyInv, WaitingInv, Unpooled
<1>3. Held' = Held \cup {msg[c]} /\ Committed' = Committed
  BY HeldPool
<1>4. Pending' = Pending \cup {msg[c]} /\ msg[c] \notin Pending \cup Committed
  BY <1>2, <1>3 DEF Pending, Held
<1>5. Given' = Given
  BY <1>1, GivenKept
<1>6. QED
  BY <1>1, <1>2, <1>4, <1>5, LogHolds DEF Log!LogAccept

\* A block is made of pending messages, each once.
LEMMA AddBlockCommits ==
  ASSUME TypeOK, LogInv, AddBlock
  PROVE  Log!LogCommit
<1> DEFINE n == Len(job.txs)
<1>1. /\ builder = "block" /\ UNCHANGED <<seen, frames>>
      /\ Blocks' = Append(Blocks, job.txs)
      /\ job.txs \in Seq(Message) /\ allTransactions \in Seq(Message)
  BY DEF AddBlock, netVars, TypeOK, BuilderTypes, ReaderTypes, Job
<1>2. Making = Elems(job.txs) /\ Distinct(job.txs) /\ Making \cap Committed = {}
  BY <1>1 DEF LogInv, SafetyInv, PlaceInv, Making
<1>3. Held' = Held /\ Committed' = Committed \cup Making
  BY HeldAddBlock
<1>4. IsFiniteSet(Pending)
  <2>1. IsFiniteSet(Elems(allTransactions)) /\ IsFiniteSet(Elems(job.txs))
    BY <1>1, ElemsFinite
  <2>2. Pending \in SUBSET (Elems(allTransactions) \cup Elems(job.txs))
    BY <1>2 DEF Pending, Held
  <2>3. QED
    BY <2>1, <2>2, FS_Union, FS_Subset
<1>5. Elems(job.txs) \subseteq Pending
  BY <1>2 DEF Pending, Held
<1>6. job.txs \in [1 .. n -> Pending] /\ n <= Cardinality(Pending)
  BY <1>1, <1>2, <1>4, <1>5, DistinctLength
<1>7. n \in 1 .. Cardinality(Pending)
  <2>1. n \in Nat /\ n >= 1 /\ Cardinality(Pending) \in Nat
    <3>1. Len(job.txs) \in Nat /\ Cardinality(Pending) \in Nat
      BY <1>1, <1>4, LenProperties, FS_CardinalityType
    <3>2. job.txs # <<>>
      BY <1>1 DEF LogInv, NameInv
    <3>3. QED
      BY <1>1, <3>1, <3>2, EmptySeq
  <2>2. QED
    BY <1>6, <2>1
<1>8. Elems(job.txs) = {job.txs[i] : i \in 1 .. n} /\ DOMAIN job.txs = 1 .. n
  BY <1>1, LenProperties DEF Elems
<1>9. \A i, j \in 1 .. n : job.txs[i] = job.txs[j] => i = j
  BY <1>2, <1>8 DEF Distinct
<1>10. Pending' = Pending \ {job.txs[i] : i \in 1 .. n}
  BY <1>2, <1>3, <1>8 DEF Pending
<1>11. Given' = Given
  BY <1>1, GivenKept
<1>12. /\ Blocks' = Append(Blocks, job.txs)
       /\ \A i, j \in 1 .. n : job.txs[i] = job.txs[j] => i = j
       /\ Pending' = Pending \ {job.txs[i] : i \in 1 .. n}
  BY <1>1, <1>9, <1>10
<1> HIDE DEF n
<1>13. \E b \in [1 .. n -> Pending] : /\ \A i, j \in 1 .. n : b[i] = b[j] => i = j
                                      /\ Blocks' = Append(Blocks, b)
                                      /\ Pending' = Pending \ {b[i] : i \in 1 .. n}
  BY <1>6, <1>12
<1>14. Log!Cardinality(Pending) = Cardinality(Pending)
  BY DEF Log!Cardinality, Cardinality
<1>15. QED
  BY <1>7, <1>11, <1>13, <1>14 DEF Log!LogCommit

\* The first values of a function, one more of them at a time.
LEMMA FcnAppend ==
  ASSUME NEW n \in Nat, NEW g
  PROVE  Append([i \in 1 .. n |-> g[i]], g[n + 1]) = [i \in 1 .. n + 1 |-> g[i]]
<1> DEFINE s == [i \in 1 .. n |-> g[i]]
           T == {g[i] : i \in 1 .. n + 1}
<1>1. s \in Seq(T) /\ Len(s) = n /\ g[n + 1] \in T
  OBVIOUS
<1> HIDE DEF T
<1>2. /\ Append(s, g[n + 1]) \in Seq(T) /\ Len(Append(s, g[n + 1])) = n + 1
      /\ \A i \in 1 .. n : Append(s, g[n + 1])[i] = s[i]
      /\ Append(s, g[n + 1])[n + 1] = g[n + 1]
  BY <1>1, AppendProperties
<1>3. \A i \in 1 .. n + 1 : i \in 1 .. n \/ i = n + 1
  OBVIOUS
<1>4. \A i \in 1 .. n + 1 : Append(s, g[n + 1])[i] = g[i]
  BY <1>2, <1>3
<1> HIDE DEF s
<1>5. QED
  BY <1>2, <1>4, LenProperties DEF s

\* A runtime that reads a frame is given a block of the log, after those it
\* was given before, or told of a message that is held; and of none twice.
LEMMA ReceiveGives ==
  ASSUME TypeOK, LogInv, NEW c \in Conn, Receive(c)
  PROVE  Log!LogNext
<1> DEFINE n == seen[c] + 1
           f == frames[c][n]
           a == [id |-> f.id, at |-> f.at]
<1>1. /\ link[c] = "open" /\ seen' = [seen EXCEPT ![c] = @ + 1]
      /\ UNCHANGED <<allTransactions, builder, job, Blocks, frames>>
      /\ seen \in [Conn -> Nat] /\ n \in 1 .. Len(frames[c])
      /\ frames[c] \in Seq(Frame)
  BY DEF Receive, readerVars, builderVars, TypeOK, ChannelTypes
<1>2. /\ DOMAIN frames[c] = 1 .. Len(frames[c]) /\ Len(frames[c]) \in Nat
      /\ n \in DOMAIN frames[c] /\ 1 .. seen[c] \subseteq DOMAIN frames[c]
      /\ \A i \in 1 .. seen[c] : i \in Nat /\ i < n
  BY <1>1, LenProperties
<1>3. f \in Frame
  BY <1>1, ElementOfSeq
<1>4. Pending' = Pending /\ Blocks' = Blocks
  BY <1>1, HeldUnchanged, PendingKept
<1>5. /\ DOMAIN Given[c] = 1 .. seen[c]
      /\ \A i \in 1 .. seen[c] : /\ Given[c][i].id = frames[c][i].id
                                 /\ Given[c][i].at = frames[c][i].at
  BY DEF Given
<1>6. Given' = [Given EXCEPT ![c] = Append(@, a)]
  <2>1. Given[c] = [i \in 1 .. seen[c] |-> [id |-> frames[c][i].id, at |-> frames[c][i].at]]
    BY DEF Given
  <2>2. Append(Given[c], a) =
          [i \in 1 .. n |-> [id |-> frames[c][i].id, at |-> frames[c][i].at]]
    <3> DEFINE g == [i \in 1 .. n |-> [id |-> frames[c][i].id, at |-> frames[c][i].at]]
    <3>1. /\ seen[c] \in Nat /\ n = seen[c] + 1 /\ g[n] = a
          /\ Given[c] = [i \in 1 .. seen[c] |-> g[i]]
          /\ g = [i \in 1 .. n |-> g[i]]
      BY <1>1, <2>1
    <3> HIDE DEF g, a, n
    <3>2. Append(Given[c], a) = g
      BY <3>1, FcnAppend
    <3>3. QED
      BY <3>2 DEF g
  <2>3. \A d \in Conn \ {c} : seen'[d] = seen[d]
    BY <1>1
  <2>4. seen'[c] = n /\ frames' = frames
    BY <1>1
  <2>5. Given'[c] = Append(Given[c], a)
    BY <2>2, <2>4 DEF Given
  <2>6. \A d \in Conn \ {c} : Given'[d] = Given[d]
    BY <2>3, <2>4 DEF Given
  <2>7. /\ DOMAIN Given = Conn /\ DOMAIN Given' = Conn
        /\ Given = [d \in Conn |-> Given[d]] /\ Given' = [d \in Conn |-> Given'[d]]
    BY DEF Given
  <2>8. QED
    BY <2>5, <2>6, <2>7
<1>7. \A i \in DOMAIN Given[c] : Given[c][i].id # f.id
  BY <1>2, <1>5 DEF LogInv, ReplyInv, RepliedOnce
<1>8. CASE f.ack
  <2>1. f.at = 0
    BY <1>2, <1>8 DEF LogInv, NameInv
  <2>2. f.id \in Pending \cup Log!Logged
    <3>1. f.id \in Held
      BY <1>1, <1>2 DEF LogInv, SafetyInv, AnswerInv, RepliesHeld
    <3>2. QED
      BY <3>1, LogHolds DEF Pending
  <2>3. f.id \in Message
    BY <1>3 DEF Frame
  <2>4. Log!LogAck(c, f.id)
    BY <1>4, <1>6, <1>7, <2>1, <2>2 DEF Log!LogAck, Log!Tell
  <2>5. QED
    BY <2>3, <2>4 DEF Log!LogNext
<1>9. CASE ~f.ack
  <2>1. f.at \in DOMAIN Blocks /\ f.id = Blocks[f.at][Len(Blocks[f.at])]
    BY <1>2, <1>9 DEF LogInv, SafetyInv, ChainInv, BlocksInOrder, NameInv, LastOf
  <2>2. f.at \in Nat \ {0}
    BY <2>1, LenProperties DEF TypeOK, BuilderTypes
  <2>3. \A i \in DOMAIN Given[c] : Given[c][i].at < f.at
    <3> TAKE i \in DOMAIN Given[c]
    <3>1. i \in DOMAIN frames[c] /\ i < n /\ Given[c][i].at = frames[c][i].at
      BY <1>2, <1>5
    <3>2. CASE frames[c][i].ack
      BY <2>2, <3>1, <3>2 DEF LogInv, NameInv
    <3>3. CASE ~frames[c][i].ack
      BY <1>2, <1>9, <3>1, <3>3 DEF LogInv, SafetyInv, ChainInv, BlocksInOrder
    <3>4. QED
      BY <3>2, <3>3
  <2>4. Log!LogDeliver(c, f.at)
    BY <1>4, <1>6, <1>7, <2>1, <2>3 DEF Log!LogDeliver, Log!Tell
  <2>5. QED
    BY <2>1, <2>4 DEF Log!LogNext
<1>10. QED
  BY <1>8, <1>9

\* A crash forgets what is in no block.
LEMMA RestartForgets ==
  ASSUME TypeOK, Restart
  PROVE  Log!LogForget
<1>1. UNCHANGED <<Blocks, seen, frames>>
  BY DEF Restart
<1>2. Held' = Committed /\ Committed' = Committed
  BY HeldRestart
<1>3. Pending' = {}
  BY <1>2 DEF Pending
<1>4. Given' = Given
  BY <1>1, GivenKept
<1>5. QED
  BY <1>1, <1>3, <1>4 DEF Log!LogForget

\* A step that holds on to the same messages and gives a runtime nothing.
LEMMA StutterKept ==
  ASSUME Held' = Held, Committed' = Committed, Blocks' = Blocks, Given' = Given
  PROVE  UNCHANGED Log!logVars
  BY PendingKept DEF Log!logVars

LEMMA InitLog == Init => Log!LogInit
<1> SUFFICES ASSUME Init
             PROVE  Log!LogInit
  OBVIOUS
<1>1. Held = {} /\ Committed = {}
  BY ElemsEmpty DEF Init, Held, Making, Committed
<1>2. Pending = {} /\ Blocks = <<>>
  BY <1>1 DEF Init, Pending
<1>3. \A c \in Conn : 1 .. seen[c] = {}
  BY DEF Init
<1>4. Given = [c \in Conn |-> <<>>]
  BY <1>3 DEF Given
<1>5. QED
  BY <1>2, <1>4 DEF Log!LogInit

\* Every step of the service is a step of the log or none.
LEMMA NextLog == TypeOK /\ LogInv /\ [Next]_vars => [Log!LogNext]_(Log!logVars)
<1> SUFFICES ASSUME TypeOK, LogInv, [Next]_vars
             PROVE  Log!LogNext \/ UNCHANGED Log!logVars
  OBVIOUS
<1>1. CASE UNCHANGED <<allTransactions, builder, job, Blocks, seen, frames>>
  BY <1>1, HeldUnchanged, GivenKept, StutterKept
<1>2. ASSUME NEW c \in Conn, Receive(c)
      PROVE  Log!LogNext
  BY <1>2, ReceiveGives
<1>3. ASSUME NEW c \in Conn, Pool(c)
      PROVE  Log!LogNext
  BY <1>3, PoolAccepts DEF Log!LogNext
<1>4. ASSUME NEW c \in Conn, HandOver(c) \/ Unlock(c)
      PROVE  UNCHANGED Log!logVars
  <2>1. UNCHANGED <<Blocks, seen, frames>>
    BY <1>4 DEF HandOver, Unlock, netVars, builderVars
  <2>2. Held' = Held /\ Committed' = Committed
    BY <1>4, HeldHandOver, HeldUnlock DEF LogInv, SafetyInv
  <2>3. QED
    BY <2>1, <2>2, GivenKept, StutterKept
<1>5. CASE AddBlock
  BY <1>5, AddBlockCommits DEF Log!LogNext
<1>6. CASE Cast
  <2>1. Blocks' = Blocks /\ seen' = seen
    BY <1>6 DEF Cast, netVars
  <2>2. \A c \in Conn : \A i \in 1 .. seen[c] : frames'[c][i] = frames[c][i]
    <3>1. \A c \in Conn : 1 .. seen[c] \subseteq DOMAIN frames[c]
      <4>1. \A c \in Conn : /\ seen[c] \in Nat /\ seen[c] <= Len(frames[c])
                            /\ DOMAIN frames[c] = 1 .. Len(frames[c])
                            /\ Len(frames[c]) \in Nat
        BY LenProperties DEF TypeOK, ChannelTypes
      <4>2. QED
        BY <4>1
    <3>2. \A c \in Conn : \A i \in DOMAIN frames[c] : frames'[c][i] = frames[c][i]
      BY <1>6, CastSends DEF Sends
    <3>3. QED
      BY <3>1, <3>2
  <2>3. QED
    BY <1>6, <2>1, <2>2, HeldCast, GivenKept, StutterKept
<1>7. CASE Restart
  BY <1>7, RestartForgets DEF Log!LogNext
<1>8. ASSUME NEW c \in Conn, Register(c)
      PROVE  Log!LogNext \/ UNCHANGED Log!logVars
  BY <1>1, <1>8 DEF Register, netVars
<1>9. QED
  BY <1>1, <1>2, <1>3, <1>4, <1>5, <1>6, <1>7, <1>8
  DEF Next, ReadPump, Builder, WritePump, Idle, Submit, Disconnect, Accept,
      ReadMessage, ReadError, Take, Write, vars, netVars, readerVars, builderVars

\* The goroutines, channels and sockets make of the service nothing but the
\* log it promises: TransactionLog allows every behaviour of it.
THEOREM ServiceIsLog == Spec => ImplementsLog
  BY InitLog, NextLog, LogInvariant, TypeCorrect, PTL
  DEF Spec, ImplementsLog, Log!LogSpec

=============================================================================
