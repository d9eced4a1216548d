--------------------------- MODULE Runtime_proofs ---------------------------
(***************************************************************************)
(* The transaction path of a runtime, for any requests and clients, blocks *)
(* of any length and any number of crashes and failed saves.               *)
(***************************************************************************)
EXTENDS Runtime, FiniteSetTheorems, TLAPS

\* The parts of TypeOK.
RequestTypes ==
  /\ pc \in [Request -> {"new"} \cup Busy \cup Answers]
  /\ mu \in Request \cup {None}
  /\ \A r \in Request : pc[r] \in {"call", "send", "select"} <=> mu = r
  /\ ClientMessages \in [Client -> SUBSET Request]

ListenerTypes ==
  /\ listener \in {"read", "apply", "save", "writing", "match", "deliver",
                   "delete", "done", "new", "making", "down"}
  /\ frame \in IF listener \in {"read", "done", "new", "making", "down"} THEN {None} ELSE Frame

StoreTypes ==
  /\ Store \in Seq(Transaction)
  /\ disk \in [whole : BOOLEAN, store : Seq(Transaction)]
  /\ crashes \in 0 .. MaxCrashes
  /\ faults \in 0 .. MaxFaults

NetTypes ==
  /\ link \in {"open", "closed"}
  /\ inbox \in Seq(Frame)

OrderingTypes ==
  /\ mine \subseteq Request \cap sent
  /\ sent \subseteq Transaction
  /\ replied \subseteq sent
  /\ log \in Seq(Seq(Transaction))

LEMMA TypeParts ==
  TypeOK <=> RequestTypes /\ ListenerTypes /\ StoreTypes /\ NetTypes /\ OrderingTypes
BY DEF TypeOK, RequestTypes, ListenerTypes, StoreTypes, NetTypes, OrderingTypes, Starting

LEMMA Distinct ==
  /\ None \notin Request
  /\ Request \subseteq Transaction /\ Foreign \subseteq Transaction
  /\ \A t \in Transaction : ClientOf[t] \in Client
BY RuntimeAssumption DEF Transaction, Client

\* A frame put on the websocket, or not.
LEMMA EmitTypes ==
  ASSUME NEW f \in Frame, inbox \in Seq(Frame), Emit(f)
  PROVE  inbox' \in Seq(Frame)
BY DEF Emit

LEMMA FrameTypes ==
  ASSUME NEW txs \in Seq(Transaction), NEW ack \in BOOLEAN, NEW id \in Transaction
  PROVE  [txs |-> txs, ack |-> ack, id |-> id] \in Frame
BY DEF Frame

LEMMA DiskTypes ==
  ASSUME NEW whole \in BOOLEAN, NEW txs \in Seq(Transaction)
  PROVE  [whole |-> whole, store |-> txs] \in [whole : BOOLEAN, store : Seq(Transaction)]
OBVIOUS

\* What OrderingBlock makes of a choice of answered transactions is a block.
LEMMA BlockTypes ==
  ASSUME TypeOK, NEW t \in sent, NEW n \in Nat, NEW s \in [1 .. n -> replied \ Logged]
  PROVE  Append(s, t) \in Seq(Transaction)
<1>1. s \in Seq(Transaction)
  BY DEF TypeOK
<1>2. t \in Transaction
  BY DEF TypeOK
<1> QED
  BY <1>1, <1>2

LEMMA TypeInit == Init => TypeOK
<1> SUFFICES ASSUME Init PROVE TypeOK
  OBVIOUS
<1>1. RequestTypes
  BY Distinct DEF Init, RequestTypes, Busy, Answers
<1>2. disk \in [whole : BOOLEAN, store : Seq(Transaction)]
  <2>1. <<>> \in Seq(Transaction)
    OBVIOUS
  <2> QED
    BY <2>1, DiskTypes DEF Init
<1>3. ListenerTypes /\ StoreTypes /\ NetTypes /\ OrderingTypes
  BY <1>2, Distinct, RuntimeAssumption
  DEF Init, ListenerTypes, StoreTypes, NetTypes, OrderingTypes
<1> QED
  BY <1>1, <1>3, TypeParts

\* Steps keep the types of the requests' variables, ...
LEMMA RequestNext == TypeOK /\ [Next]_vars => RequestTypes'
<1> SUFFICES ASSUME TypeOK, [Next]_vars PROVE RequestTypes'
  OBVIOUS
<1> USE TypeParts, Distinct
    DEF RequestTypes, ListenerTypes, Busy, Answers, Frame, requestVars,
        listenerVars, netVars, orderingVars
<1>1. ASSUME NEW r \in Request, Arrive(r) PROVE RequestTypes'
  BY <1>1 DEF Arrive
<1>2. ASSUME NEW r \in Request, Lock(r) \/ UseWasmFunction(r) PROVE RequestTypes'
  BY <1>2 DEF Lock, UseWasmFunction
<1>3. ASSUME NEW r \in Request, Send(r) PROVE RequestTypes'
  BY <1>3 DEF Send
<1>4. ASSUME NEW r \in Request, TimeOut(r) PROVE RequestTypes'
  BY <1>4 DEF TimeOut
<1>5. ASSUME NEW r \in Request, Deliver(r) PROVE RequestTypes'
  BY <1>5 DEF Deliver
<1>6. CASE ListenRead
  BY <1>6 DEF ListenRead, IsBlock, Written
<1>7. CASE ListenError
  BY <1>7 DEF ListenError
<1>8. CASE Apply
  BY <1>8 DEF Apply
<1>9. CASE SaveBegin
  BY <1>9 DEF SaveBegin
<1>10. CASE SaveEnd
  BY <1>10 DEF SaveEnd
<1>11. CASE Match
  BY <1>11 DEF Match
<1>12. CASE Delete
  BY <1>12 DEF Delete
<1>13. ASSUME NEW t \in Transaction, OrderingAck(t) PROVE RequestTypes'
  BY <1>13 DEF OrderingAck, Emit
<1>14. ASSUME NEW t \in Transaction, OrderingBlock(t) PROVE RequestTypes'
  BY <1>14 DEF OrderingBlock, Emit
<1>15. CASE Disconnect
  BY <1>15 DEF Disconnect
<1>16. CASE Crash
  BY <1>16 DEF Crash
<1>17. CASE MakeFile \/ MakeEnd \/ Start
  BY <1>17 DEF MakeFile, MakeEnd, Start
<1>18. CASE UNCHANGED vars
  BY <1>18 DEF vars
<1> QED
  BY <1>1, <1>2, <1>3, <1>4, <1>5, <1>6, <1>7, <1>8, <1>9, <1>10,
     <1>11, <1>12, <1>13, <1>14, <1>15, <1>16, <1>17, <1>18
  DEF Next, SetHandler, Listener, Idle

\* ... of the listener's, ...
LEMMA ListenerNext == TypeOK /\ [Next]_vars => ListenerTypes'
<1> SUFFICES ASSUME TypeOK, [Next]_vars PROVE ListenerTypes'
  OBVIOUS
<1> USE TypeParts, Distinct
    DEF ListenerTypes, NetTypes, requestVars,
        listenerVars, netVars, orderingVars
<1>1. ASSUME NEW r \in Request, Arrive(r) PROVE ListenerTypes'
  BY <1>1 DEF Arrive
<1>2. ASSUME NEW r \in Request, Lock(r) \/ UseWasmFunction(r) PROVE ListenerTypes'
  BY <1>2 DEF Lock, UseWasmFunction
<1>3. ASSUME NEW r \in Request, Send(r) PROVE ListenerTypes'
  BY <1>3 DEF Send
<1>4. ASSUME NEW r \in Request, TimeOut(r) PROVE ListenerTypes'
  BY <1>4 DEF TimeOut
<1>5. ASSUME NEW r \in Request, Deliver(r) PROVE ListenerTypes'
  BY <1>5 DEF Deliver
<1>6. CASE ListenRead
  <2>1. Head(inbox) \in Frame
    BY <1>6 DEF ListenRead
  <2> QED
    BY <1>6, <2>1 DEF ListenRead, IsBlock, Written, Frame
<1>7. CASE ListenError
  BY <1>7 DEF ListenError
<1>8. CASE Apply
  <2>1. frame \in Frame
    BY <1>8 DEF Apply
  <2>2. frame.txs # <<>> => Tail(frame.txs) \in Seq(Transaction)
    BY <2>1 DEF Frame
  <2> QED
    BY <1>8, <2>1, <2>2 DEF Apply, Frame
<1>9. CASE SaveBegin
  BY <1>9 DEF SaveBegin
<1>10. CASE SaveEnd
  BY <1>10 DEF SaveEnd
<1>11. CASE Match
  BY <1>11 DEF Match
<1>12. CASE Delete
  BY <1>12 DEF Delete
<1>13. ASSUME NEW t \in Transaction, OrderingAck(t) PROVE ListenerTypes'
  BY <1>13 DEF OrderingAck, Emit
<1>14. ASSUME NEW t \in Transaction, OrderingBlock(t) PROVE ListenerTypes'
  BY <1>14 DEF OrderingBlock, Emit
<1>15. CASE Disconnect
  BY <1>15 DEF Disconnect
<1>16. CASE Crash
  BY <1>16 DEF Crash
<1>17. CASE MakeFile \/ MakeEnd \/ Start
  BY <1>17 DEF MakeFile, MakeEnd, Start
<1>18. CASE UNCHANGED vars
  BY <1>18 DEF vars
<1> QED
  BY <1>1, <1>2, <1>3, <1>4, <1>5, <1>6, <1>7, <1>8, <1>9, <1>10,
     <1>11, <1>12, <1>13, <1>14, <1>15, <1>16, <1>17, <1>18
  DEF Next, SetHandler, Listener, Idle

\* ... of the Store and its file, ...
LEMMA StoreNext == TypeOK /\ [Next]_vars => StoreTypes'
<1> SUFFICES ASSUME TypeOK, [Next]_vars PROVE StoreTypes'
  OBVIOUS
<1> USE TypeParts, RuntimeAssumption
    DEF StoreTypes, ListenerTypes, requestVars,
        listenerVars, netVars, orderingVars
<1>1. ASSUME NEW r \in Request, Arrive(r) PROVE StoreTypes'
  BY <1>1 DEF Arrive
<1>2. ASSUME NEW r \in Request, Lock(r) \/ UseWasmFunction(r) PROVE StoreTypes'
  BY <1>2 DEF Lock, UseWasmFunction
<1>3. ASSUME NEW r \in Request, Send(r) PROVE StoreTypes'
  BY <1>3 DEF Send
<1>4. ASSUME NEW r \in Request, TimeOut(r) PROVE StoreTypes'
  BY <1>4 DEF TimeOut
<1>5. ASSUME NEW r \in Request, Deliver(r) PROVE StoreTypes'
  BY <1>5 DEF Deliver
<1>6. CASE ListenRead
  BY <1>6 DEF ListenRead, IsBlock, Written
<1>7. CASE ListenError
  BY <1>7 DEF ListenError
<1>8. CASE Apply
  <2>1. frame.txs \in Seq(Transaction)
    BY <1>8 DEF Apply, Frame
  <2>2. frame.txs # <<>> => Head(frame.txs) \in Transaction
    BY <2>1
  <2>3. Store \in Seq(Transaction)
    OBVIOUS
  <2>4. CASE frame.txs = <<>>
    BY <1>8, <2>3, <2>4 DEF Apply
  <2>5. CASE frame.txs # <<>>
    <3> DEFINE tx == Head(frame.txs)
    <3>1. tx \in Transaction
      BY <2>2, <2>5
    <3>2. Store' = Append(Store, tx)
      BY <1>8, <2>5 DEF Apply
    <3> HIDE DEF tx
    <3>3. Store' \in Seq(Transaction)
      BY <2>3, <3>1, <3>2
    <3> QED
      BY <1>8, <3>3 DEF Apply
  <2> QED
    BY <2>4, <2>5
<1>9. CASE SaveBegin
  <2>1. faults' \in 0 .. MaxFaults
    BY <1>9 DEF SaveBegin
  <2>2. <<>> \in Seq(Transaction)
    OBVIOUS
  <2>3. disk' = disk \/ disk' = [whole |-> FALSE, store |-> <<>>]
    BY <1>9 DEF SaveBegin
  <2>4. disk' \in [whole : BOOLEAN, store : Seq(Transaction)]
    BY <2>2, <2>3, DiskTypes
  <2> QED
    BY <1>9, <2>1, <2>4 DEF SaveBegin
<1>10. CASE SaveEnd
  <2>1. faults' \in 0 .. MaxFaults
    BY <1>10 DEF SaveEnd
  <2>2. Store \in Seq(Transaction)
    OBVIOUS
  <2>3. disk' = disk \/ disk' = [whole |-> TRUE, store |-> Store]
    BY <1>10 DEF SaveEnd
  <2>4. disk' \in [whole : BOOLEAN, store : Seq(Transaction)]
    BY <2>2, <2>3, DiskTypes
  <2> QED
    BY <1>10, <2>1, <2>4 DEF SaveEnd
<1>11. CASE Match
  BY <1>11 DEF Match
<1>12. CASE Delete
  BY <1>12 DEF Delete
<1>13. ASSUME NEW t \in Transaction, OrderingAck(t) PROVE StoreTypes'
  BY <1>13 DEF OrderingAck, Emit
<1>14. ASSUME NEW t \in Transaction, OrderingBlock(t) PROVE StoreTypes'
  BY <1>14 DEF OrderingBlock, Emit
<1>15. CASE Disconnect
  BY <1>15 DEF Disconnect
<1>16. CASE Crash
  BY <1>16 DEF Crash
<1>17. CASE MakeEnd
  <2>1. faults' \in 0 .. MaxFaults
    BY <1>17 DEF MakeEnd
  <2>2. Store \in Seq(Transaction)
    OBVIOUS
  <2>3. disk' = disk \/ disk' = [whole |-> TRUE, store |-> Store]
    BY <1>17 DEF MakeEnd
  <2>4. disk' \in [whole : BOOLEAN, store : Seq(Transaction)]
    BY <2>2, <2>3, DiskTypes
  <2> QED
    BY <1>17, <2>1, <2>4 DEF MakeEnd
<1>18. CASE MakeFile \/ Start
  BY <1>18 DEF MakeFile, Start
<1>19. CASE UNCHANGED vars
  BY <1>19 DEF vars
<1> QED
  BY <1>1, <1>2, <1>3, <1>4, <1>5, <1>6, <1>7, <1>8, <1>9, <1>10,
     <1>11, <1>12, <1>13, <1>14, <1>15, <1>16, <1>17, <1>18, <1>19
  DEF Next, SetHandler, Listener, Idle

\* ... of the websocket ...
LEMMA NetNext == TypeOK /\ [Next]_vars => NetTypes'
<1> SUFFICES ASSUME TypeOK, [Next]_vars PROVE NetTypes'
  OBVIOUS
<1> USE TypeParts, Distinct
    DEF NetTypes, requestVars,
        listenerVars, netVars, orderingVars
<1>1. ASSUME NEW r \in Request, Arrive(r) PROVE NetTypes'
  BY <1>1 DEF Arrive
<1>2. ASSUME NEW r \in Request, Lock(r) \/ UseWasmFunction(r) PROVE NetTypes'
  BY <1>2 DEF Lock, UseWasmFunction
<1>3. ASSUME NEW r \in Request, Send(r) PROVE NetTypes'
  BY <1>3 DEF Send
<1>4. ASSUME NEW r \in Request, TimeOut(r) PROVE NetTypes'
  BY <1>4 DEF TimeOut
<1>5. ASSUME NEW r \in Request, Deliver(r) PROVE NetTypes'
  BY <1>5 DEF Deliver
<1>6. CASE ListenRead
  BY <1>6 DEF ListenRead, IsBlock, Written
<1>7. CASE ListenError
  BY <1>7 DEF ListenError
<1>8. CASE Apply
  BY <1>8 DEF Apply
<1>9. CASE SaveBegin
  BY <1>9 DEF SaveBegin
<1>10. CASE SaveEnd
  BY <1>10 DEF SaveEnd
<1>11. CASE Match
  BY <1>11 DEF Match
<1>12. CASE Delete
  BY <1>12 DEF Delete
<1>13. ASSUME NEW t \in Transaction, OrderingAck(t) PROVE NetTypes'
  <2>1. [txs |-> <<>>, ack |-> TRUE, id |-> t] \in Frame
    <3>1. <<>> \in Seq(Transaction)
      OBVIOUS
    <3> QED
      BY <3>1, FrameTypes
  <2> QED
    BY <1>13, <2>1, EmitTypes DEF OrderingAck
<1>14. ASSUME NEW t \in Transaction, OrderingBlock(t) PROVE NetTypes'
  <2>1. PICK n \in 0 .. MaxBlock - 1 : \E s \in [1 .. n -> replied \ Logged] :
                 Emit([txs |-> Append(s, t), ack |-> FALSE, id |-> t])
    BY <1>14 DEF OrderingBlock
  <2>2. PICK s \in [1 .. n -> replied \ Logged] :
                 Emit([txs |-> Append(s, t), ack |-> FALSE, id |-> t])
    BY <2>1
  <2>3. n \in Nat /\ t \in sent
    BY <1>14, RuntimeAssumption DEF OrderingBlock
  <2>4. Append(s, t) \in Seq(Transaction)
    BY <2>3, BlockTypes
  <2>5. [txs |-> Append(s, t), ack |-> FALSE, id |-> t] \in Frame
    BY <2>4, FrameTypes
  <2> QED
    BY <1>14, <2>2, <2>5, EmitTypes DEF OrderingBlock
<1>15. CASE Disconnect
  <2>1. \A n \in 0 .. Len(inbox) : SubSeq(inbox, 1, n) \in Seq(Frame)
    OBVIOUS
  <2> QED
    BY <1>15, <2>1 DEF Disconnect
<1>16. CASE Crash
  BY <1>16 DEF Crash
<1>17. CASE MakeFile \/ MakeEnd \/ Start
  BY <1>17 DEF MakeFile, MakeEnd, Start
<1>18. CASE UNCHANGED vars
  BY <1>18 DEF vars
<1> QED
  BY <1>1, <1>2, <1>3, <1>4, <1>5, <1>6, <1>7, <1>8, <1>9, <1>10,
     <1>11, <1>12, <1>13, <1>14, <1>15, <1>16, <1>17, <1>18
  DEF Next, SetHandler, Listener, Idle

\* ... and of the ordering service.
LEMMA OrderingNext == TypeOK /\ [Next]_vars => OrderingTypes'
<1> SUFFICES ASSUME TypeOK, [Next]_vars PROVE OrderingTypes'
  OBVIOUS
<1> USE TypeParts, Distinct
    DEF OrderingTypes, requestVars,
        listenerVars, netVars, orderingVars
<1>1. ASSUME NEW r \in Request, Arrive(r) PROVE OrderingTypes'
  BY <1>1 DEF Arrive
<1>2. ASSUME NEW r \in Request, Lock(r) \/ UseWasmFunction(r) PROVE OrderingTypes'
  BY <1>2 DEF Lock, UseWasmFunction
<1>3. ASSUME NEW r \in Request, Send(r) PROVE OrderingTypes'
  BY <1>3 DEF Send
<1>4. ASSUME NEW r \in Request, TimeOut(r) PROVE OrderingTypes'
  BY <1>4 DEF TimeOut
<1>5. ASSUME NEW r \in Request, Deliver(r) PROVE OrderingTypes'
  BY <1>5 DEF Deliver
<1>6. CASE ListenRead
  BY <1>6 DEF ListenRead, IsBlock, Written
<1>7. CASE ListenError
  BY <1>7 DEF ListenError
<1>8. CASE Apply
  BY <1>8 DEF Apply
<1>9. CASE SaveBegin
  BY <1>9 DEF SaveBegin
<1>10. CASE SaveEnd
  BY <1>10 DEF SaveEnd
<1>11. CASE Match
  BY <1>11 DEF Match
<1>12. CASE Delete
  BY <1>12 DEF Delete
<1>13. ASSUME NEW t \in Transaction, OrderingAck(t) PROVE OrderingTypes'
  BY <1>13 DEF OrderingAck, Emit
<1>14. ASSUME NEW t \in Transaction, OrderingBlock(t) PROVE OrderingTypes'
  BY <1>14 DEF OrderingBlock, Emit
<1>15. CASE Disconnect
  BY <1>15 DEF Disconnect
<1>16. CASE Crash
  BY <1>16 DEF Crash
<1>17. CASE MakeFile \/ MakeEnd \/ Start
  BY <1>17 DEF MakeFile, MakeEnd, Start
<1>18. CASE UNCHANGED vars
  BY <1>18 DEF vars
<1> QED
  BY <1>1, <1>2, <1>3, <1>4, <1>5, <1>6, <1>7, <1>8, <1>9, <1>10,
     <1>11, <1>12, <1>13, <1>14, <1>15, <1>16, <1>17, <1>18
  DEF Next, SetHandler, Listener, Idle

LEMMA TypeNext == TypeOK /\ [Next]_vars => TypeOK'
<1>1. TypeOK' <=> /\ RequestTypes' /\ ListenerTypes' /\ StoreTypes'
                  /\ NetTypes' /\ OrderingTypes'
  BY DEF TypeOK, RequestTypes, ListenerTypes, StoreTypes, NetTypes, OrderingTypes, Starting
<1> QED
  BY <1>1, RequestNext, ListenerNext, StoreNext, NetNext, OrderingNext

\* Every reachable state is well typed: the mutex is held by the request
\* between Lock and Unlock, and the listener has a message while it works.
THEOREM RuntimeTypes == Spec => []TypeOK
BY TypeInit, TypeNext, PTL DEF Spec

-----------------------------------------------------------------------------
\* A step that reads, matches or answers leaves Store and file as the save
\* made them.
LEMMA SavedNext == TypeOK /\ SavedBeforeAnswer /\ [Next]_vars => SavedBeforeAnswer'
<1> SUFFICES ASSUME TypeOK, SavedBeforeAnswer, [Next]_vars PROVE SavedBeforeAnswer'
  OBVIOUS
<1> USE DEF SavedBeforeAnswer, TypeOK, requestVars, listenerVars, netVars, orderingVars
<1>1. ASSUME NEW r \in Request, Arrive(r) PROVE SavedBeforeAnswer'
  BY <1>1 DEF Arrive
<1>2. ASSUME NEW r \in Request, Lock(r) \/ UseWasmFunction(r) PROVE SavedBeforeAnswer'
  BY <1>2 DEF Lock, UseWasmFunction
<1>3. ASSUME NEW r \in Request, Send(r) PROVE SavedBeforeAnswer'
  BY <1>3 DEF Send
<1>4. ASSUME NEW r \in Request, TimeOut(r) PROVE SavedBeforeAnswer'
  BY <1>4 DEF TimeOut
<1>5. ASSUME NEW r \in Request, Deliver(r) PROVE SavedBeforeAnswer'
  BY <1>5 DEF Deliver
<1>6. CASE ListenRead
  BY <1>6 DEF ListenRead, IsBlock, Written
<1>7. CASE ListenError
  BY <1>7 DEF ListenError
<1>8. CASE Apply
  BY <1>8 DEF Apply
<1>9. CASE SaveBegin
  BY <1>9 DEF SaveBegin
<1>10. CASE SaveEnd
  BY <1>10 DEF SaveEnd
<1>11. CASE Match
  BY <1>11 DEF Match
<1>12. CASE Delete
  BY <1>12 DEF Delete
<1>13. ASSUME NEW t \in Transaction, OrderingAck(t) PROVE SavedBeforeAnswer'
  BY <1>13 DEF OrderingAck, Emit
<1>14. ASSUME NEW t \in Transaction, OrderingBlock(t) PROVE SavedBeforeAnswer'
  BY <1>14 DEF OrderingBlock, Emit
<1>15. CASE Disconnect
  BY <1>15 DEF Disconnect
<1>16. CASE Crash
  BY <1>16 DEF Crash
<1>17. CASE Start
  <2>1. disk = [whole |-> TRUE, store |-> disk.store]
    BY <1>17 DEF Start
  <2> QED
    BY <1>17, <2>1 DEF Start
<1>18. CASE MakeFile \/ MakeEnd
  BY <1>18 DEF MakeFile, MakeEnd
<1>19. CASE UNCHANGED vars
  BY <1>19 DEF vars
<1> QED
  BY <1>1, <1>2, <1>3, <1>4, <1>5, <1>6, <1>7, <1>8, <1>9, <1>10,
     <1>11, <1>12, <1>13, <1>14, <1>15, <1>16, <1>17, <1>18, <1>19
  DEF Next, SetHandler, Listener, Idle

\* The block a request completed is on disk before the request is answered,
\* while no save fails.
THEOREM SaveComesFirst == Spec => []SavedBeforeAnswer
<1>1. Init => SavedBeforeAnswer
  BY DEF Init, SavedBeforeAnswer
<1> QED
  BY <1>1, SavedNext, RuntimeTypes, PTL DEF Spec

-----------------------------------------------------------------------------
(***************************************************************************)
(* Blocks in the Store and in its file.                                    *)
(***************************************************************************)
Members(s) == {s[i] : i \in DOMAIN s}

\* Block b is among the transactions in S or has none there.
WholeIn(S, b) == Members(log[b]) \subseteq S \/ Members(log[b]) \cap S = {}

\* What the service answered for is answered for once: blocks are disjoint,
\* and what is stored anywhere was in one.
LogInv ==
  /\ Logged \subseteq replied
  /\ \A b, c \in DOMAIN log : b # c => Members(log[b]) \cap Members(log[c]) = {}
  /\ Members(Store) \subseteq Logged
  /\ Members(disk.store) \subseteq Logged

\* A block on the websocket is one of the log.
InboxInv ==
  \A k \in DOMAIN inbox : ~inbox[k].ack => \E b \in DOMAIN log : inbox[k].txs = log[b]

\* While a block is applied, what it still lacks is what is left of the frame.
BeingApplied(b) ==
  /\ Members(frame.txs) \subseteq Members(log[b])
  /\ Members(log[b]) \ Members(frame.txs) \subseteq Members(Store)

ApplyInv ==
  IF listener = "apply"
    THEN \E b \in DOMAIN log :
           /\ BeingApplied(b)
           /\ \A c \in DOMAIN log \ {b} : WholeIn(Members(Store), c)
    ELSE \A c \in DOMAIN log : WholeIn(Members(Store), c)

DiskInv == disk.whole => \A c \in DOMAIN log : WholeIn(Members(disk.store), c)

WholeInv == LogInv /\ InboxInv /\ ApplyInv /\ DiskInv

LEMMA LoggedMembers == Logged = UNION {Members(log[b]) : b \in DOMAIN log}
BY DEF Logged, Members

\* A new block has one transaction that was not answered, and others that
\* were and that no block has.
LEMMA BlockAdded ==
  ASSUME TypeOK, NEW t \in Transaction, OrderingBlock(t)
  PROVE  \E blk \in Seq(Transaction) :
           /\ log' = Append(log, blk)
           /\ Members(blk) \subseteq (replied \ Logged) \cup {t}
           /\ \/ inbox' = inbox
              \/ inbox' = Append(inbox, [txs |-> blk, ack |-> FALSE, id |-> t])
<1>1. PICK n \in 0 .. MaxBlock - 1 : \E s \in [1 .. n -> replied \ Logged] :
        /\ log' = Append(log, Append(s, t))
        /\ Emit([txs |-> Append(s, t), ack |-> FALSE, id |-> t])
  BY DEF OrderingBlock
<1>2. PICK s \in [1 .. n -> replied \ Logged] :
        /\ log' = Append(log, Append(s, t))
        /\ Emit([txs |-> Append(s, t), ack |-> FALSE, id |-> t])
  BY <1>1
<1> DEFINE blk == Append(s, t)
<1>3. n \in Nat /\ t \in sent
  BY RuntimeAssumption DEF OrderingBlock
<1>4. blk \in Seq(Transaction)
  BY <1>3, BlockTypes
<1>5. Members(blk) \subseteq (replied \ Logged) \cup {t}
  <2>1. s \in Seq(replied \ Logged) /\ Len(s) = n
    BY <1>3
  <2>2. \A i \in DOMAIN blk : blk[i] \in (replied \ Logged) \cup {t}
    BY <1>3, <2>1
  <2> QED
    BY <2>2 DEF Members
<1>6. \/ inbox' = inbox
      \/ inbox' = Append(inbox, [txs |-> blk, ack |-> FALSE, id |-> t])
  BY <1>2 DEF Emit
<1> QED
  BY <1>2, <1>4, <1>5, <1>6

\* It leaves the other blocks as they are.
LEMMA LogGrows ==
  ASSUME NEW blk \in Seq(Transaction), log \in Seq(Seq(Transaction)),
         log' = Append(log, blk)
  PROVE  /\ DOMAIN log' = DOMAIN log \cup {Len(log) + 1}
         /\ Len(log) + 1 \notin DOMAIN log
         /\ \A b \in DOMAIN log : log'[b] = log[b]
         /\ log'[Len(log) + 1] = blk
         /\ Logged' = Logged \cup Members(blk)
<1>1. /\ DOMAIN log' = DOMAIN log \cup {Len(log) + 1}
      /\ Len(log) + 1 \notin DOMAIN log
      /\ \A b \in DOMAIN log : log'[b] = log[b]
      /\ log'[Len(log) + 1] = blk
  OBVIOUS
<1>2. Logged' = UNION {Members(log'[b]) : b \in DOMAIN log'}
  BY DEF Logged, Members
<1> QED
  BY <1>1, <1>2, LoggedMembers

LEMMA WholeInit == Init => WholeInv
<1> SUFFICES ASSUME Init PROVE WholeInv
  OBVIOUS
<1>1. log = <<>> /\ inbox = <<>> /\ Store = <<>> /\ disk.store = <<>> /\ listener # "apply"
  BY DEF Init
<1>2. Members(<<>>) = {} /\ Logged = {} /\ DOMAIN log = {} /\ DOMAIN inbox = {}
  BY <1>1 DEF Members, Logged
<1> QED
  BY <1>1, <1>2 DEF WholeInv, LogInv, InboxInv, ApplyInv, DiskInv

\* The round of the loop that writes one transaction.
LEMMA ApplyMembers ==
  ASSUME TypeOK, Apply, frame.txs # <<>>
  PROVE  /\ Members(Store') = Members(Store) \cup {Head(frame.txs)}
         /\ Members(frame.txs) = {Head(frame.txs)} \cup Members(frame'.txs)
<1>1. frame.txs \in Seq(Transaction) /\ Store \in Seq(Transaction)
  BY DEF TypeOK, Starting, Apply, Frame
<1>2. Store' = Append(Store, Head(frame.txs))
  BY DEF Apply
<1>3. frame'.txs = Tail(frame.txs)
  BY DEF Apply, TypeOK, Starting, Frame
<1>4. Members(Append(Store, Head(frame.txs))) = Members(Store) \cup {Head(frame.txs)}
  <2> DEFINE tx == Head(frame.txs)
  <2> HIDE DEF tx
  <2>1. /\ DOMAIN Append(Store, tx) = DOMAIN Store \cup {Len(Store) + 1}
        /\ \A i \in DOMAIN Store : Append(Store, tx)[i] = Store[i]
        /\ Append(Store, tx)[Len(Store) + 1] = tx
    BY <1>1
  <2>2. Members(Append(Store, tx)) = Members(Store) \cup {tx}
    BY <2>1 DEF Members
  <2> QED
    BY <2>2 DEF tx
<1>5. Members(frame.txs) = {Head(frame.txs)} \cup Members(Tail(frame.txs))
  <2> DEFINE txs == frame.txs
  <2>1. txs \in Seq(Transaction) /\ txs # <<>>
    BY <1>1
  <2> HIDE DEF txs
  <2>2. /\ Len(txs) \in Nat \ {0} /\ DOMAIN txs = 1 .. Len(txs)
        /\ DOMAIN Tail(txs) = 1 .. Len(txs) - 1
        /\ \A i \in 1 .. Len(txs) - 1 : Tail(txs)[i] = txs[i + 1]
        /\ Head(txs) = txs[1]
    BY <2>1
  <2>3. ASSUME NEW i \in DOMAIN txs, i # 1
        PROVE  i - 1 \in DOMAIN Tail(txs) /\ txs[i] = Tail(txs)[i - 1]
    <3>1. i - 1 \in 1 .. Len(txs) - 1 /\ (i - 1) + 1 = i
      BY <2>2, <2>3
    <3> QED
      BY <2>2, <3>1
  <2>4. Members(txs) \subseteq {Head(txs)} \cup Members(Tail(txs))
    BY <2>2, <2>3 DEF Members
  <2>5. \A i \in DOMAIN Tail(txs) : i + 1 \in DOMAIN txs /\ Tail(txs)[i] = txs[i + 1]
    BY <2>2
  <2>6. {Head(txs)} \cup Members(Tail(txs)) \subseteq Members(txs)
    <3>1. 1 \in DOMAIN txs
      BY <2>2
    <3> QED
      BY <2>2, <2>5, <3>1 DEF Members
  <2>7. Members(txs) = {Head(txs)} \cup Members(Tail(txs))
    BY <2>4, <2>6
  <2> QED
    BY <2>7 DEF txs
<1> QED
  BY <1>2, <1>3, <1>4, <1>5

\* Steps that leave the log alone.
LEMMA SameLog ==
  ASSUME log' = log
  PROVE  Logged' = Logged
BY DEF Logged

\* A block that is added has nothing of what is stored.
LEMMA NewBlock ==
  ASSUME TypeOK, LogInv, NEW t \in Transaction, OrderingBlock(t),
         NEW blk \in Seq(Transaction), log' = Append(log, blk),
         Members(blk) \subseteq (replied \ Logged) \cup {t}
  PROVE  /\ Members(blk) \cap Logged = {}
         /\ Members(blk) \subseteq replied'
BY DEF OrderingBlock, LogInv

\* Steps keep blocks disjoint, and what is stored in the log, ...
LEMMA LogNext == TypeOK /\ WholeInv /\ [Next]_vars => LogInv'
<1> SUFFICES ASSUME TypeOK, WholeInv, [Next]_vars PROVE LogInv'
  OBVIOUS
<1> USE DEF WholeInv
<1>1. ASSUME NEW t \in Transaction, OrderingBlock(t) PROVE LogInv'
  <2>1. PICK blk \in Seq(Transaction) :
          /\ log' = Append(log, blk)
          /\ Members(blk) \subseteq (replied \ Logged) \cup {t}
    BY <1>1, BlockAdded
  <2>2. /\ DOMAIN log' = DOMAIN log \cup {Len(log) + 1}
        /\ Len(log) + 1 \notin DOMAIN log
        /\ \A b \in DOMAIN log : log'[b] = log[b]
        /\ log'[Len(log) + 1] = blk
        /\ Logged' = Logged \cup Members(blk)
    BY <2>1, LogGrows DEF TypeOK
  <2>3. Members(blk) \cap Logged = {} /\ Members(blk) \subseteq replied'
    BY <1>1, <2>1, NewBlock
  <2>4. replied \subseteq replied' /\ Store' = Store /\ disk' = disk
    BY <1>1 DEF OrderingBlock, listenerVars
  <2>5. \A b \in DOMAIN log : Members(log[b]) \cap Members(blk) = {}
    BY <2>3, LoggedMembers
  <2>6. \A b, c \in DOMAIN log' : b # c => Members(log'[b]) \cap Members(log'[c]) = {}
    BY <2>2, <2>5 DEF LogInv
  <2> QED
    BY <2>2, <2>3, <2>4, <2>6 DEF LogInv
<1>2. CASE Apply
  <2>1. log' = log /\ replied' = replied /\ disk' = disk /\ Logged' = Logged
    BY <1>2, SameLog DEF Apply, orderingVars
  <2>2. CASE frame.txs = <<>>
    BY <1>2, <2>1, <2>2 DEF Apply, LogInv
  <2>3. CASE frame.txs # <<>>
    <3>1. Members(Store') = Members(Store) \cup {Head(frame.txs)}
      BY <1>2, <2>3, ApplyMembers
    <3>2. Head(frame.txs) \in Members(frame.txs)
      BY <1>2, <2>3, ApplyMembers
    <3>3. Members(frame.txs) \subseteq Logged
      BY <1>2, LoggedMembers DEF Apply, ApplyInv, BeingApplied
    <3> QED
      BY <2>1, <3>1, <3>2, <3>3 DEF LogInv
  <2> QED
    BY <2>2, <2>3
<1>3. CASE SaveEnd \/ Crash \/ MakeFile \/ MakeEnd \/ Start
  <2>1. log' = log /\ replied' = replied /\ Logged' = Logged
    BY <1>3, SameLog DEF SaveEnd, Crash, MakeFile, MakeEnd, Start, orderingVars
  <2>2. Members(<<>>) = {}
    BY DEF Members
  <2>3. Store' \in {Store, disk.store, <<>>} /\ disk'.store \in {Store, disk.store}
    BY <1>3 DEF SaveEnd, Crash, MakeFile, MakeEnd, Start
  <2> QED
    BY <2>1, <2>2, <2>3 DEF LogInv
<1>4. CASE SaveBegin
  <2>1. log' = log /\ replied' = replied /\ Logged' = Logged /\ Store' = Store
    BY <1>4, SameLog DEF SaveBegin, orderingVars
  <2>2. Members(<<>>) = {}
    BY DEF Members
  <2>3. disk'.store \in {<<>>, disk.store}
    BY <1>4 DEF SaveBegin
  <2> QED
    BY <2>1, <2>2, <2>3 DEF LogInv
<1>5. ASSUME NEW t \in Transaction, OrderingAck(t) PROVE LogInv'
  <2>1. log' = log /\ Logged' = Logged /\ Store' = Store /\ disk' = disk
        /\ replied \subseteq replied'
    BY <1>5, SameLog DEF OrderingAck, listenerVars
  <2> QED
    BY <2>1 DEF LogInv
<1>6. CASE UNCHANGED <<log, replied, Store, disk>>
  BY <1>6, SameLog DEF LogInv
<1> QED
  BY <1>1, <1>2, <1>3, <1>4, <1>5, <1>6
  DEF Next, SetHandler, Listener, Arrive, Lock, UseWasmFunction, Send, TimeOut, Deliver,
      ListenRead,
      ListenError, Match, Delete, Disconnect, Idle, vars, listenerVars, orderingVars

\* ... the blocks on the websocket in the log, ...
LEMMA InboxNext == TypeOK /\ WholeInv /\ [Next]_vars => InboxInv'
<1> SUFFICES ASSUME TypeOK, WholeInv, [Next]_vars PROVE InboxInv'
  OBVIOUS
<1> USE DEF WholeInv, InboxInv
<1>0. inbox \in Seq(Frame) /\ log \in Seq(Seq(Transaction))
  BY DEF TypeOK
<1>1. ASSUME NEW t \in Transaction, OrderingBlock(t) PROVE InboxInv'
  <2>1. PICK blk \in Seq(Transaction) :
          /\ log' = Append(log, blk)
          /\ \/ inbox' = inbox
             \/ inbox' = Append(inbox, [txs |-> blk, ack |-> FALSE, id |-> t])
    BY <1>1, BlockAdded
  <2>2. /\ DOMAIN log' = DOMAIN log \cup {Len(log) + 1}
        /\ \A b \in DOMAIN log : log'[b] = log[b]
        /\ log'[Len(log) + 1] = blk
    BY <1>0, <2>1, LogGrows
  <2>3. CASE inbox' = inbox
    BY <2>2, <2>3
  <2>4. CASE inbox' = Append(inbox, [txs |-> blk, ack |-> FALSE, id |-> t])
    <3>1. ASSUME NEW k \in DOMAIN inbox'
          PROVE  (k \in DOMAIN inbox /\ inbox'[k] = inbox[k]) \/ inbox'[k].txs = blk
      BY <1>0, <2>4, <3>1
    <3> QED
      BY <2>2, <3>1
  <2> QED
    BY <2>1, <2>3, <2>4
<1>2. ASSUME NEW t \in Transaction, OrderingAck(t) PROVE InboxInv'
  <2>1. log' = log
    BY <1>2 DEF OrderingAck
  <2>2. \/ inbox' = inbox
        \/ inbox' = Append(inbox, [txs |-> <<>>, ack |-> TRUE, id |-> t])
    BY <1>2 DEF OrderingAck, Emit
  <2>3. ASSUME NEW k \in DOMAIN inbox'
        PROVE  (k \in DOMAIN inbox /\ inbox'[k] = inbox[k]) \/ inbox'[k].ack = TRUE
    BY <1>0, <2>2, <2>3
  <2> QED
    BY <2>1, <2>3
<1>3. CASE ListenRead
  <2>1. log' = log /\ inbox # <<>> /\ inbox' = Tail(inbox)
    BY <1>3 DEF ListenRead, orderingVars
  <2>2. ASSUME NEW k \in DOMAIN inbox'
        PROVE  k + 1 \in DOMAIN inbox /\ inbox'[k] = inbox[k + 1]
    BY <1>0, <2>1
  <2> QED
    BY <2>1, <2>2
<1>4. CASE Disconnect
  <2>1. PICK n \in 0 .. Len(inbox) : inbox' = SubSeq(inbox, 1, n)
    BY <1>4 DEF Disconnect
  <2>2. log' = log
    BY <1>4 DEF Disconnect, orderingVars
  <2>3. ASSUME NEW k \in DOMAIN inbox'
        PROVE  k \in DOMAIN inbox /\ inbox'[k] = inbox[k]
    BY <1>0, <2>1
  <2> QED
    BY <2>2, <2>3
<1>5. CASE log' = log /\ inbox' \in {inbox, <<>>}
  BY <1>5
<1> QED
  BY <1>1, <1>2, <1>3, <1>4, <1>5
  DEF Next, SetHandler, Listener, Arrive, Lock, UseWasmFunction, Send, TimeOut, Deliver,
      ListenError,
      Apply, SaveBegin, SaveEnd, Match, Delete, Crash, MakeFile, MakeEnd,
      Start, Idle, vars, netVars, orderingVars

\* A block that is being applied is so after a step that leaves it alone.
LEMMA SameFrame ==
  ASSUME NEW b, BeingApplied(b), frame' = frame, Store' = Store, log'[b] = log[b]
  PROVE  BeingApplied(b)'
<1>1. /\ Members(frame.txs)' = Members(frame.txs)
      /\ Members(log[b])' = Members(log[b])
      /\ Members(Store)' = Members(Store)
  BY DEF Members
<1> QED
  BY <1>1 DEF BeingApplied

\* ... blocks whole in the Store, but for the one being applied, ...
LEMMA ApplyNext == TypeOK /\ WholeInv /\ [Next]_vars => ApplyInv'
<1> SUFFICES ASSUME TypeOK, WholeInv, [Next]_vars PROVE ApplyInv'
  OBVIOUS
<1> USE DEF WholeInv
<1>1. ASSUME NEW t \in Transaction, OrderingBlock(t) PROVE ApplyInv'
  <2>1. PICK blk \in Seq(Transaction) :
          /\ log' = Append(log, blk)
          /\ Members(blk) \subseteq (replied \ Logged) \cup {t}
    BY <1>1, BlockAdded
  <2>2. PICK S : S = Members(Store)
    OBVIOUS
  <2>3. DOMAIN log \subseteq DOMAIN log' /\ \A c \in DOMAIN log : log'[c] = log[c]
    BY <2>1, LogGrows DEF TypeOK
  <2>4. Store' = Store /\ listener' = listener /\ frame' = frame /\ Members(Store)' = S
    BY <1>1, <2>2 DEF OrderingBlock, listenerVars, Members
  <2>5. \A c \in DOMAIN log : WholeIn(S, c) => WholeIn(S, c)'
    BY <2>3 DEF WholeIn, Members
  <2>6. \A c \in DOMAIN log' \ DOMAIN log : WholeIn(S, c)'
    <3>1. Members(blk) \cap Logged = {} /\ S \subseteq Logged
      BY <1>1, <2>1, <2>2, NewBlock DEF LogInv
    <3>2. ASSUME NEW c \in DOMAIN log' \ DOMAIN log PROVE log'[c] = blk
      BY <2>1, LogGrows DEF TypeOK
    <3> QED
      BY <3>1, <3>2 DEF WholeIn, Members
  <2>7. CASE listener = "apply"
    <3>1. PICK b \in DOMAIN log :
            /\ BeingApplied(b)
            /\ \A c \in DOMAIN log \ {b} : WholeIn(S, c)
      BY <2>2, <2>7 DEF ApplyInv
    <3>2. b \in DOMAIN log' /\ BeingApplied(b)'
      BY <2>3, <2>4, <3>1, SameFrame
    <3>3. \A c \in DOMAIN log' \ {b} : WholeIn(S, c)'
      BY <2>5, <2>6, <3>1
    <3>4. \A c \in DOMAIN log' \ {b} : WholeIn(Members(Store), c)'
      BY <2>4, <3>3 DEF WholeIn
    <3> QED
      BY <2>4, <2>7, <3>2, <3>4 DEF ApplyInv
  <2>8. CASE listener # "apply"
    <3>1. \A c \in DOMAIN log' : WholeIn(S, c)'
      BY <2>2, <2>5, <2>6, <2>8 DEF ApplyInv
    <3>2. \A c \in DOMAIN log' : WholeIn(Members(Store), c)'
      BY <2>4, <3>1 DEF WholeIn
    <3> QED
      BY <2>4, <2>8, <3>2 DEF ApplyInv
  <2> QED
    BY <2>7, <2>8
<1>2. CASE ListenRead
  <2>1. /\ log' = log /\ Store' = Store /\ listener = "read"
        /\ inbox # <<>> /\ frame' = [Head(inbox) EXCEPT !.txs = Head(inbox).txs]
        /\ listener' = IF IsBlock(Head(inbox)) THEN "apply" ELSE "match"
    BY <1>2 DEF ListenRead, Written, orderingVars
  <2>2. \A c \in DOMAIN log : WholeIn(Members(Store), c)
    BY <2>1 DEF ApplyInv
  <2>3. \A c \in DOMAIN log : WholeIn(Members(Store), c)'
    BY <2>1, <2>2 DEF WholeIn, Members
  <2>4. CASE ~IsBlock(Head(inbox))
    BY <2>1, <2>3, <2>4 DEF ApplyInv
  <2>5. CASE IsBlock(Head(inbox))
    <3>1. 1 \in DOMAIN inbox /\ Head(inbox) = inbox[1] /\ Head(inbox) \in Frame
      BY <2>1 DEF TypeOK
    <3>2. PICK b \in DOMAIN log : Head(inbox).txs = log[b]
      BY <2>5, <3>1 DEF InboxInv, IsBlock
    <3>3. frame'.txs = log[b]
      BY <2>1, <3>1, <3>2 DEF Frame
    <3>4. BeingApplied(b)'
      BY <2>1, <3>3 DEF BeingApplied, Members
    <3> QED
      BY <2>1, <2>3, <2>5, <3>4 DEF ApplyInv
  <2> QED
    BY <2>4, <2>5
<1>3. CASE Apply
  <2>1. log' = log /\ listener = "apply"
    BY <1>3 DEF Apply, orderingVars
  <2>2. PICK b \in DOMAIN log :
          /\ BeingApplied(b)
          /\ \A c \in DOMAIN log \ {b} : WholeIn(Members(Store), c)
    BY <2>1 DEF ApplyInv
  <2>3. CASE frame.txs = <<>>
    <3>1. Store' = Store /\ listener' = "save"
      BY <1>3, <2>3 DEF Apply
    <3>2. Members(frame.txs) = {}
      BY <2>3 DEF Members
    <3>3. \A c \in DOMAIN log : WholeIn(Members(Store), c)
      BY <2>2, <3>2 DEF BeingApplied, WholeIn
    <3>4. \A c \in DOMAIN log' : WholeIn(Members(Store), c)'
      BY <2>1, <3>1, <3>3 DEF WholeIn, Members
    <3> QED
      BY <3>1, <3>4 DEF ApplyInv
  <2>4. CASE frame.txs # <<>>
    <3>1. /\ Members(Store') = Members(Store) \cup {Head(frame.txs)}
          /\ Members(frame.txs) = {Head(frame.txs)} \cup Members(frame'.txs)
      BY <1>3, <2>4, ApplyMembers
    <3>2. listener' = "apply"
      BY <1>3, <2>1, <2>4 DEF Apply
    <3>3. /\ Members(frame'.txs) \subseteq Members(log[b])
          /\ Members(log[b]) \ Members(frame'.txs) \subseteq Members(Store')
      BY <2>2, <3>1 DEF BeingApplied
    <3>4. BeingApplied(b)'
      BY <2>1, <3>3 DEF BeingApplied, Members
    <3>5. ASSUME NEW c \in DOMAIN log \ {b} PROVE WholeIn(Members(Store), c)'
      <4>1. Head(frame.txs) \notin Members(log[c])
        BY <2>2, <3>1, <3>5 DEF BeingApplied, LogInv
      <4>2. WholeIn(Members(Store), c)
        BY <2>2, <3>5
      <4>3. \/ Members(log[c]) \subseteq Members(Store')
            \/ Members(log[c]) \cap Members(Store') = {}
        BY <3>1, <4>1, <4>2 DEF WholeIn
      <4> QED
        BY <2>1, <4>3 DEF WholeIn, Members
    <3> QED
      BY <2>1, <3>2, <3>4, <3>5 DEF ApplyInv
  <2> QED
    BY <2>3, <2>4
<1>4. CASE Crash
  <2>1. log' = log /\ Store' = <<>> /\ listener' = "down"
    BY <1>4 DEF Crash, orderingVars
  <2>2. \A c \in DOMAIN log' : WholeIn(Members(Store), c)'
    BY <2>1 DEF WholeIn, Members
  <2> QED
    BY <2>1, <2>2 DEF ApplyInv
<1>5. CASE Start
  <2>1. log' = log /\ Store' = disk.store /\ listener' = "read" /\ disk.whole
    BY <1>5 DEF Start, orderingVars
  <2>2. \A c \in DOMAIN log : WholeIn(Members(disk.store), c)
    BY <2>1 DEF DiskInv
  <2>3. \A c \in DOMAIN log' : WholeIn(Members(Store), c)'
    BY <2>1, <2>2 DEF WholeIn, Members
  <2> QED
    BY <2>1, <2>3 DEF ApplyInv
<1>6. CASE UNCHANGED <<log, Store, listener, frame>>
  <2>1. \A b \in DOMAIN log : BeingApplied(b) => BeingApplied(b)'
    BY <1>6, SameFrame
  <2>2. \A c : WholeIn(Members(Store), c) => WholeIn(Members(Store), c)'
    BY <1>6 DEF WholeIn, Members
  <2> QED
    BY <1>6, <2>1, <2>2 DEF ApplyInv
<1>7. CASE UNCHANGED <<log, Store>> /\ listener # "apply" /\ listener' # "apply"
  <2>1. \A c \in DOMAIN log : WholeIn(Members(Store), c)
    BY <1>7 DEF ApplyInv
  <2>2. \A c \in DOMAIN log' : WholeIn(Members(Store), c)'
    BY <1>7, <2>1 DEF WholeIn, Members
  <2> QED
    BY <1>7, <2>2 DEF ApplyInv
<1> QED
  BY <1>1, <1>2, <1>3, <1>4, <1>5, <1>6, <1>7
  DEF Next, SetHandler, Listener, Arrive, Lock, UseWasmFunction, Send, TimeOut, Deliver,
      ListenError,
      SaveBegin, SaveEnd, Match, Delete, OrderingAck, Disconnect, MakeFile, MakeEnd,
      Idle, vars, listenerVars, orderingVars

\* ... and whole in the file.
LEMMA DiskNext == TypeOK /\ WholeInv /\ [Next]_vars => DiskInv'
<1> SUFFICES ASSUME TypeOK, WholeInv, [Next]_vars PROVE DiskInv'
  OBVIOUS
<1> USE DEF WholeInv
<1>1. ASSUME NEW t \in Transaction, OrderingBlock(t) PROVE DiskInv'
  <2>1. PICK blk \in Seq(Transaction) :
          /\ log' = Append(log, blk)
          /\ Members(blk) \subseteq (replied \ Logged) \cup {t}
    BY <1>1, BlockAdded
  <2>2. disk' = disk
    BY <1>1 DEF OrderingBlock, listenerVars
  <2>3. Members(blk) \cap Members(disk.store) = {}
    BY <1>1, <2>1, NewBlock DEF LogInv
  <2>4. ASSUME disk.whole, NEW c \in DOMAIN log PROVE WholeIn(Members(disk.store), c)'
    <3>1. log'[c] = log[c]
      BY <2>1, LogGrows DEF TypeOK
    <3> QED
      BY <2>2, <2>4, <3>1 DEF DiskInv, WholeIn, Members
  <2>5. ASSUME NEW c \in DOMAIN log' \ DOMAIN log PROVE WholeIn(Members(disk.store), c)'
    <3>1. log'[c] = blk
      BY <2>1, LogGrows DEF TypeOK
    <3> QED
      BY <2>2, <2>3, <3>1 DEF WholeIn, Members
  <2> QED
    BY <2>2, <2>4, <2>5 DEF DiskInv
<1>2. CASE SaveEnd \/ MakeEnd
  <2>1. log' = log /\ listener # "apply"
    BY <1>2 DEF SaveEnd, MakeEnd, orderingVars
  <2>2. \A c \in DOMAIN log : WholeIn(Members(Store), c)
    BY <2>1 DEF ApplyInv
  <2>3. disk' = disk \/ disk' = [whole |-> TRUE, store |-> Store]
    BY <1>2 DEF SaveEnd, MakeEnd
  <2>4. CASE disk' = disk
    BY <2>1, <2>4 DEF DiskInv, WholeIn, Members
  <2>5. CASE disk' = [whole |-> TRUE, store |-> Store]
    BY <2>1, <2>2, <2>5 DEF DiskInv, WholeIn, Members
  <2> QED
    BY <2>3, <2>4, <2>5
<1>3. CASE SaveBegin
  <2>1. log' = log /\ (disk' = disk \/ ~disk'.whole)
    BY <1>3 DEF SaveBegin, orderingVars
  <2> QED
    BY <2>1 DEF DiskInv, WholeIn, Members
<1>4. CASE UNCHANGED <<log, disk>>
  BY <1>4 DEF DiskInv, WholeIn, Members
<1> QED
  BY <1>1, <1>2, <1>3, <1>4
  DEF Next, SetHandler, Listener, Arrive, Lock, UseWasmFunction, Send, TimeOut, Deliver,
      ListenRead,
      ListenError, Apply, Match, Delete, OrderingAck, Disconnect, Crash,
      MakeFile, Start, Idle, vars, listenerVars, orderingVars

\* A file that is whole holds each block whole or not at all, so that a
\* runtime starts from a state between two blocks.
THEOREM WholeBlocksOnDisk == Spec => []DiskHasWholeBlocks
<1>1. TypeOK /\ WholeInv /\ [Next]_vars => WholeInv'
  BY LogNext, InboxNext, ApplyNext, DiskNext DEF WholeInv
<1>2. WholeInv => DiskHasWholeBlocks
  BY DEF WholeInv, DiskInv, WholeIn, Members, DiskHasWholeBlocks
<1> QED
  BY <1>1, <1>2, WholeInit, RuntimeTypes, PTL DEF Spec

-----------------------------------------------------------------------------
(***************************************************************************)
(* The order of the Store.                                                 *)
(*                                                                         *)
(* What is in the Store comes, in the log, before what is left of the      *)
(* block that is applied, and that before every block on the websocket;    *)
(* these are in the order of the log themselves.  A runtime that is down   *)
(* has no websocket, so that what its file holds comes before what it will *)
(* be sent.                                                                *)
(***************************************************************************)
Left == IF listener = "apply" THEN frame.txs ELSE <<>>

InOrder(blocks, s) == \A i, j \in DOMAIN s : i < j => Precedes(blocks, s[i], s[j])

Before(blocks, S, T) == \A t \in S, u \in T : Precedes(blocks, t, u)

\* A block on the websocket, and those behind it.
BlockFits(blocks, k) ==
  /\ InOrder(blocks, inbox[k].txs)
  /\ Before(blocks, Members(Store), Members(inbox[k].txs))
  /\ Before(blocks, Members(Left), Members(inbox[k].txs))
  /\ \A l \in DOMAIN inbox :
       k < l /\ ~inbox[l].ack => Before(blocks, Members(inbox[k].txs), Members(inbox[l].txs))

OrderInv ==
  /\ InOrder(log, Store)
  /\ InOrder(log, disk.store)
  /\ InOrder(log, Left)
  /\ Before(log, Members(Store), Members(Left))
  /\ \A k \in DOMAIN inbox : ~inbox[k].ack => BlockFits(log, k)
  /\ listener \in {"new", "making", "down"} => inbox = <<>> /\ link = "closed"

\* A new block leaves the order of the others as it is, comes after them, and
\* has each transaction once.
LEMMA BlockInOrder ==
  ASSUME TypeOK, LogInv, NEW t \in Transaction, OrderingBlock(t)
  PROVE  \E blk \in Seq(Transaction) :
           /\ log' = Append(log, blk)
           /\ \/ inbox' = inbox
              \/ inbox' = Append(inbox, [txs |-> blk, ack |-> FALSE, id |-> t])
           /\ \A x, y \in Logged : Precedes(log, x, y) => Precedes(log', x, y)
           /\ Before(log', Logged, Members(blk))
           /\ InOrder(log', blk)
<1>1. PICK n \in 0 .. MaxBlock - 1 : \E s \in [1 .. n -> replied \ Logged] :
        /\ IsInjective(s)
        /\ log' = Append(log, Append(s, t))
        /\ Emit([txs |-> Append(s, t), ack |-> FALSE, id |-> t])
  BY DEF OrderingBlock
<1>2. PICK s \in [1 .. n -> replied \ Logged] :
        /\ IsInjective(s)
        /\ log' = Append(log, Append(s, t))
        /\ Emit([txs |-> Append(s, t), ack |-> FALSE, id |-> t])
  BY <1>1
<1> DEFINE blk == Append(s, t)
<1>3. n \in Nat /\ t \in sent /\ t \notin replied
  BY RuntimeAssumption DEF OrderingBlock
<1>4. blk \in Seq(Transaction)
  BY <1>3, BlockTypes
<1>5. /\ s \in Seq(replied \ Logged) /\ Len(s) = n /\ DOMAIN blk = 1 .. n + 1
      /\ \A i \in 1 .. n : blk[i] = s[i] /\ s[i] \in replied \ Logged
      /\ blk[n + 1] = t
  BY <1>3
<1>6. \A i, j \in DOMAIN blk : blk[i] = blk[j] => i = j
  <2>1. \A i \in DOMAIN blk : i \in 1 .. n \/ i = n + 1
    BY <1>3, <1>5
  <2>2. \A i, j \in 1 .. n : s[i] = s[j] => i = j
    BY <1>2 DEF IsInjective
  <2> HIDE DEF blk
  <2> QED
    BY <1>3, <1>5, <2>1, <2>2
<1>7. Members(blk) \cap Logged = {}
  <2>1. \A i \in DOMAIN blk : i \in 1 .. n \/ i = n + 1
    BY <1>3, <1>5
  <2>2. t \notin Logged
    BY <1>3 DEF LogInv
  <2> HIDE DEF blk
  <2> QED
    BY <1>5, <2>1, <2>2 DEF Members
<1> HIDE DEF blk
<1>8. \/ inbox' = inbox
      \/ inbox' = Append(inbox, [txs |-> blk, ack |-> FALSE, id |-> t])
  BY <1>2 DEF Emit, blk
<1>9. log' = Append(log, blk)
  BY <1>2 DEF blk
<1>10. /\ DOMAIN log' = DOMAIN log \cup {Len(log) + 1}
       /\ Len(log) + 1 \notin DOMAIN log
       /\ \A b \in DOMAIN log : log'[b] = log[b] /\ b < Len(log) + 1
       /\ log'[Len(log) + 1] = blk
  <2>1. \A b \in DOMAIN log : b < Len(log) + 1
    BY DEF TypeOK
  <2> QED
    BY <1>4, <1>9, <2>1, LogGrows DEF TypeOK
<1>11. \A x \in Logged : \A k \in DOMAIN blk : blk[k] # x
  BY <1>7 DEF Members
<1>12. \A x, y \in Logged : Precedes(log, x, y) => Precedes(log', x, y)
  BY <1>10, <1>11 DEF Precedes
<1>13. Before(log', Logged, Members(blk))
  <2>1. \A b \in DOMAIN log, k \in DOMAIN blk : \A i \in DOMAIN log[b] : log[b][i] # blk[k]
    BY <1>11 DEF Logged
  <2> SUFFICES ASSUME NEW x \in Logged, NEW y \in Members(blk),
                      NEW b \in DOMAIN log', NEW c \in DOMAIN log',
                      NEW i \in DOMAIN log'[b], NEW j \in DOMAIN log'[c],
                      log'[b][i] = x, log'[c][j] = y
               PROVE  b < c
    BY DEF Before, Precedes
  <2>2. b \in DOMAIN log
    BY <1>10, <1>11
  <2>3. c = Len(log) + 1
    BY <1>10, <2>1 DEF Members
  <2> QED
    BY <1>10, <2>2, <2>3
<1>14. InOrder(log', blk)
  <2> SUFFICES ASSUME NEW k \in DOMAIN blk, NEW l \in DOMAIN blk, k < l,
                      NEW b \in DOMAIN log', NEW c \in DOMAIN log',
                      NEW i \in DOMAIN log'[b], NEW j \in DOMAIN log'[c],
                      log'[b][i] = blk[k], log'[c][j] = blk[l]
               PROVE  b = c /\ i < j
    BY DEF InOrder, Precedes
  <2>1. \A d \in DOMAIN log, m \in DOMAIN blk : \A h \in DOMAIN log[d] : log[d][h] # blk[m]
    BY <1>11 DEF Logged
  <2>2. b = Len(log) + 1 /\ c = Len(log) + 1
    BY <1>10, <2>1
  <2>3. i = k /\ j = l
    BY <1>6, <1>10, <2>2
  <2> QED
    BY <2>2, <2>3
<1> QED
  BY <1>4, <1>8, <1>9, <1>12, <1>13, <1>14

\* A sequence with one more element, last.
LEMMA AppendAt ==
  ASSUME NEW S, NEW s \in Seq(S), NEW x \in S
  PROVE  /\ \A k \in DOMAIN Append(s, x) :
              \/ k \in DOMAIN s /\ Append(s, x)[k] = s[k]
              \/ /\ \A l \in DOMAIN Append(s, x) : ~(k < l)
                 /\ k = Len(s) + 1 /\ Append(s, x)[k] = x
         /\ \A k, l \in DOMAIN Append(s, x) : k < l => k \in DOMAIN s
<1>1. /\ Len(s) \in Nat /\ DOMAIN s = 1 .. Len(s)
      /\ DOMAIN Append(s, x) = 1 .. Len(s) + 1
      /\ \A k \in 1 .. Len(s) : Append(s, x)[k] = s[k]
      /\ Append(s, x)[Len(s) + 1] = x
  OBVIOUS
<1> DEFINE n == Len(s)
           u == Append(s, x)
<1> HIDE DEF n, u
<1>2. \A k \in 1 .. n + 1 : k \in 1 .. n \/ (k = n + 1 /\ \A l \in 1 .. n + 1 : ~(k < l))
  BY <1>1 DEF n
<1>3. \A k, l \in 1 .. n + 1 : k < l => k \in 1 .. n
  BY <1>1 DEF n
<1> QED
  BY <1>1, <1>2, <1>3 DEF n, u

LEMMA OrderInit == Init => OrderInv
<1> SUFFICES ASSUME Init PROVE OrderInv
  OBVIOUS
<1>1. /\ inbox = <<>> /\ Store = <<>> /\ disk.store = <<>> /\ Left = <<>>
      /\ listener \in {"new", "making", "down"} => link = "closed"
  BY DEF Init, Left
<1>2. \A blocks, S : InOrder(blocks, <<>>) /\ Before(blocks, S, Members(<<>>))
  BY DEF InOrder, Before, Members
<1> QED
  BY <1>1, <1>2 DEF OrderInv

\* What is still to be applied is in the log.
LEMMA LeftLogged ==
  ASSUME TypeOK, WholeInv
  PROVE  /\ Members(Store) \subseteq Logged
         /\ Members(disk.store) \subseteq Logged
         /\ Members(Left) \subseteq Logged
         /\ \A k \in DOMAIN inbox : ~inbox[k].ack => Members(inbox[k].txs) \subseteq Logged
<1>1. Members(Left) \subseteq Logged
  <2>1. CASE listener = "apply"
    BY <2>1, LoggedMembers DEF WholeInv, ApplyInv, BeingApplied, Left
  <2>2. CASE listener # "apply"
    BY <2>2 DEF Left, Members
  <2> QED
    BY <2>1, <2>2
<1>2. \A k \in DOMAIN inbox : ~inbox[k].ack => Members(inbox[k].txs) \subseteq Logged
  BY LoggedMembers DEF WholeInv, InboxInv
<1> QED
  BY <1>1, <1>2 DEF WholeInv, LogInv

\* A step that puts no block on the websocket and applies none keeps the
\* order, if what it saves is in order.
LEMMA OrderKept ==
  ASSUME OrderInv, log' = log, Store' = Store, Left' = Left,
         InOrder(log, disk'.store),
         \A k \in DOMAIN inbox' :
           ~inbox'[k].ack => k \in DOMAIN inbox /\ inbox'[k] = inbox[k],
         listener' \in {"new", "making", "down"} => inbox' = <<>> /\ link' = "closed"
  PROVE  OrderInv'
<1>1. /\ InOrder(log', Store') /\ InOrder(log', disk'.store) /\ InOrder(log', Left')
      /\ Before(log', Members(Store'), Members(Left'))
  BY DEF OrderInv
<1>2. ASSUME NEW k \in DOMAIN inbox', ~inbox'[k].ack
      PROVE  /\ InOrder(log', inbox'[k].txs)
             /\ Before(log', Members(Store'), Members(inbox'[k].txs))
             /\ Before(log', Members(Left'), Members(inbox'[k].txs))
             /\ \A l \in DOMAIN inbox' :
                  k < l /\ ~inbox'[l].ack
                    => Before(log', Members(inbox'[k].txs), Members(inbox'[l].txs))
  BY <1>2 DEF OrderInv, BlockFits
<1> QED
  BY <1>1, <1>2 DEF OrderInv, BlockFits, InOrder, Before, Members

LEMMA BlockOrder ==
  ASSUME TypeOK, WholeInv, OrderInv, NEW t \in Transaction, OrderingBlock(t)
  PROVE  OrderInv'
<1>1. PICK blk \in Seq(Transaction) :
        /\ log' = Append(log, blk)
        /\ \/ inbox' = inbox
           \/ inbox' = Append(inbox, [txs |-> blk, ack |-> FALSE, id |-> t])
        /\ \A x, y \in Logged : Precedes(log, x, y) => Precedes(log', x, y)
        /\ Before(log', Logged, Members(blk))
        /\ InOrder(log', blk)
  BY BlockInOrder DEF WholeInv
<1>2. Store' = Store /\ disk' = disk /\ listener' = listener /\ link' = link /\ Left' = Left
  BY DEF OrderingBlock, listenerVars, Left
<1>3. listener \in {"new", "making", "down"} => inbox' = <<>> /\ link' = "closed"
  BY DEF OrderingBlock, Emit, OrderInv
<1>4. /\ InOrder(log', Store') /\ InOrder(log', disk'.store) /\ InOrder(log', Left')
      /\ Before(log', Members(Store'), Members(Left'))
  BY <1>1, <1>2, LeftLogged DEF OrderInv, InOrder, Before, Members
<1>5. \A k \in DOMAIN inbox' :
        \/ k \in DOMAIN inbox /\ inbox'[k] = inbox[k]
        \/ (\A l \in DOMAIN inbox' : ~(k < l)) /\ inbox'[k].txs = blk
  <2>1. inbox \in Seq(Frame)
    BY DEF TypeOK
  <2>2. CASE inbox' = inbox
    BY <2>2
  <2>3. CASE inbox' = Append(inbox, [txs |-> blk, ack |-> FALSE, id |-> t])
    <3> DEFINE f == [txs |-> blk, ack |-> FALSE, id |-> t]
    <3>1. f \in Frame /\ f.txs = blk
      BY FrameTypes
    <3> HIDE DEF f
    <3> QED
      BY <2>1, <2>3, <3>1, AppendAt DEF f
  <2> QED
    BY <1>1, <2>2, <2>3
<1>6. ASSUME NEW k \in DOMAIN inbox', ~inbox'[k].ack
      PROVE  /\ InOrder(log', inbox'[k].txs)
             /\ Before(log', Members(Store'), Members(inbox'[k].txs))
             /\ Before(log', Members(Left'), Members(inbox'[k].txs))
             /\ \A l \in DOMAIN inbox' :
                  k < l /\ ~inbox'[l].ack
                    => Before(log', Members(inbox'[k].txs), Members(inbox'[l].txs))
  <2>1. CASE k \in DOMAIN inbox /\ inbox'[k] = inbox[k]
    <3>1. BlockFits(log, k) /\ Members(inbox[k].txs) \subseteq Logged
      BY <1>6, <2>1, LeftLogged DEF OrderInv
    <3>2. InOrder(log', inbox'[k].txs)
      BY <1>1, <2>1, <3>1 DEF BlockFits, InOrder, Members
    <3>3. /\ Before(log', Members(Store'), Members(inbox'[k].txs))
          /\ Before(log', Members(Left'), Members(inbox'[k].txs))
      BY <1>1, <1>2, <2>1, <3>1, LeftLogged DEF BlockFits, Before
    <3>4. ASSUME NEW l \in DOMAIN inbox', k < l, ~inbox'[l].ack
          PROVE  Before(log', Members(inbox'[k].txs), Members(inbox'[l].txs))
      BY <1>1, <1>5, <2>1, <3>1, <3>4, LeftLogged DEF BlockFits, Before
    <3> QED
      BY <3>2, <3>3, <3>4
  <2>2. CASE (\A l \in DOMAIN inbox' : ~(k < l)) /\ inbox'[k].txs = blk
    BY <1>1, <1>2, <2>2, LeftLogged DEF Before
  <2> QED
    BY <1>5, <2>1, <2>2
<1> QED
  BY <1>2, <1>3, <1>4, <1>6 DEF OrderInv, BlockFits, InOrder, Before, Members

LEMMA ReadOrder ==
  ASSUME TypeOK, OrderInv, ListenRead
  PROVE  OrderInv'
<1>0. inbox # <<>> /\ inbox \in Seq(Frame)
  BY DEF ListenRead, TypeOK
<1>1. /\ log' = log /\ Store' = Store /\ disk' = disk /\ listener = "read"
      /\ inbox # <<>> /\ inbox' = Tail(inbox) /\ listener' \in {"apply", "match"}
      /\ listener' = "apply" => ~inbox[1].ack
      /\ frame' = [inbox[1] EXCEPT !.txs = inbox[1].txs]
      /\ inbox \in Seq(Frame)
  BY <1>0 DEF ListenRead, Written, IsBlock, orderingVars
<1>2. /\ \A k \in DOMAIN inbox' : /\ k + 1 \in DOMAIN inbox
                                  /\ inbox'[k] = inbox[k + 1]
                                  /\ 1 < k + 1
      /\ \A k, l \in DOMAIN inbox' : k < l => k + 1 < l + 1
      /\ 1 \in DOMAIN inbox /\ inbox[1] \in Frame
  BY <1>1
<1>3. frame'.txs = inbox[1].txs
  BY <1>1, <1>2 DEF Frame
<1>4. Left = <<>> /\ Left' = (IF listener' = "apply" THEN inbox[1].txs ELSE <<>>)
  BY <1>1, <1>3 DEF Left
<1>5. Members(<<>>) = {}
  BY DEF Members
<1>6. /\ InOrder(log', Store') /\ InOrder(log', disk'.store) /\ InOrder(log', Left')
      /\ Before(log', Members(Store'), Members(Left'))
  <2>1. InOrder(log, <<>>)
    BY DEF InOrder
  <2>2. CASE listener' = "apply"
    BY <1>1, <1>2, <1>4, <2>2 DEF OrderInv, BlockFits
  <2>3. CASE listener' # "apply"
    BY <1>1, <1>4, <1>5, <2>1, <2>3 DEF OrderInv, Before
  <2> QED
    BY <2>2, <2>3
<1>7. ASSUME NEW k \in DOMAIN inbox', ~inbox'[k].ack
      PROVE  /\ InOrder(log', inbox'[k].txs)
             /\ Before(log', Members(Store'), Members(inbox'[k].txs))
             /\ Before(log', Members(Left'), Members(inbox'[k].txs))
             /\ \A l \in DOMAIN inbox' :
                  k < l /\ ~inbox'[l].ack
                    => Before(log', Members(inbox'[k].txs), Members(inbox'[l].txs))
  <2>1. BlockFits(log, k + 1)
    BY <1>2, <1>7 DEF OrderInv
  <2>2. Before(log', Members(Left'), Members(inbox'[k].txs))
    <3>1. CASE listener' = "apply"
      BY <1>1, <1>2, <1>4, <1>7, <3>1 DEF OrderInv, BlockFits
    <3>2. CASE listener' # "apply"
      BY <1>4, <1>5, <3>2 DEF Before
    <3> QED
      BY <3>1, <3>2
  <2> QED
    BY <1>1, <1>2, <2>1, <2>2 DEF BlockFits
<1> QED
  BY <1>1, <1>6, <1>7 DEF OrderInv, BlockFits, InOrder, Before, Members

LEMMA ApplyOrder ==
  ASSUME TypeOK, OrderInv, Apply, frame.txs # <<>>
  PROVE  OrderInv'
<1> DEFINE tx == Head(frame.txs)
<1>1. /\ log' = log /\ disk' = disk /\ listener = "apply" /\ listener' = "apply"
      /\ inbox' = inbox /\ link' = link
      /\ Store' = Append(Store, tx)
      /\ Store \in Seq(Transaction) /\ frame.txs \in Seq(Transaction)
      /\ frame'.txs = Tail(frame.txs)
  BY DEF Apply, orderingVars, netVars, TypeOK, Starting, Frame
<1>2. Left = frame.txs /\ Left' = Tail(frame.txs)
  BY <1>1 DEF Left
<1>3. /\ Members(Store') = Members(Store) \cup {tx}
      /\ Members(Left) = {tx} \cup Members(Left')
  BY <1>1, <1>2, ApplyMembers
<1>4. /\ \A i \in DOMAIN Left' :
           i + 1 \in DOMAIN Left /\ Left'[i] = Left[i + 1] /\ 1 < i + 1
      /\ \A i, j \in DOMAIN Left' : i < j => i + 1 < j + 1
      /\ 1 \in DOMAIN Left /\ Left[1] = tx
  BY <1>1, <1>2
<1> HIDE DEF tx
<1>5. /\ \A i \in DOMAIN Store' :
           \/ i \in DOMAIN Store /\ Store'[i] = Store[i]
           \/ i = Len(Store) + 1 /\ Store'[i] = tx
      /\ \A i, j \in DOMAIN Store' : i < j => i \in DOMAIN Store
  <2>1. tx \in Transaction
    BY <1>1, <1>2, <1>4
  <2> DEFINE u == Append(Store, tx)
  <2>2. Store \in Seq(Transaction) /\ Store' = u
    BY <1>1
  <2>3. /\ \A i \in DOMAIN u :
             \/ i \in DOMAIN Store /\ u[i] = Store[i]
             \/ i = Len(Store) + 1 /\ u[i] = tx
        /\ \A i, j \in DOMAIN u : i < j => i \in DOMAIN Store
    BY <2>1, <2>2, AppendAt
  <2> HIDE DEF u
  <2> QED
    BY <2>2, <2>3
<1>6. InOrder(log', Store')
  <2>1. \A i \in DOMAIN Store : Precedes(log, Store[i], tx)
    BY <1>3 DEF OrderInv, Before, Members
  <2> QED
    BY <1>1, <1>5, <2>1 DEF OrderInv, InOrder
<1>7. InOrder(log', Left') /\ Before(log, {tx}, Members(Left'))
  <2>1. InOrder(log, Left)
    BY DEF OrderInv
  <2> QED
    BY <1>1, <1>4, <2>1 DEF InOrder, Before, Members
<1>8. Before(log', Members(Store'), Members(Left'))
  BY <1>1, <1>3, <1>7 DEF OrderInv, Before
<1>9. \A k \in DOMAIN inbox' :
        ~inbox'[k].ack => /\ Before(log', Members(Store'), Members(inbox'[k].txs))
                          /\ Before(log', Members(Left'), Members(inbox'[k].txs))
  BY <1>1, <1>3 DEF OrderInv, BlockFits, Before
<1>10. \A k \in DOMAIN inbox' :
         ~inbox'[k].ack =>
           /\ InOrder(log', inbox'[k].txs)
           /\ \A l \in DOMAIN inbox' :
                k < l /\ ~inbox'[l].ack
                  => Before(log', Members(inbox'[k].txs), Members(inbox'[l].txs))
  BY <1>1 DEF OrderInv, BlockFits
<1> QED
  BY <1>1, <1>6, <1>7, <1>8, <1>9, <1>10
  DEF OrderInv, BlockFits, InOrder, Before, Members

\* A step after which nothing is to be applied and the websocket is empty.
LEMMA OrderAlone ==
  ASSUME InOrder(log', Store'), InOrder(log', disk'.store), listener' # "apply",
         inbox' = <<>>, listener' \in {"new", "making", "down"} => link' = "closed"
  PROVE  OrderInv'
<1>1. Left' = <<>> /\ DOMAIN inbox' = {}
  BY DEF Left
<1>2. \A blocks, S : InOrder(blocks, <<>>) /\ Before(blocks, S, Members(<<>>))
  BY DEF InOrder, Before, Members
<1>3. InOrder(log', Left') /\ Before(log', Members(Store'), Members(Left'))
  BY <1>1, <1>2
<1> QED
  BY <1>1, <1>3 DEF OrderInv, InOrder, Before, Members

LEMMA OrderNext == TypeOK /\ WholeInv /\ OrderInv /\ [Next]_vars => OrderInv'
<1> SUFFICES ASSUME TypeOK, WholeInv, OrderInv, [Next]_vars PROVE OrderInv'
  OBVIOUS
<1>0. InOrder(log, Store) /\ InOrder(log, disk.store) /\ InOrder(log, <<>>)
  BY DEF OrderInv, InOrder
<1>1. ASSUME NEW t \in Transaction, OrderingBlock(t) PROVE OrderInv'
  BY <1>1, BlockOrder
<1>2. ASSUME NEW t \in Transaction, OrderingAck(t) PROVE OrderInv'
  <2>1. /\ log' = log /\ Store' = Store /\ disk' = disk /\ Left' = Left
        /\ listener' = listener /\ link' = link
    BY <1>2 DEF OrderingAck, listenerVars, Left
  <2>2. \/ inbox' = inbox
        \/ /\ link = "open"
           /\ inbox' = Append(inbox, [txs |-> <<>>, ack |-> TRUE, id |-> t])
    BY <1>2 DEF OrderingAck, Emit
  <2>3. ASSUME NEW k \in DOMAIN inbox'
        PROVE  (k \in DOMAIN inbox /\ inbox'[k] = inbox[k]) \/ inbox'[k].ack = TRUE
    <3> DEFINE f == [txs |-> <<>>, ack |-> TRUE, id |-> t]
    <3>1. f \in Frame /\ f.ack = TRUE /\ inbox \in Seq(Frame)
      <4>1. <<>> \in Seq(Transaction)
        OBVIOUS
      <4> QED
        BY <4>1, FrameTypes DEF TypeOK
    <3> HIDE DEF f
    <3> QED
      BY <2>2, <2>3, <3>1, AppendAt DEF f
  <2>4. listener' \in {"new", "making", "down"} => inbox' = <<>> /\ link' = "closed"
    BY <2>1, <2>2 DEF OrderInv
  <2> QED
    BY <1>0, <2>1, <2>3, <2>4, OrderKept
<1>3. CASE ListenRead
  BY <1>3, ReadOrder
<1>4. CASE Apply
  <2>1. CASE frame.txs # <<>>
    BY <1>4, <2>1, ApplyOrder
  <2>2. CASE frame.txs = <<>>
    <3>1. /\ log' = log /\ Store' = Store /\ disk' = disk /\ inbox' = inbox
          /\ Left' = Left /\ listener' = "save"
      BY <1>4, <2>2 DEF Apply, orderingVars, netVars, Left
    <3> QED
      BY <1>0, <3>1, OrderKept
  <2> QED
    BY <2>1, <2>2
<1>5. CASE Disconnect
  <2>1. PICK n \in 0 .. Len(inbox) : inbox' = SubSeq(inbox, 1, n)
    BY <1>5 DEF Disconnect
  <2>2. /\ log' = log /\ Store' = Store /\ disk' = disk /\ Left' = Left
        /\ listener' = listener /\ link = "open"
    BY <1>5 DEF Disconnect, orderingVars, listenerVars, Left
  <2>3. \A k \in DOMAIN inbox' : k \in DOMAIN inbox /\ inbox'[k] = inbox[k]
    BY <2>1 DEF TypeOK
  <2>4. listener' \notin {"new", "making", "down"}
    BY <2>2 DEF OrderInv
  <2> QED
    BY <1>0, <2>2, <2>3, <2>4, OrderKept
<1>6. CASE Crash
  <2>1. /\ log' = log /\ Store' = <<>> /\ disk' = disk /\ listener' = "down"
        /\ inbox' = <<>> /\ link' = "closed"
    BY <1>6 DEF Crash, orderingVars
  <2> QED
    BY <1>0, <2>1, OrderAlone
<1>7. CASE Start
  <2>1. /\ log' = log /\ Store' = disk.store /\ disk' = disk /\ listener' = "read"
        /\ inbox' = <<>>
    BY <1>7 DEF Start, orderingVars, OrderInv
  <2> QED
    BY <1>0, <2>1, OrderAlone
<1>8. CASE ListenError
  <2>1. /\ log' = log /\ Store' = Store /\ disk' = disk /\ listener' = "done"
        /\ inbox' = <<>>
    BY <1>8 DEF ListenError, orderingVars
  <2> QED
    BY <1>0, <2>1, OrderAlone
<1>9. CASE SaveBegin \/ SaveEnd
  <2>1. /\ log' = log /\ Store' = Store /\ inbox' = inbox /\ Left' = Left
        /\ listener' \notin {"new", "making", "down"}
        /\ disk'.store \in {<<>>, Store, disk.store}
    BY <1>9 DEF SaveBegin, SaveEnd, orderingVars, netVars, Left
  <2> QED
    BY <1>0, <2>1, OrderKept
<1>10. CASE UNCHANGED <<listener, frame, Store, disk, log, inbox, link>>
  <2>1. Left' = Left
    BY <1>10 DEF Left
  <2> QED
    BY <1>0, <1>10, <2>1, OrderKept DEF OrderInv
<1>11. CASE /\ UNCHANGED <<Store, disk, log, inbox, link>>
            /\ listener \in {"match", "deliver", "delete"}
            /\ listener' \in {"read", "deliver", "delete"}
  <2>1. Left' = Left
    BY <1>11 DEF Left
  <2> QED
    BY <1>0, <1>11, <2>1, OrderKept
<1>12. CASE MakeFile \/ MakeEnd
  <2>1. /\ log' = log /\ Store' = Store /\ inbox' = <<>> /\ link' = "closed"
        /\ listener' # "apply" /\ disk'.store \in {Store, disk.store}
    BY <1>12 DEF MakeFile, MakeEnd, orderingVars, netVars, OrderInv
  <2> QED
    BY <1>0, <2>1, OrderAlone DEF OrderInv
<1> QED
  BY <1>1, <1>2, <1>3, <1>4, <1>5, <1>6, <1>7, <1>8, <1>9, <1>10, <1>11, <1>12
  DEF Next, SetHandler, Listener, Arrive, Lock, UseWasmFunction, Send, TimeOut, Deliver,
      Match, Delete, Idle, vars, listenerVars, orderingVars, netVars

\* A runtime may miss blocks, be killed while it applies one and start again
\* from a file: what it has is in the order of the chain, nothing twice.
THEOREM StoreInOrder == Spec => []StoreFollowsLog
<1>1. TypeOK /\ WholeInv /\ [Next]_vars => WholeInv'
  BY LogNext, InboxNext, ApplyNext, DiskNext DEF WholeInv
<1>2. WholeInv /\ OrderInv => StoreFollowsLog
  BY DEF WholeInv, LogInv, Members, OrderInv, InOrder, StoreFollowsLog
<1> QED
  BY <1>1, <1>2, WholeInit, OrderInit, OrderNext, RuntimeTypes, PTL DEF Spec

-----------------------------------------------------------------------------
(***************************************************************************)
(* The ACKs.                                                               *)
(*                                                                         *)
(* Every ACK a client was told used up an answer of the ordering service   *)
(* to a request of that client: one that is no more on the websocket and   *)
(* that the listener does not carry, except to delete its id.              *)
(***************************************************************************)
Acked(c) == {r \in Request : ClientOf[r] = c /\ pc[r] = "ACK"}

Answered(c) == {r \in Request \cap replied : ClientOf[r] = c}

Carried == listener \in {"apply", "save", "writing", "match", "deliver"}

UsedUp(c) ==
  {t \in Answered(c) : /\ \A k \in DOMAIN inbox : inbox[k].id # t
                       /\ Carried => frame.id # t}

\* Each answer is on the websocket once, and not when the listener has it.
AnswersOnce ==
  /\ \A k, l \in DOMAIN inbox : inbox[k].id = inbox[l].id => k = l
  /\ \A k \in DOMAIN inbox : inbox[k].id \in replied
  /\ Carried => /\ frame.id \in replied
                /\ \A k \in DOMAIN inbox : inbox[k].id # frame.id
  /\ listener \in {"deliver", "delete"} => frame.id \in Request

AcksCovered ==
  \A c \in Client : /\ IsFiniteSet(Acked(c))
                    /\ Cardinality(Acked(c)) <= Cardinality(UsedUp(c))

AckInv == AnswersOnce /\ IsFiniteSet(replied) /\ AcksCovered

\* An answer put on the websocket is a new one.
LEMMA NewAnswer ==
  ASSUME NEW t \in Transaction, OrderingAck(t) \/ OrderingBlock(t), TypeOK
  PROVE  /\ t \notin replied /\ replied' = replied \cup {t}
         /\ \A k \in DOMAIN inbox' :
              \/ k \in DOMAIN inbox /\ inbox'[k] = inbox[k]
              \/ (\A l \in DOMAIN inbox' : ~(k < l)) /\ inbox'[k].id = t
         /\ UNCHANGED <<listener, frame, pc>>
<1>1. /\ t \notin replied /\ replied' = replied \cup {t}
      /\ UNCHANGED <<listener, frame, pc>>
  BY DEF OrderingAck, OrderingBlock, listenerVars, requestVars
<1>2. \E f \in Frame : f.id = t /\ inbox' \in {inbox, Append(inbox, f)}
  <2>1. CASE OrderingAck(t)
    <3>1. <<>> \in Seq(Transaction)
      OBVIOUS
    <3>2. [txs |-> <<>>, ack |-> TRUE, id |-> t] \in Frame
      BY <3>1, FrameTypes
    <3> QED
      BY <2>1, <3>2 DEF OrderingAck, Emit
  <2>2. CASE OrderingBlock(t)
    <3>1. PICK blk \in Seq(Transaction) :
            \/ inbox' = inbox
            \/ inbox' = Append(inbox, [txs |-> blk, ack |-> FALSE, id |-> t])
      BY <2>2, BlockAdded
    <3>2. [txs |-> blk, ack |-> FALSE, id |-> t] \in Frame
      BY FrameTypes
    <3> QED
      BY <3>1, <3>2
  <2> QED
    BY <2>1, <2>2
<1>3. PICK f \in Frame : f.id = t /\ inbox' \in {inbox, Append(inbox, f)}
  BY <1>2
<1>4. CASE inbox' = inbox
  BY <1>1, <1>4
<1>5. CASE inbox' = Append(inbox, f)
  <2>1. inbox \in Seq(Frame)
    BY DEF TypeOK
  <2>2. \A k \in DOMAIN inbox' :
          \/ k \in DOMAIN inbox /\ inbox'[k] = inbox[k]
          \/ (\A l \in DOMAIN inbox' : ~(k < l)) /\ inbox'[k] = f
    BY <1>5, <2>1, AppendAt
  <2> QED
    BY <1>1, <1>3, <2>2
<1> QED
  BY <1>3, <1>4, <1>5

LEMMA OnceNext == TypeOK /\ AnswersOnce /\ [Next]_vars => AnswersOnce'
<1> SUFFICES ASSUME TypeOK, AnswersOnce, [Next]_vars PROVE AnswersOnce'
  OBVIOUS
<1> USE DEF AnswersOnce, Carried
<1>0. /\ inbox \in Seq(Frame)
      /\ DOMAIN inbox = 1 .. Len(inbox) /\ Len(inbox) \in Nat
  BY DEF TypeOK
<1>1. ASSUME NEW t \in Transaction, OrderingAck(t) \/ OrderingBlock(t) PROVE AnswersOnce'
  <2>1. /\ t \notin replied /\ replied' = replied \cup {t}
        /\ \A k \in DOMAIN inbox' :
             \/ k \in DOMAIN inbox /\ inbox'[k] = inbox[k]
             \/ (\A l \in DOMAIN inbox' : ~(k < l)) /\ inbox'[k].id = t
        /\ UNCHANGED <<listener, frame, pc>>
    BY <1>1, NewAnswer
  <2>2. \A k \in DOMAIN inbox' : k \in Nat
    BY <1>1, NetNext, TypeParts DEF NetTypes
  <2>3. \A k, l \in DOMAIN inbox' : inbox'[k].id = inbox'[l].id => k = l
    BY <2>1, <2>2
  <2> QED
    BY <2>1, <2>3
<1>2. CASE ListenRead
  <2>1. /\ inbox # <<>> /\ inbox' = Tail(inbox) /\ replied' = replied
        /\ listener' \in {"apply", "match"}
        /\ frame' = [inbox[1] EXCEPT !.txs = inbox[1].txs]
    BY <1>0, <1>2 DEF ListenRead, Written, orderingVars
  <2>2. /\ 1 \in DOMAIN inbox /\ inbox[1] \in Frame
        /\ \A k \in DOMAIN inbox' : /\ k \in Nat /\ k + 1 \in DOMAIN inbox
                                   /\ inbox'[k] = inbox[k + 1]
                                   /\ k + 1 # 1
        /\ \A k, l \in DOMAIN inbox' : k + 1 = l + 1 => k = l
    BY <1>0, <2>1
  <2>3. frame'.id = inbox[1].id
    BY <2>1, <2>2 DEF Frame
  <2> QED
    BY <2>1, <2>2, <2>3
<1>3. CASE Disconnect
  <2>1. PICK n \in 0 .. Len(inbox) : inbox' = SubSeq(inbox, 1, n)
    BY <1>3 DEF Disconnect
  <2>2. \A k \in DOMAIN inbox' : k \in DOMAIN inbox /\ inbox'[k] = inbox[k]
    BY <1>0, <2>1
  <2> QED
    BY <1>3, <2>2 DEF Disconnect, listenerVars, orderingVars
<1>4. CASE Match
  <2>1. frame.id \in ClientMessages[ClientOf[frame.id]] => frame.id \in Request
    BY <1>4, Distinct DEF TypeOK, Match, Frame
  <2> QED
    BY <1>4, <2>1 DEF Match, Awaited, netVars, orderingVars
<1>5. CASE ListenError \/ Crash
  BY <1>5 DEF ListenError, Crash, orderingVars
<1>6. CASE Apply
  <2>1. frame'.id = frame.id /\ listener' \in {"apply", "save"} /\ listener = "apply"
    BY <1>6 DEF Apply, TypeOK, Starting, Frame
  <2> QED
    BY <1>6, <2>1 DEF Apply, netVars, orderingVars
<1>7. ASSUME NEW r \in Request, Deliver(r) PROVE AnswersOnce'
  BY <1>7 DEF Deliver, netVars, orderingVars
<1>8. CASE UNCHANGED <<inbox, frame, replied>> /\ (Carried' => Carried)
           /\ (listener' \in {"deliver", "delete"} => listener' = listener)
  BY <1>8
<1>9. CASE SaveBegin \/ SaveEnd
  BY <1>9 DEF SaveBegin, SaveEnd, netVars, orderingVars
<1>10. CASE Delete \/ MakeFile \/ MakeEnd \/ Start
  BY <1>10 DEF Delete, MakeFile, MakeEnd, Start, netVars, orderingVars
<1> QED
  BY <1>1, <1>2, <1>3, <1>4, <1>5, <1>6, <1>7, <1>8, <1>9, <1>10
  DEF Next, SetHandler, Listener, Arrive, Lock, UseWasmFunction, Send, TimeOut, Idle, vars,
      listenerVars, orderingVars, netVars

\* No step but the delivery of an ACK gives one, and none takes one back or
\* makes an answer that was used up unused.
LEMMA UsedGrows ==
  ASSUME TypeOK, AnswersOnce, [Next]_vars, ~\E r \in Request : Deliver(r), NEW c
  PROVE  Acked(c)' = Acked(c) /\ UsedUp(c) \subseteq UsedUp(c)'
<1> USE DEF Acked, Answered, UsedUp, AnswersOnce, Carried
<1>0. /\ inbox \in Seq(Frame)
      /\ DOMAIN inbox = 1 .. Len(inbox) /\ Len(inbox) \in Nat
  BY DEF TypeOK
<1>1. ASSUME NEW t \in Transaction, OrderingAck(t) \/ OrderingBlock(t)
      PROVE  Acked(c)' = Acked(c) /\ UsedUp(c) \subseteq UsedUp(c)'
  BY <1>1, NewAnswer
<1>2. CASE ListenRead
  <2>1. /\ inbox # <<>> /\ inbox' = Tail(inbox) /\ replied' = replied /\ pc' = pc
        /\ frame' = [inbox[1] EXCEPT !.txs = inbox[1].txs]
    BY <1>0, <1>2 DEF ListenRead, Written, orderingVars, requestVars
  <2>2. /\ 1 \in DOMAIN inbox /\ inbox[1] \in Frame
        /\ \A k \in DOMAIN inbox' : k + 1 \in DOMAIN inbox /\ inbox'[k] = inbox[k + 1]
    BY <1>0, <2>1
  <2>3. frame'.id = inbox[1].id
    BY <2>1, <2>2 DEF Frame
  <2> QED
    BY <2>1, <2>2, <2>3
<1>3. CASE Disconnect
  <2>1. PICK n \in 0 .. Len(inbox) : inbox' = SubSeq(inbox, 1, n)
    BY <1>3 DEF Disconnect
  <2>2. \A k \in DOMAIN inbox' : k \in DOMAIN inbox /\ inbox'[k] = inbox[k]
    BY <1>0, <2>1
  <2> QED
    BY <1>3, <2>2 DEF Disconnect, listenerVars, orderingVars, requestVars
<1>4. CASE Match
  BY <1>4 DEF Match, requestVars, netVars, orderingVars
<1>5. CASE ListenError
  BY <1>5 DEF ListenError, requestVars, orderingVars
<1>6. CASE Crash
  <2>1. \A r \in Request : pc'[r] = "ACK" <=> pc[r] = "ACK"
    BY <1>6 DEF Crash, Busy
  <2> QED
    BY <1>6, <2>1 DEF Crash, orderingVars
<1>7. CASE Apply
  <2>1. frame'.id = frame.id /\ listener' \in {"apply", "save"} /\ listener = "apply"
    BY <1>7 DEF Apply, TypeOK, Starting, Frame
  <2> QED
    BY <1>7, <2>1 DEF Apply, requestVars, netVars, orderingVars
<1>8. CASE SaveBegin \/ SaveEnd \/ Delete \/ MakeFile \/ MakeEnd \/ Start
  BY <1>8 DEF SaveBegin, SaveEnd, Delete, MakeFile, MakeEnd, Start, requestVars, netVars,
              orderingVars
<1>9. ASSUME NEW r \in Request, Arrive(r) \/ Lock(r) \/ UseWasmFunction(r) \/ Send(r) \/ TimeOut(r)
      PROVE  Acked(c)' = Acked(c) /\ UsedUp(c) \subseteq UsedUp(c)'
  <2>1. \A q \in Request : pc'[q] = "ACK" <=> pc[q] = "ACK"
    BY <1>9 DEF Arrive, Lock, UseWasmFunction, Send, TimeOut, TypeOK
  <2>2. UNCHANGED <<listener, frame, inbox, replied>>
    BY <1>9 DEF Arrive, Lock, UseWasmFunction, Send, TimeOut, listenerVars, netVars, orderingVars
  <2> QED
    BY <2>1, <2>2
<1>10. CASE UNCHANGED vars
  BY <1>10 DEF vars, requestVars, listenerVars, netVars, orderingVars
<1> QED
  BY <1>1, <1>2, <1>3, <1>4, <1>5, <1>6, <1>7, <1>8, <1>9, <1>10
  DEF Next, SetHandler, Listener, Idle

\* The request that takes the ACK uses up the answer the listener has.
LEMMA DeliverUses ==
  ASSUME TypeOK, AnswersOnce, NEW r \in Request, Deliver(r), NEW c
  PROVE  IF c = ClientOf[r]
           THEN /\ Acked(c)' = Acked(c) \cup {r} /\ r \notin Acked(c)
                /\ UsedUp(c)' = UsedUp(c) \cup {frame.id} /\ frame.id \notin UsedUp(c)
           ELSE Acked(c)' = Acked(c) /\ UsedUp(c)' = UsedUp(c)
<1>1. /\ pc[r] = "select" /\ pc' = [pc EXCEPT ![r] = "ACK"]
      /\ listener = "deliver" /\ listener' = "delete"
      /\ ClientOf[r] = ClientOf[frame.id]
      /\ UNCHANGED <<frame, inbox, replied>>
  BY DEF Deliver, netVars, orderingVars
<1>2. /\ frame.id \in Request \cap replied
      /\ \A k \in DOMAIN inbox : inbox[k].id # frame.id
  BY <1>1 DEF AnswersOnce, Carried
<1>3. \A q \in Request : pc'[q] = "ACK" <=> pc[q] = "ACK" \/ q = r
  BY <1>1 DEF TypeOK
<1> QED
  BY <1>1, <1>2, <1>3 DEF Acked, Answered, UsedUp, Carried

\* The answers used up are finitely many.
LEMMA UsedFinite ==
  ASSUME IsFiniteSet(replied), NEW c
  PROVE  /\ IsFiniteSet(UsedUp(c)) /\ IsFiniteSet(Answered(c))
         /\ Cardinality(UsedUp(c)) \in Nat
         /\ Cardinality(UsedUp(c)) <= Cardinality(Answered(c))
<1>1. Answered(c) \in SUBSET replied
  BY DEF Answered
<1>2. IsFiniteSet(Answered(c))
  BY <1>1, FS_Subset
<1>3. UsedUp(c) \in SUBSET Answered(c)
  BY DEF UsedUp
<1> QED
  BY <1>2, <1>3, FS_Subset, FS_CardinalityType

LEMMA FiniteNext ==
  ASSUME IsFiniteSet(replied), [Next]_vars
  PROVE  IsFiniteSet(replied')
<1>1. replied' = replied \/ \E t : replied' = replied \cup {t}
  BY DEF Next, SetHandler, Listener, Arrive, Lock, UseWasmFunction, Send, TimeOut, Deliver,
      ListenRead,
      ListenError, Apply, SaveBegin, SaveEnd, Match, Delete, OrderingAck, OrderingBlock,
      Disconnect, Crash, MakeFile, MakeEnd, Start, Idle, vars, orderingVars
<1> QED
  BY <1>1, FS_AddElement

LEMMA AckNext == TypeOK /\ AckInv /\ [Next]_vars => AckInv'
<1> SUFFICES ASSUME TypeOK, AckInv, [Next]_vars PROVE AckInv'
  OBVIOUS
<1>1. AnswersOnce' /\ IsFiniteSet(replied')
  BY OnceNext, FiniteNext DEF AckInv
<1>2. ASSUME NEW c PROVE /\ IsFiniteSet(UsedUp(c)) /\ Cardinality(UsedUp(c)) \in Nat
                         /\ IsFiniteSet(UsedUp(c)') /\ Cardinality(UsedUp(c)') \in Nat
  <2>1. /\ IsFiniteSet(UsedUp(c)) /\ Cardinality(UsedUp(c)) \in Nat
    BY UsedFinite DEF AckInv
  <2>2. UsedUp(c)' \in SUBSET replied'
    BY DEF UsedUp, Answered
  <2>3. IsFiniteSet(UsedUp(c)')
    BY <1>1, <2>2, FS_Subset
  <2> QED
    BY <2>1, <2>3, FS_CardinalityType
<1>3. ASSUME NEW c \in Client
      PROVE  IsFiniteSet(Acked(c)') /\ Cardinality(Acked(c)') <= Cardinality(UsedUp(c)')
  <2>1. /\ IsFiniteSet(Acked(c)) /\ Cardinality(Acked(c)) <= Cardinality(UsedUp(c))
        /\ Cardinality(Acked(c)) \in Nat
    BY <1>3, FS_CardinalityType DEF AckInv, AcksCovered
  <2>2. CASE Acked(c)' = Acked(c) /\ UsedUp(c) \subseteq UsedUp(c)'
    <3>1. Cardinality(UsedUp(c)) <= Cardinality(UsedUp(c)')
      <4>1. UsedUp(c) \in SUBSET UsedUp(c)'
        BY <2>2
      <4> QED
        BY <1>2, <4>1, FS_Subset
    <3>2. Cardinality(Acked(c)) <= Cardinality(UsedUp(c)')
      BY <1>2, <2>1, <3>1
    <3> QED
      BY <2>1, <2>2, <3>2
  <2>3. ASSUME NEW r \in Request, c = ClientOf[r],
               Acked(c)' = Acked(c) \cup {r} /\ r \notin Acked(c),
               UsedUp(c)' = UsedUp(c) \cup {frame.id} /\ frame.id \notin UsedUp(c)
        PROVE  IsFiniteSet(Acked(c)') /\ Cardinality(Acked(c)') <= Cardinality(UsedUp(c)')
    <3>1. /\ IsFiniteSet(Acked(c) \cup {r})
          /\ Cardinality(Acked(c) \cup {r}) = Cardinality(Acked(c)) + 1
      BY <2>1, <2>3, FS_AddElement
    <3>2. Cardinality(UsedUp(c) \cup {frame.id}) = Cardinality(UsedUp(c)) + 1
      BY <1>2, <2>3, FS_AddElement
    <3>3. Cardinality(Acked(c)) + 1 <= Cardinality(UsedUp(c)) + 1
      BY <1>2, <2>1
    <3> QED
      BY <2>3, <3>1, <3>2, <3>3
  <2>4. CASE \E r \in Request : Deliver(r)
    <3>1. PICK r \in Request : Deliver(r)
      BY <2>4
    <3>2. CASE c = ClientOf[r]
      BY <2>3, <3>1, <3>2, DeliverUses DEF AckInv
    <3>3. CASE c # ClientOf[r]
      BY <2>2, <3>1, <3>3, DeliverUses DEF AckInv
    <3> QED
      BY <3>2, <3>3
  <2>5. CASE ~\E r \in Request : Deliver(r)
    BY <2>2, <2>5, UsedGrows DEF AckInv
  <2> QED
    BY <2>4, <2>5
<1> QED
  BY <1>1, <1>3 DEF AckInv, AcksCovered

LEMMA AckInit == Init => AckInv
<1> SUFFICES ASSUME Init PROVE AckInv
  OBVIOUS
<1>1. AnswersOnce
  BY DEF Init, AnswersOnce, Carried
<1>2. IsFiniteSet(replied)
  BY FS_EmptySet DEF Init
<1>3. ASSUME NEW c \in Client
      PROVE  IsFiniteSet(Acked(c)) /\ Cardinality(Acked(c)) <= Cardinality(UsedUp(c))
  <2>1. Acked(c) = {} /\ UsedUp(c) = {}
    BY DEF Init, Acked, UsedUp, Answered
  <2> QED
    BY <2>1, FS_EmptySet
<1> QED
  BY <1>1, <1>2, <1>3 DEF AckInv, AcksCovered

\* No client is told more ACKs than it has requests that the ordering service
\* answered: late answers, crashes and clients of the same name make none up.
THEOREM NoAckMadeUp == Spec => []AcksAccountedFor
<1>1. AckInv => AcksAccountedFor
  <2> SUFFICES ASSUME AckInv, NEW c \in Client
               PROVE  Cardinality(Acked(c)) <= Cardinality(Answered(c))
    BY DEF AcksAccountedFor, Acked, Answered
  <2>1. /\ Cardinality(Acked(c)) \in Nat
        /\ Cardinality(Acked(c)) <= Cardinality(UsedUp(c))
    BY FS_CardinalityType DEF AckInv, AcksCovered
  <2>2. /\ IsFiniteSet(Answered(c)) /\ Cardinality(UsedUp(c)) \in Nat
        /\ Cardinality(UsedUp(c)) <= Cardinality(Answered(c))
    BY UsedFinite DEF AckInv
  <2>3. Cardinality(Answered(c)) \in Nat
    BY <2>2, FS_CardinalityType
  <2> QED
    BY <2>1, <2>2, <2>3
<1> QED
  BY <1>1, AckInit, AckNext, RuntimeTypes, PTL DEF Spec

-----------------------------------------------------------------------------
(***************************************************************************)
(* The ACK of a request, while no request of its client has timed out.     *)
(*                                                                         *)
(* The id of a request that timed out stays registered, and whoever comes  *)
(* next takes its ACK.  Before that, a client waits only for the request   *)
(* between Lock and Unlock and for ids that are never answered.            *)
(***************************************************************************)
Patient(c) == \A q \in Request : ClientOf[q] = c => pc[q] # "timeout"

\* A request is not sent before Send.
UnsentInv == \A r \in Request : pc[r] \in {"new", "lock", "call", "send"} => r \notin sent

\* The id the listener matched is registered until Delete.
MatchedInv ==
  listener \in {"deliver", "delete"} => frame.id \in ClientMessages[ClientOf[frame.id]]

WaitsFor(f) ==
  \/ pc[f] \in {"send", "select"}
  \/ pc[f] = "error" /\ f \notin sent
  \/ pc[f] = "ACK" /\ listener = "delete" /\ frame.id = f

RegisteredInv ==
  \A c \in Client : \A f \in ClientMessages[c] : ClientOf[f] = c /\ (Patient(c) => WaitsFor(f))

OwnAck == \A r \in Request : pc[r] = "ACK" /\ Patient(ClientOf[r]) => r \in replied

OwnInv == UnsentInv /\ MatchedInv /\ RegisteredInv /\ OwnAck

LEMMA OwnInit == Init => OwnInv
<1> SUFFICES ASSUME Init PROVE OwnInv
  OBVIOUS
<1>1. /\ pc = [r \in Request |-> "new"] /\ ClientMessages = [c \in Client |-> {}]
      /\ listener \notin {"deliver", "delete"} /\ sent = Foreign
  BY DEF Init
<1>2. UnsentInv
  BY <1>1, RuntimeAssumption DEF UnsentInv
<1> QED
  BY <1>1, <1>2 DEF OwnInv, MatchedInv, RegisteredInv, OwnAck

LEMMA UnsentNext == TypeOK /\ UnsentInv /\ [Next]_vars => UnsentInv'
<1> SUFFICES ASSUME TypeOK, UnsentInv, [Next]_vars PROVE UnsentInv'
  OBVIOUS
<1> USE DEF UnsentInv
<1>0. pc \in [Request -> {"new"} \cup Busy \cup Answers]
  BY DEF TypeOK
<1>1. ASSUME NEW r \in Request,
             Arrive(r) \/ Lock(r) \/ UseWasmFunction(r) \/ TimeOut(r) \/ Deliver(r)
      PROVE  UnsentInv'
  BY <1>0, <1>1 DEF Arrive, Lock, UseWasmFunction, TimeOut, Deliver, orderingVars
<1>2. ASSUME NEW r \in Request, Send(r) PROVE UnsentInv'
  BY <1>0, <1>2 DEF Send
<1>3. CASE Crash
  BY <1>0, <1>3 DEF Crash, Busy, orderingVars
<1>4. CASE UNCHANGED <<pc, sent>>
  BY <1>4
<1> QED
  BY <1>1, <1>2, <1>3, <1>4
  DEF Next, SetHandler, Listener, ListenRead, ListenError, Apply, SaveBegin, SaveEnd, Match,
      Delete, OrderingAck, OrderingBlock, Disconnect, MakeFile, MakeEnd,
      Start, Idle, vars, requestVars, orderingVars

LEMMA MatchedNext == TypeOK /\ AnswersOnce /\ MatchedInv /\ [Next]_vars => MatchedInv'
<1> SUFFICES ASSUME TypeOK, AnswersOnce, MatchedInv, [Next]_vars PROVE MatchedInv'
  OBVIOUS
<1> USE DEF MatchedInv
<1>1. ASSUME NEW r \in Request, Lock(r) \/ UseWasmFunction(r) PROVE MatchedInv'
  <2>1. \A c \in Client : ClientMessages[c] \subseteq ClientMessages'[c]
    <3>1. ClientMessages \in [Client -> SUBSET Request] /\ ClientOf[r] \in Client
      BY Distinct DEF TypeOK
    <3>2. \/ ClientMessages' = [ClientMessages EXCEPT ![ClientOf[r]] = @ \cup {r}]
          \/ ClientMessages' = ClientMessages
      BY <1>1 DEF Lock, UseWasmFunction
    <3> QED
      BY <3>1, <3>2
  <2>2. listener \in {"deliver", "delete"} => ClientOf[frame.id] \in Client
    BY Distinct DEF AnswersOnce
  <2> QED
    BY <1>1, <2>1, <2>2 DEF Lock, UseWasmFunction, listenerVars
<1>2. CASE Match
  BY <1>2 DEF Match, Awaited, requestVars
<1>3. ASSUME NEW r \in Request, Deliver(r) PROVE MatchedInv'
  BY <1>3 DEF Deliver
<1>4. CASE listener' \notin {"deliver", "delete"}
  BY <1>4
<1>5. CASE UNCHANGED <<ClientMessages, listener, frame>>
  BY <1>5
<1> QED
  BY <1>1, <1>2, <1>3, <1>4, <1>5
  DEF Next, SetHandler, Listener, Arrive, Send, TimeOut, ListenRead, ListenError, Apply,
      SaveBegin, SaveEnd, Delete, OrderingAck, OrderingBlock, Disconnect, Crash, MakeFile,
      MakeEnd, Start, Idle, vars, requestVars, listenerVars

LEMMA RegisteredNext ==
  TypeOK /\ AnswersOnce /\ OwnInv /\ [Next]_vars => RegisteredInv' /\ OwnAck'
<1> SUFFICES ASSUME TypeOK, AnswersOnce, OwnInv, [Next]_vars PROVE RegisteredInv' /\ OwnAck'
  OBVIOUS
<1> USE DEF OwnInv, RegisteredInv, OwnAck, WaitsFor, Patient
<1>0. /\ pc \in [Request -> {"new"} \cup Busy \cup Answers]
      /\ ClientMessages \in [Client -> SUBSET Request]
      /\ \A r \in Request : pc[r] \in {"call", "send", "select"} <=> mu = r
      /\ mu \in Request \cup {None} /\ None \notin Request
      /\ \A r \in Request : ClientOf[r] \in Client
  BY Distinct DEF TypeOK
<1>1. ASSUME NEW r \in Request, Arrive(r) PROVE RegisteredInv' /\ OwnAck'
  <2>1. /\ pc[r] = "new" /\ pc' = [pc EXCEPT ![r] = "lock"]
        /\ UNCHANGED <<ClientMessages, listener, frame, sent, replied>>
    BY <1>1 DEF Arrive, listenerVars, orderingVars
  <2> QED
    BY <1>0, <2>1
<1>2. ASSUME NEW r \in Request, Lock(r) \/ UseWasmFunction(r) PROVE RegisteredInv' /\ OwnAck'
  <2>1. /\ pc[r] \in {"lock", "call"} /\ UNCHANGED <<listener, frame, sent, replied>>
        /\ \/ pc' = [pc EXCEPT ![r] = "call"] /\ UNCHANGED ClientMessages
           \/ /\ pc' = [pc EXCEPT ![r] = "send"]
              /\ ClientMessages' = [ClientMessages EXCEPT ![ClientOf[r]] = @ \cup {r}]
           \/ pc' = [pc EXCEPT ![r] = "error"] /\ UNCHANGED ClientMessages
    BY <1>2 DEF Lock, UseWasmFunction, listenerVars, orderingVars
  <2> QED
    BY <1>0, <2>1
<1>3. ASSUME NEW r \in Request, Send(r) PROVE RegisteredInv' /\ OwnAck'
  <2>1. /\ pc[r] = "send" /\ UNCHANGED <<ClientMessages, listener, frame, replied>>
        /\ \/ pc' = [pc EXCEPT ![r] = "select"] /\ sent' \in {sent, sent \cup {r}}
           \/ pc' = [pc EXCEPT ![r] = "error"] /\ sent' = sent
    BY <1>3 DEF Send, listenerVars
  <2>2. r \notin sent
    BY <2>1 DEF UnsentInv
  <2> QED
    BY <1>0, <2>1, <2>2
<1>4. ASSUME NEW r \in Request, TimeOut(r) PROVE RegisteredInv' /\ OwnAck'
  <2>1. /\ pc[r] = "select" /\ pc' = [pc EXCEPT ![r] = "timeout"]
        /\ UNCHANGED <<ClientMessages, listener, frame, sent, replied>>
    BY <1>4 DEF TimeOut, listenerVars, orderingVars
  <2>2. ~Patient(ClientOf[r])' /\ \A c \in Client : Patient(c)' => Patient(c)
    BY <1>0, <2>1
  <2> QED
    BY <1>0, <2>1, <2>2
<1>5. ASSUME NEW r \in Request, Deliver(r) PROVE RegisteredInv' /\ OwnAck'
  <2>1. /\ pc[r] = "select" /\ pc' = [pc EXCEPT ![r] = "ACK"] /\ mu = r
        /\ listener = "deliver" /\ listener' = "delete" /\ ClientOf[r] = ClientOf[frame.id]
        /\ UNCHANGED <<ClientMessages, frame, sent, replied>>
    BY <1>0, <1>5 DEF Deliver, listenerVars, orderingVars
  <2>2. frame.id \in replied /\ replied \subseteq sent
    BY <2>1 DEF AnswersOnce, Carried, TypeOK
  <2>3. frame.id \in ClientMessages[ClientOf[r]]
    BY <2>1 DEF MatchedInv
  <2>4. \A c \in Client : Patient(c)' <=> Patient(c)
    BY <1>0, <2>1
  <2>5. Patient(ClientOf[r]) => frame.id = r
    BY <1>0, <2>1, <2>2, <2>3
  <2>6. \A c \in Client : \A f \in ClientMessages[c] :
          Patient(c) => f = r \/ (pc[f] = "error" /\ f \notin sent)
    BY <1>0, <2>1
  <2> QED
    BY <1>0, <2>1, <2>2, <2>4, <2>5, <2>6
<1>6. CASE Delete
  <2>1. /\ ClientMessages' = [ClientMessages EXCEPT ![ClientOf[frame.id]] = @ \ {frame.id}]
        /\ UNCHANGED <<pc, sent, replied>> /\ listener = "delete"
    BY <1>6 DEF Delete, orderingVars
  <2>2. \A c \in Client : \A f \in ClientMessages'[c] :
          f \in ClientMessages[c] /\ (c = ClientOf[frame.id] => f # frame.id)
    BY <1>0, <2>1
  <2> QED
    BY <1>0, <2>1, <2>2
<1>7. CASE Crash
  <2>1. /\ pc' = [r \in Request |-> IF pc[r] \in Busy THEN "lost" ELSE pc[r]]
        /\ ClientMessages' = [c \in Client |-> {}] /\ replied' = replied
    BY <1>7 DEF Crash, orderingVars
  <2>2. \A c \in Client : Patient(c)' => Patient(c)
    BY <1>0, <2>1 DEF Busy
  <2>3. \A r \in Request : pc'[r] = "ACK" => pc[r] = "ACK"
    BY <1>0, <2>1
  <2> QED
    BY <1>0, <2>1, <2>2, <2>3
<1>8. CASE /\ UNCHANGED <<pc, ClientMessages, sent>> /\ replied \subseteq replied'
           /\ listener # "delete" \/ UNCHANGED <<listener, frame>>
  BY <1>0, <1>8
<1> QED
  BY <1>1, <1>2, <1>3, <1>4, <1>5, <1>6, <1>7, <1>8
  DEF Next, SetHandler, Listener, ListenRead, ListenError, Apply, SaveBegin, SaveEnd, Match,
      OrderingAck, OrderingBlock, Disconnect, MakeFile, MakeEnd,
      Start, Idle, vars, requestVars, listenerVars, orderingVars

LEMMA OwnNext == TypeOK /\ AckInv /\ OwnInv /\ [Next]_vars => OwnInv'
  BY UnsentNext, MatchedNext, RegisteredNext DEF OwnInv, AckInv

LEMMA NotSentBefore == Spec => []UnsentInv
<1>1. Init => UnsentInv
  BY OwnInit DEF OwnInv
<1> QED
  BY <1>1, UnsentNext, RuntimeTypes, PTL DEF Spec

\* While no request of its client has timed out, a request that is told ACK is
\* one that the ordering service answered.
LEMMA AckBelongs == Spec => []OwnAck
<1>1. OwnInv => OwnAck
  BY DEF OwnInv
<1> QED
  BY <1>1, OwnInit, OwnNext, AckInit, AckNext, RuntimeTypes, PTL DEF Spec

=============================================================================
