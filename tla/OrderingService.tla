-------------------------- MODULE OrderingService --------------------------
(***************************************************************************)
(* The transaction path of the ordering service: the goroutines that share *)
(* a BlockTransactionStore.                                                *)
(*                                                                         *)
(*   handlerTransaction   one per websocket connection, registers it       *)
(*   ReadPump             one per connection, pools the transactions       *)
(*   waitForBlock...      one, makes blocks and answers the runtimes       *)
(*   WritePump            one per connection, writes what Send holds       *)
(*                                                                         *)
(* The runtimes are the environment: they connect, send one frame per      *)
(* transaction, read what is written to them, and may vanish.  A Message   *)
(* stands for the whole messageFromRuntime: the transaction, its MessageId *)
(* (a fresh uuid, so a Message is sent once) and its ClientHash.  Blocks   *)
(* leaves out the genesis block, which no step here reads.                 *)
(***************************************************************************)
EXTENDS Naturals, Sequences, FiniteSets

CONSTANTS
  Conn,         \* websocket connections; a runtime that comes back is a new one
  Message,      \* the frames the runtimes may send, each at most once
  Malformed,    \* the frames among them that json.Unmarshal refuses
  BlockSize,    \* blockSize: messages of ONE connection that trigger a block
  SendCap,      \* capacity of the Send channel
  WireCap,      \* bound: frames the transport holds before a write blocks,
                \* 0 for a runtime that never reads
  MaxRestarts,  \* bound: crashes of the service
  None          \* "no connection", "no item"

ASSUME ConstAssumption ==
  /\ IsFiniteSet(Conn)
  /\ None \notin Conn
  /\ None \notin Message
  /\ Malformed \subseteq Message
  /\ BlockSize \in Nat \ {0}
  /\ SendCap \in Nat \ {0}
  /\ WireCap \in Nat
  /\ MaxRestarts \in Nat

VARIABLES
  link,             \* the websocket: "idle" (not dialled), "open" or "closed"
  origin,           \* the connection each Message was sent on, None before
  inbox,            \* frames on the wire from the runtime
  handler,          \* handlerTransaction: "idle", "append" or "done"
  loaded,           \* the slice header the handler read for its append
  runtime_clients,  \* bt.runtime_clients
  reader,           \* program counter of ReadPump
  msg,              \* the message ReadPump decoded last
  count,            \* ReadPump's own counter
  mu,               \* the holder of bt.mu
  allTransactions,  \* the pool all ReadPumps share
  builder,          \* program counter of waitForBlockFromRuntimeTransactions
  job,              \* the item it received
  todo,             \* the connections BroadcastMessage has not come to
  Blocks,           \* the blocks of the chain after genesis
  frames,           \* every frame put into a Send channel, in order
  taken,            \* how many of them WritePump took out of the channel
  written,          \* how many of them WritePump is done with
  seen,             \* how many of them the runtime read
  restarts

netVars     == <<link, origin, inbox, seen>>
handlerVars == <<handler, loaded, runtime_clients>>
readerVars  == <<reader, msg, count, mu, allTransactions>>
builderVars == <<builder, job, todo, Blocks>>
writerVars  == <<taken, written>>
vars == <<netVars, handlerVars, readerVars, builderVars, frames, writerVars,
          restarts>>

(***************************************************************************)
(* What a Send channel carries (SendBackToRuntime) and what the builder    *)
(* receives (BlockFromTransactions).  "at" is no field of the program: it  *)
(* is the place in the chain of the block a frame carries, 0 for an ack.   *)
(***************************************************************************)
Frame == [txs : Seq(Message), ack : BOOLEAN, id : Message, at : Nat]

Job == [txs : Seq(Message), broadcast : BOOLEAN, rc : Conn, id : Message]

\* Fault: the frame shares the pool's slice with the ReadPumps.
SharedFrameOf(j, place) ==
  [txs |-> allTransactions, ack |-> ~j.broadcast, id |-> j.id,
   at |-> IF j.broadcast THEN place ELSE 0]

FrameOf(j, place) ==
  [txs |-> j.txs, ack |-> ~j.broadcast, id |-> j.id,
   at |-> IF j.broadcast THEN place ELSE 0]

\* The elements of a sequence.
Elems(s) == {s[i] : i \in DOMAIN s}

\* The messages of the blocks made so far.
Committed == UNION {Elems(Blocks[b]) : b \in DOMAIN Blocks}

\* The messages of the block in the making.
Making == IF builder = "block" THEN Elems(job.txs) ELSE {}

\* The messages the service is answerable for: pooled, being made into a
\* block, or in the chain.
Held == Elems(allTransactions) \cup Making \cup Committed

Init ==
  /\ link = [c \in Conn |-> "idle"]
  /\ origin = [m \in Message |-> None]
  /\ inbox = [c \in Conn |-> <<>>]
  /\ handler = [c \in Conn |-> "idle"]
  /\ loaded = [c \in Conn |-> <<>>]
  /\ runtime_clients = <<>>
  /\ reader = [c \in Conn |-> "off"]
  /\ msg = [c \in Conn |-> None]
  /\ count = [c \in Conn |-> 0]
  /\ mu = None
  /\ allTransactions = <<>>
  /\ builder = "idle"
  /\ job = None
  /\ todo = <<>>
  /\ Blocks = <<>>
  /\ frames = [c \in Conn |-> <<>>]
  /\ taken = [c \in Conn |-> 0]
  /\ written = [c \in Conn |-> 0]
  /\ seen = [c \in Conn |-> 0]
  /\ restarts = 0

-----------------------------------------------------------------------------
(***************************************************************************)
(* The environment.                                                        *)
(***************************************************************************)

\* A runtime sends a transaction on its connection.
Submit(c, m) ==
  /\ link[c] = "open"
  /\ origin[m] = None
  /\ origin' = [origin EXCEPT ![m] = c]
  /\ inbox' = [inbox EXCEPT ![c] = Append(@, m)]
  /\ UNCHANGED <<link, seen, handlerVars, readerVars, builderVars, frames,
                 writerVars, restarts>>

\* A runtime reads the next frame written to it.
Receive(c) ==
  /\ link[c] = "open"
  /\ seen[c] < written[c]
  /\ seen' = [seen EXCEPT ![c] = @ + 1]
  /\ UNCHANGED <<link, origin, inbox, handlerVars, readerVars, builderVars,
                 frames, writerVars, restarts>>

\* A connection breaks: what the runtime had sent may still arrive, what was
\* on its way to the runtime does not.
Disconnect(c) ==
  /\ link[c] = "open"
  /\ link' = [link EXCEPT ![c] = "closed"]
  /\ UNCHANGED <<origin, inbox, seen, handlerVars, readerVars, builderVars, frames,
                 writerVars, restarts>>

-----------------------------------------------------------------------------
(***************************************************************************)
(* handlerTransaction.  bt.runtime_clients is appended to without a lock:  *)
(* the handler reads the slice and stores the longer one in two steps.     *)
(***************************************************************************)
Accept(c) ==
  /\ link[c] = "idle"
  /\ link' = [link EXCEPT ![c] = "open"]
  /\ handler' = [handler EXCEPT ![c] = "append"]
  /\ loaded' = [loaded EXCEPT ![c] = runtime_clients]
  /\ UNCHANGED <<origin, inbox, seen, runtime_clients, readerVars, builderVars,
                 frames, writerVars, restarts>>

\* What another goroutine may find in a slice it has read: when the array has
\* spare capacity append writes into it, over an entry stored since.
Overwritten(s, c) ==
  {s} \cup {[s EXCEPT ![i] = c] : i \in {j \in DOMAIN s : s[j] \notin Elems(loaded[c])}}

Register(c) ==
  /\ handler[c] = "append"
  /\ handler' = [handler EXCEPT ![c] = "done"]
  /\ runtime_clients' = Append(loaded[c], c)
  /\ loaded' \in {f \in [Conn -> {<<>>} \cup UNION {Overwritten(loaded[d], c) : d \in Conn}] :
                   f[c] = <<>> /\ \A d \in Conn \ {c} : f[d] \in Overwritten(loaded[d], c)}
  /\ todo' \in IF builder = "cast" /\ job.broadcast THEN Overwritten(todo, c) ELSE {todo}
  /\ reader' = [reader EXCEPT ![c] = "read"]
  /\ UNCHANGED <<netVars, msg, count, mu, allTransactions, builder, job, Blocks,
                 frames, writerVars, restarts>>

-----------------------------------------------------------------------------
(***************************************************************************)
(* ReadPump.                                                               *)
(***************************************************************************)
ReadMessage(c) ==
  /\ reader[c] = "read"
  /\ inbox[c] # <<>>
  /\ inbox' = [inbox EXCEPT ![c] = Tail(@)]
  /\ \/ /\ Head(inbox[c]) \in Malformed
        /\ UNCHANGED <<reader, msg>>
     \/ /\ Head(inbox[c]) \notin Malformed
        /\ msg' = [msg EXCEPT ![c] = Head(inbox[c])]
        /\ reader' = [reader EXCEPT ![c] = "lock"]
  /\ UNCHANGED <<link, origin, seen, handlerVars, count, mu, allTransactions,
                 builderVars, frames, writerVars, restarts>>

\* ReadMessage fails once the connection is gone, be it before frames that
\* were on the wire; the connection is closed and the goroutine ends, but
\* runtime_clients keeps its entry.
ReadError(c) ==
  /\ reader[c] = "read"
  /\ link[c] = "closed"
  /\ inbox' = [inbox EXCEPT ![c] = <<>>]
  /\ reader' = [reader EXCEPT ![c] = "done"]
  /\ UNCHANGED <<link, origin, seen, handlerVars, msg, count, mu, allTransactions,
                 builderVars, frames, writerVars, restarts>>

\* Fault: the counter is compared before it is incremented.
LateFull(c) == count[c] >= BlockSize

\* Whether the message being counted fills this connection's quota.
Full(c) == count[c] + 1 >= BlockSize

\* Fault: the message that fills the quota is left out.
ShortPoolWith(c) ==
  IF Full(c) THEN allTransactions ELSE Append(allTransactions, msg[c])

\* Fault: the message goes before the others.
PoolPrepended(c) == <<msg[c]>> \o allTransactions

\* The pool with the message appended.
PoolWith(c) == Append(allTransactions, msg[c])

\* Fault: the mutex is not taken.
MutexIgnored == TRUE

MutexFree == mu = None

\* mu.Lock, count++, append, and the branch on blockSize, up to the send on
\* the unbuffered channel.
Pool(c) ==
  /\ reader[c] = "lock"
  /\ MutexFree
  /\ mu' = c
  /\ allTransactions' = PoolWith(c)
  /\ \/ /\ Full(c)
        /\ count' = [count EXCEPT ![c] = 0]
        /\ reader' = [reader EXCEPT ![c] = "block"]
     \/ /\ ~Full(c)
        /\ count' = [count EXCEPT ![c] = @ + 1]
        /\ reader' = [reader EXCEPT ![c] = "ack"]
  /\ UNCHANGED <<netVars, handlerVars, msg, builderVars, frames, writerVars,
                 restarts>>

\* The send and the builder's receive happen together.
HandOver(c) ==
  /\ builder = "idle"
  /\ \/ /\ reader[c] = "block"
        /\ job' = [txs |-> allTransactions, broadcast |-> TRUE,
                   rc |-> c, id |-> msg[c]]
        /\ builder' = "block"
        /\ todo' = <<>>
        /\ reader' = [reader EXCEPT ![c] = "reset"]
     \/ /\ reader[c] = "ack"
        /\ job' = [txs |-> <<>>, broadcast |-> FALSE,
                   rc |-> c, id |-> msg[c]]
        /\ builder' = "cast"
        /\ todo' = <<c>>
        /\ reader' = [reader EXCEPT ![c] = "unlock"]
  /\ UNCHANGED <<netVars, handlerVars, msg, count, mu, allTransactions, Blocks,
                 frames, writerVars, restarts>>

\* Fault: the pool is not reset.
PoolKept == allTransactions

\* The pool once its block has been handed over.
PoolAfterBlock == <<>>

\* The rest of the loop body: reset the pool after a block, then mu.Unlock.
Unlock(c) ==
  /\ \/ /\ reader[c] = "reset"
        /\ allTransactions' = PoolAfterBlock
     \/ /\ reader[c] = "unlock"
        /\ UNCHANGED allTransactions
  /\ mu' = None
  /\ msg' = [msg EXCEPT ![c] = None]
  /\ reader' = [reader EXCEPT ![c] = "read"]
  /\ UNCHANGED <<netVars, handlerVars, count, builderVars, frames, writerVars,
                 restarts>>

-----------------------------------------------------------------------------
(***************************************************************************)
(* waitForBlockFromRuntimeTransactions and BroadcastMessage.               *)
(***************************************************************************)

\* Fault: the sender is answered on its own as well.
SenderTwice == Append(runtime_clients, job.rc)

\* The connections a block is broadcast to: the slice as it is at the call.
Recipients == runtime_clients

\* AddNewblock and addBlockFile, up to the call of BroadcastMessage.
AddBlock ==
  /\ builder = "block"
  /\ Blocks' = Append(Blocks, job.txs)
  /\ todo' = Recipients
  /\ builder' = "cast"
  /\ UNCHANGED <<netVars, handlerVars, readerVars, job, frames, writerVars,
                 restarts>>

\* Fault: the channel is taken to hold one more.
RoomOffByOne(c) == Len(frames[c]) - taken[c] <= SendCap

\* Whether the Send channel takes another frame now.
HasRoom(c) == Len(frames[c]) - taken[c] < SendCap

\* Fault: the select has no default branch, the send waits for room.
BlockingCast ==
  /\ builder = "cast"
  /\ todo # <<>> => HasRoom(Head(todo))
  /\ IF todo # <<>>
       THEN /\ frames' = [frames EXCEPT
                            ![Head(todo)] = Append(@, FrameOf(job, Len(Blocks)))]
            /\ todo' = Tail(todo)
       ELSE UNCHANGED <<frames, todo>>
  /\ IF todo' = <<>>
       THEN builder' = "idle" /\ job' = None
       ELSE UNCHANGED <<builder, job>>
  /\ UNCHANGED <<netVars, handlerVars, readerVars, Blocks, writerVars, restarts>>

\* One round of BroadcastMessage's loop.  A channel with no room is the
\* default branch of the select: the call returns, whoever is left.
Cast ==
  /\ builder = "cast"
  /\ IF todo # <<>> /\ HasRoom(Head(todo))
       THEN /\ frames' = [frames EXCEPT
                            ![Head(todo)] = Append(@, FrameOf(job, Len(Blocks)))]
            /\ todo' = Tail(todo)
       ELSE /\ todo' = <<>>
            /\ UNCHANGED frames
  /\ IF todo' = <<>>
       THEN builder' = "idle" /\ job' = None
       ELSE UNCHANGED <<builder, job>>
  /\ UNCHANGED <<netVars, handlerVars, readerVars, Blocks, writerVars, restarts>>

-----------------------------------------------------------------------------
(***************************************************************************)
(* WritePump.  It never ends: on a closed connection it goes on taking     *)
(* frames and failing to write them.                                       *)
(***************************************************************************)
Take(c) ==
  /\ handler[c] = "done"
  /\ written[c] = taken[c]
  /\ taken[c] < Len(frames[c])
  /\ taken' = [taken EXCEPT ![c] = @ + 1]
  /\ UNCHANGED <<netVars, handlerVars, readerVars, builderVars, frames, written,
                 restarts>>

Write(c) ==
  /\ written[c] < taken[c]
  /\ link[c] = "open" => written[c] - seen[c] < WireCap
  /\ written' = [written EXCEPT ![c] = @ + 1]
  /\ UNCHANGED <<netVars, handlerVars, readerVars, builderVars, frames, taken,
                 restarts>>

-----------------------------------------------------------------------------
(***************************************************************************)
(* The process dies and is started again: the chain is read back from the  *)
(* block files, everything else starts empty, every connection is broken.  *)
(***************************************************************************)
Restart ==
  /\ restarts < MaxRestarts
  /\ restarts' = restarts + 1
  /\ link' = [c \in Conn |-> IF link[c] = "idle" THEN "idle" ELSE "closed"]
  /\ inbox' = [c \in Conn |-> <<>>]
  /\ handler' = [c \in Conn |-> IF link[c] = "idle" THEN "idle" ELSE "done"]
  /\ loaded' = [c \in Conn |-> <<>>]
  /\ runtime_clients' = <<>>
  /\ reader' = [c \in Conn |-> IF link[c] = "idle" THEN "off" ELSE "done"]
  /\ msg' = [c \in Conn |-> None]
  /\ count' = [c \in Conn |-> 0]
  /\ mu' = None
  /\ allTransactions' = <<>>
  /\ builder' = "idle"
  /\ job' = None
  /\ todo' = <<>>
  /\ taken' = [c \in Conn |-> Len(frames[c])]
  /\ written' = [c \in Conn |-> Len(frames[c])]
  /\ UNCHANGED <<origin, seen, Blocks, frames>>

\* Every goroutine waits for the environment.  A self-loop, so that TLC
\* reports any other state without a successor as a deadlock.
Idle ==
  /\ builder = "idle"
  /\ \A c \in Conn : /\ handler[c] # "append"
                     /\ reader[c] \in {"off", "read", "done"}
                     /\ inbox[c] = <<>>
                     /\ taken[c] = Len(frames[c])
                     /\ written[c] = taken[c]
  /\ UNCHANGED vars

\* The goroutines of the service.
ReadPump(c) ==
  ReadMessage(c) \/ ReadError(c) \/ Pool(c) \/ HandOver(c) \/ Unlock(c)

Builder == AddBlock \/ Cast

WritePump(c) == Take(c) \/ Write(c)

Next ==
  \/ \E c \in Conn, m \in Message : Submit(c, m)
  \/ \E c \in Conn : \/ Receive(c) \/ Disconnect(c)
                     \/ Accept(c) \/ Register(c)
                     \/ ReadPump(c) \/ WritePump(c)
  \/ Builder
  \/ Restart
  \/ Idle

Spec == Init /\ [][Next]_vars

\* The Go scheduler runs every goroutine that can run, and sync.Mutex does
\* not starve a waiter (it hands over after 1 ms), hence SF for ReadPump: its
\* other steps stay enabled until they are taken.  No fairness is assumed of
\* the runtimes: they need not read, send or stay.
Fairness ==
  /\ WF_vars(Builder)
  /\ \A c \in Conn : /\ WF_vars(Register(c))
                     /\ SF_vars(ReadPump(c))
                     /\ WF_vars(WritePump(c))

FairSpec == Spec /\ Fairness

-----------------------------------------------------------------------------
(***************************************************************************)
(* Properties.                                                             *)
(***************************************************************************)

\* Every variable has its type: a ReadPump past the decoding has a message,
\* the builder has an item unless it waits for one, the Send channel and the
\* write in progress stay within their capacities, and a runtime reads only
\* what was written.
Deciding == {"lock", "block", "ack", "reset", "unlock"}

NetTypes ==
  /\ link \in [Conn -> {"idle", "open", "closed"}]
  /\ origin \in [Message -> Conn \cup {None}]
  /\ inbox \in [Conn -> Seq(Message)]

HandlerTypes ==
  /\ handler \in [Conn -> {"idle", "append", "done"}]
  /\ loaded \in [Conn -> Seq(Conn)]
  /\ runtime_clients \in Seq(Conn)

ReaderTypes ==
  /\ reader \in [Conn -> {"off", "read", "done"} \cup Deciding]
  /\ msg \in [Conn -> Message \cup {None}]
  /\ \A c \in Conn : reader[c] \in Deciding => msg[c] \in Message
  /\ count \in [Conn -> Nat]
  /\ mu \in Conn \cup {None}
  /\ allTransactions \in Seq(Message)

BuilderTypes ==
  /\ builder \in {"idle", "block", "cast"}
  /\ job \in IF builder = "idle" THEN {None} ELSE Job
  /\ todo \in Seq(Conn)
  /\ Blocks \in Seq(Seq(Message))

ChannelTypes ==
  /\ frames \in [Conn -> Seq(Frame)]
  /\ taken \in [Conn -> Nat]
  /\ written \in [Conn -> Nat]
  /\ seen \in [Conn -> Nat]
  /\ \A c \in Conn : /\ seen[c] <= written[c]
                     /\ taken[c] \in written[c] .. written[c] + 1
                     /\ Len(frames[c]) \in taken[c] .. taken[c] + SendCap

TypeOK ==
  /\ NetTypes
  /\ HandlerTypes
  /\ ReaderTypes
  /\ BuilderTypes
  /\ ChannelTypes
  /\ restarts \in 0 .. MaxRestarts

\* A transaction is committed at most once, however the ReadPumps of
\* several connections and the builder interleave: no message occurs at two
\* places of the chain.
CommittedOnce ==
  \A a, b \in DOMAIN Blocks : \A i \in DOMAIN Blocks[a], j \in DOMAIN Blocks[b] :
    Blocks[a][i] = Blocks[b][j] => a = b /\ i = j

\* A transaction a ReadPump has pooled leaves the pool only for a block, and
\* a block it is in only for the chain: no step but a crash loses one.  It
\* is the window between the hand-over and the reset of the shared slice
\* that could.
NothingLost == [][restarts' = restarts => Held \subseteq Held']_vars

\* The quota is counted per connection and the pool is shared, so a block
\* is not blockSize long.  What holds is that no connection has more in the
\* pool than its counter says, or blockSize while its block is being made ...
FromConn(c) == {i \in DOMAIN allTransactions : origin[allTransactions[i]] = c}

PoolShare ==
  \A c \in Conn :
    /\ count[c] < BlockSize
    /\ Cardinality(FromConn(c)) <=
         IF reader[c] \in {"block", "reset"} THEN BlockSize ELSE count[c]

\* ... so that a block holds at most blockSize - 1 transactions of every
\* connection the service ever had and the one that filled the quota.
BlockBound ==
  \A b \in DOMAIN Blocks :
    Len(Blocks[b]) \in 1 .. Cardinality(Conn) * (BlockSize - 1) + 1

\* A runtime is told of a message only when the service holds it: each frame
\* for a live connection names a message that is pooled or in the chain.
RepliesHeld ==
  \A c \in Conn : link[c] = "open" =>
    \A i \in DOMAIN frames[c] : frames[c][i].id \in Held

\* An ack goes to the connection its message came on, and no connection is
\* answered twice for one message, be it by an ack or by a block.
RepliedOnce ==
  \A c \in Conn : \A i, j \in DOMAIN frames[c] :
    /\ frames[c][i].ack => origin[frames[c][i].id] = c
    /\ frames[c][i].id = frames[c][j].id => i = j

\* Whatever frames are dropped on the way, a runtime gets blocks of the
\* chain in the order of the chain, each once and with its own content.
BlocksInOrder ==
  \A c \in Conn : \A i, j \in DOMAIN frames[c] :
    /\ ~frames[c][i].ack =>
         /\ frames[c][i].at \in DOMAIN Blocks
         /\ frames[c][i].txs = Blocks[frames[c][i].at]
    /\ i < j /\ ~frames[c][i].ack /\ ~frames[c][j].ack
         => frames[c][i].at < frames[c][j].at

\* A ReadPump that has a message gets through the lock, the hand-over and the
\* broadcasts of others, and the builder comes back for more: no runtime,
\* however slow, and no lost connection wedges the service.
PumpProgress ==
  /\ \A c \in Conn : reader[c] = "lock" ~> reader[c] \in {"read", "done"}
  /\ builder # "idle" ~> builder = "idle"

(***************************************************************************)
(* The service implements TransactionLog: the pool and a block in the      *)
(* making are what is pending, and what a runtime has read is what it was  *)
(* given.                                                                  *)
(***************************************************************************)
Pending == Held \ Committed

Given ==
  [c \in Conn |-> [i \in 1 .. seen[c] |-> [id |-> frames[c][i].id, at |-> frames[c][i].at]]]

Log == INSTANCE TransactionLog
         WITH Runtime <- Conn, Transaction <- Message, pending <- Pending,
              log <- Blocks, given <- Given

\* The detailed service makes no step the abstract log does not allow.
ImplementsLog == Log!LogSpec

-----------------------------------------------------------------------------
(***************************************************************************)
(* What comments of the program say and its code does not do.              *)
(***************************************************************************)

\* runtimeclients.go:109 "send a message to all connected runtimes": a
\* connected runtime whose own channel has room is not passed over.
BroadcastReachesAll ==
  [][Cast => \A c \in Elems(todo) :
       /\ c \notin Elems(todo')
       /\ link[c] = "open"
       /\ HasRoom(c)
       => Len(frames'[c]) = Len(frames[c]) + 1]_vars

=============================================================================
