----------------------------- MODULE BachelorEgo -----------------------------
(***************************************************************************)
(* The ordering service and a runtime, joined by the runtime's websocket.  *)
(*                                                                         *)
(* Here is the connection of the runtime that is modelled in full, by the  *)
(* actions of Runtime; the runtimes behind the other connections send and  *)
(* read as OrderingService lets them.  What Runtime supposes of the        *)
(* ordering service becomes a property of the two: R!Spec.                 *)
(*                                                                         *)
(* A transaction gets its content here: the wasm contract hands key and    *)
(* value to the host function math.set, which reads the Store.             *)
(***************************************************************************)
EXTENDS Integers, Sequences, FiniteSets, SequencesExt

CONSTANTS
  Conn, Message, Malformed, BlockSize, SendCap, WireCap, None,
  Here,      \* the connection of the runtime
  Request,   \* the messages of its own calls of Add
  ClientOf,  \* the client that makes each message
  KeyArg,    \* the key and the value each Add is called with, Go's int
  ValueArg,
  Half,      \* half the number of wasm's I32s, 2^31
  MayBreak   \* bound: the connections that break

Foreign == Message \ Request

VARIABLES
  \* the ordering service and the connections to it: see OrderingService
  link, origin, inbox, seen, handler, loaded, runtime_clients, reader, msg,
  count, mu, allTransactions, builder, job, todo, Blocks, frames, taken,
  written, restarts,
  \* the runtime: see Runtime
  pc, runtimeMu, ClientMessages, listener, frame, Store, disk,
  env,   \* Environment.Store, the map; Store has the transactions written to it
  calls  \* what math.set returned, call by call

O == INSTANCE OrderingService WITH MaxRestarts <- 0

serviceVars ==
  <<link, origin, inbox, seen, handler, loaded, runtime_clients, reader, msg,
    count, mu, allTransactions, builder, job, todo, Blocks, frames, taken,
    written, restarts>>
runtimeVars == <<pc, runtimeMu, ClientMessages, listener, frame, Store, disk>>
vars == <<serviceVars, runtimeVars, env, calls>>

-----------------------------------------------------------------------------
(***************************************************************************)
(* The service as the runtime sees it.                                     *)
(***************************************************************************)
LinkUp == link[Here] # "closed"

\* The frames on their way to the runtime.
OnTheWay ==
  LET ahead == SubSeq(frames[Here], seen[Here] + 1, Len(frames[Here]))
  IN  [i \in DOMAIN ahead |-> [txs |-> ahead[i].txs, ack |-> ahead[i].ack, id |-> ahead[i].id]]

Submitted == {r \in Request : origin[r] # None}

\* A block is made known to the runtime when the broadcast comes to it, or
\* ends before; until it is registered, an append may still put it into the
\* slice the broadcast ranges over.
BlockPending ==
  /\ builder = "cast"
  /\ job.broadcast
  /\ Here \in O!Elems(todo) \/ handler[Here] # "done"

BlocksKnown == IF BlockPending THEN Front(Blocks) ELSE Blocks

\* Messages the service holds and has not answered yet.
AnswerDue ==
  \/ builder = "block"
  \/ builder = "cast" /\ (~job.broadcast \/ BlockPending)

Unanswered ==
  {msg[c] : c \in {d \in Conn : reader[d] \in {"block", "ack"}}}
    \cup (IF AnswerDue THEN {job.id} ELSE {})

R == INSTANCE Runtime
       WITH MaxBlock <- Cardinality(Conn) * (BlockSize - 1) + 1, MaxCrashes <- 0, MaxFaults <- 0,
            crashes <- 0, faults <- 0, mu <- runtimeMu,
            link <- IF LinkUp THEN "open" ELSE "closed",
            inbox <- IF LinkUp THEN OnTheWay ELSE <<>>,
            mine <- IF LinkUp THEN Submitted ELSE {},
            sent <- Foreign \cup Submitted,
            replied <- O!Held \ Unanswered,
            log <- BlocksKnown

ASSUME SystemAssumption ==
  /\ IsFiniteSet(Conn)
  /\ None \notin Conn \cup Message
  /\ Malformed \subseteq Message
  /\ BlockSize \in Nat \ {0}
  /\ SendCap \in Nat \ {0}
  /\ WireCap \in Nat
  /\ ClientOf = [m \in Message |-> ClientOf[m]]
  /\ Here \in Conn
  /\ Request \subseteq Message
  /\ Request \cap Malformed = {}
  /\ KeyArg \in [Message -> Int]
  /\ ValueArg \in [Message -> Int]
  /\ Half \in Nat \ {0}
  /\ MayBreak \subseteq Conn

-----------------------------------------------------------------------------
(***************************************************************************)
(* The content of transactions.                                            *)
(***************************************************************************)
I32 == -Half .. Half - 1

\* Fault: the Go int is taken as it is.
Untruncated(x) == x

\* A Go int made an I32: the low bits, read as two's complement.
Int32(x) == ((x + Half) % (2 * Half)) - Half

\* Key and NewVal of a transaction, as math.set returns them.
Key(m) == Int32(KeyArg[m])
NewVal(m) == Int32(Int32(ValueArg[m]) + 1)

\* Fault: a key the Store does not have counts as just written.
OldOrNew(m) == IF Key(m) \in DOMAIN env THEN env[Key(m)] ELSE NewVal(m)

\* What math.set returns as the old value: the key's, 0 if it has none.
OldVal(m) == IF Key(m) \in DOMAIN env THEN env[Key(m)] ELSE 0

Init ==
  /\ O!Init
  /\ R!Init
  /\ listener = "read"
  /\ env = [k \in {} |-> 0]
  /\ calls = <<>>

-----------------------------------------------------------------------------
(***************************************************************************)
(* Steps of the runtime alone.                                             *)
(***************************************************************************)

\* main starts the HTTP server once it has dialled.
Arrive(r) == link[Here] # "idle" /\ R!Arrive(r) /\ UNCHANGED <<env, calls>>

Lock(r) == R!Lock(r) /\ UNCHANGED <<env, calls>>

\* The wasm function reads the Store under the runtime's mutex, be it while the
\* listener is in the middle of a block.
UseWasmFunction(r) ==
  /\ R!UseWasmFunction(r)
  /\ IF runtimeMu' = r
       THEN calls' = Append(calls, [id |-> r, OldVal |-> OldVal(r)])
       ELSE UNCHANGED calls
  /\ UNCHANGED env

\* A write on a connection that is gone.
SendFails(r) == link[Here] = "closed" /\ R!Send(r) /\ UNCHANGED <<env, calls>>

\* A round of the loop over the block writes one key.
Apply ==
  /\ R!Apply
  /\ env' = IF frame.txs = <<>>
              THEN env
              ELSE LET t == Head(frame.txs)
                   IN  [k \in DOMAIN env \cup {Key(t)} |->
                          IF k = Key(t) THEN NewVal(t) ELSE env[k]]
  /\ UNCHANGED calls

RuntimeStep ==
  /\ UNCHANGED serviceVars
  /\ \/ \E r \in Request : Arrive(r) \/ Lock(r) \/ UseWasmFunction(r) \/ SendFails(r)
     \/ Apply
     \/ /\ UNCHANGED <<env, calls>>
        /\ \/ \E r \in Request : R!TimeOut(r) \/ R!Deliver(r)
           \/ R!ListenError \/ R!SaveBegin \/ R!SaveEnd \/ R!Match \/ R!Delete

-----------------------------------------------------------------------------
(***************************************************************************)
(* Steps the two make together.                                            *)
(***************************************************************************)
Send(r) == O!Submit(Here, r) /\ R!Send(r) /\ UNCHANGED <<env, calls>>

ListenRead == O!Receive(Here) /\ R!ListenRead /\ UNCHANGED <<env, calls>>

-----------------------------------------------------------------------------
(***************************************************************************)
(* Steps of the service, of the other runtimes and of the network.         *)
(***************************************************************************)
ServiceStep ==
  \/ \E c \in Conn : O!Accept(c) \/ O!Register(c) \/ O!ReadPump(c) \/ O!WritePump(c)
  \/ O!Builder

OtherRuntimes ==
  \E c \in Conn \ {Here} : O!Receive(c) \/ \E m \in Foreign : O!Submit(c, m)

Network == \E c \in MayBreak : O!Disconnect(c)

Idle == O!Idle /\ R!Idle /\ UNCHANGED vars

Next ==
  \/ RuntimeStep
  \/ \E r \in Request : Send(r)
  \/ ListenRead
  \/ (ServiceStep \/ OtherRuntimes \/ Network) /\ UNCHANGED <<runtimeVars, env, calls>>
  \/ Idle

Spec == Init /\ [][Next]_vars

-----------------------------------------------------------------------------
(***************************************************************************)
(* Properties.                                                             *)
(***************************************************************************)

\* The two components have type invariants of their own; the map has I32s, and
\* calls has the requests whose wasm function was run, each once, with an I32.
TypeOK ==
  /\ DOMAIN env \subseteq I32
  /\ \A k \in DOMAIN env : env[k] \in I32
  /\ calls \in Seq([id : Request, OldVal : I32])
  /\ \A i, j \in DOMAIN calls : calls[i].id = calls[j].id => i = j
  /\ \A r \in Request : pc[r] \in {"send", "select", "ACK", "timeout"}
                        => \E i \in DOMAIN calls : calls[i].id = r

\* The ordering service, its channels and the network do to a runtime only
\* what Runtime supposes of them, so that what is checked of a runtime
\* there holds beside this service.
ServiceFitsRuntime == R!Spec

\* Places in the chain, and which comes first.
Places == UNION {{b} \X DOMAIN Blocks[b] : b \in DOMAIN Blocks}
At(p) == Blocks[p[1]][p[2]]
Before(p, q) == p[1] < q[1] \/ (p[1] = q[1] /\ p[2] < q[2])

\* What the runtime sends is ordered as its wasm calls were: the chain has
\* none of its transactions without all that were called before, earlier.
ProgramOrder ==
  \A p \in Places : At(p) \in Request =>
    \E j \in DOMAIN calls :
      /\ calls[j].id = At(p)
      /\ \A i \in 1 .. j - 1 : \E q \in Places : At(q) = calls[i].id /\ Before(q, p)

\* While no request of the client has timed out, an Add is answered ACK only
\* if the service holds its transaction, whoever made the block.
AckMeansHeld ==
  \A r \in Request :
    /\ pc[r] = "ACK"
    /\ \A q \in Request : ClientOf[q] = ClientOf[r] => pc[q] # "timeout"
    => r \in O!Held

\* Whether v is the value of a key after the transactions at these places,
\* told from the arguments of the Adds alone: one more than the value given
\* last, in the integers modulo 2 * Half, or 0.
Congruent(a, b) == (a - b) % (2 * Half) = 0

IsValueAfter(v, places, key) ==
  LET on == {p \in places : Congruent(KeyArg[At(p)], key)}
  IN  /\ v \in I32
      /\ on = {} => v = 0
      /\ \A p \in on : (\A q \in on : ~Before(p, q)) => Congruent(v, ValueArg[At(p)] + 1)

\* The places of the chain that the runtime was given and has written: all of
\* a block, but for what is left of the last one.
Delivered == {frames[Here][i].at : i \in {k \in 1 .. seen[Here] : ~frames[Here][k].ack}}

Applied ==
  {p \in Places :
     /\ p[1] \in Delivered
     /\ listener = "apply" /\ (\A b \in Delivered : b <= p[1])
          => p[2] <= Len(Blocks[p[1]]) - Len(frame.txs)}

\* The Store is what the blocks of the chain it was given make of the
\* arguments of the Adds, key by key.
StoreIsReplay == \A m \in Message : IsValueAfter(OldVal(m), Applied, KeyArg[m])

\* While no block was dropped on the way, each OldVal is the value its key had
\* at a place of the chain before the transaction's own, and these places do
\* not go back from call to call: a stale read, but of one history.
Gapless == \A b \in Delivered : 1 .. b \subseteq Delivered

\* The chain up to a place; <<0, 0>> is before the first.
UpTo(p) == {q \in Places : ~Before(p, q)}

OldValFromChain ==
  Gapless =>
    \E place \in [DOMAIN calls -> Places \cup {<<0, 0>>}] : \A i \in DOMAIN calls :
      /\ \A j \in 1 .. i : ~Before(place[i], place[j])
      /\ IsValueAfter(calls[i].OldVal, UpTo(place[i]), KeyArg[calls[i].id])
      /\ \A p \in UpTo(place[i]) : At(p) # calls[i].id

=============================================================================
