------------------------------ MODULE Runtime ------------------------------
(***************************************************************************)
(* The transaction path of one runtime: the goroutines of the HTTP server  *)
(* that handle Add (SetHandler), and the one that handles what the         *)
(* ordering service sends (waitForOrderingMessages).                       *)
(*                                                                         *)
(* A Request stands for one call of Add, with the transaction and the      *)
(* MessageId it makes.  The clients are registered and have a wasm module. *)
(* The Store is known by the transactions written into it, in order, which *)
(* determine the value of every key.                                       *)
(***************************************************************************)
EXTENDS Naturals, Sequences, FiniteSets, SequencesExt

CONSTANTS
  Request,    \* calls of Add on this runtime
  Foreign,    \* transactions of other runtimes
  ClientOf,   \* the name (Hash) of the client that makes each of them; two
              \* runtimes may each have a client of one name
  MaxBlock,   \* bound: transactions in a block
  MaxCrashes, \* bound: crashes of the runtime
  MaxFaults,  \* bound: saves that fail
  None        \* "no request", "no message"

Transaction == Request \cup Foreign
Client == {ClientOf[t] : t \in Transaction}

ASSUME RuntimeAssumption ==
  /\ Request \cap Foreign = {}
  /\ None \notin Transaction
  /\ ClientOf = [t \in Transaction |-> ClientOf[t]]
  /\ MaxBlock \in Nat \ {0}
  /\ MaxCrashes \in Nat
  /\ MaxFaults \in Nat

VARIABLES
  pc,              \* SetHandler: where each Request is, or how it was answered
  mu,              \* the Request that holds the Runtime's mutex
  ClientMessages,  \* the ids each client waits for
  listener,        \* program counter of waitForOrderingMessages
  frame,           \* the message it read last, with the transactions still to
                   \* be written to the Store
  Store,           \* the transactions written to Environment.Store
  disk,            \* /data/secret.store: whether it is whole, and its Store
  link,            \* the websocket to the ordering service
  inbox,           \* frames on it
  mine,            \* Requests sent on this connection
  sent,            \* transactions that reached the ordering service
  replied,         \* those it sent an ack or the block they completed for
  log,             \* the blocks it made
  crashes, faults

requestVars  == <<pc, mu, ClientMessages>>
listenerVars == <<listener, frame, Store, disk>>
netVars      == <<link, inbox, mine>>
orderingVars == <<sent, replied, log>>
vars == <<requestVars, listenerVars, netVars, orderingVars, crashes, faults>>

Frame == [txs : Seq(Transaction), ack : BOOLEAN, id : Transaction]

Logged == UNION {{log[b][i] : i \in DOMAIN log[b]} : b \in DOMAIN log}

Busy == {"lock", "call", "send", "select"}
Answers == {"ACK", "timeout", "error", "lost"}

\* While main has not got to the HTTP server; "new" until it has made the file.
Starting == {"new", "making", "down"}

\* The first start is still to come, with no file to load, or is over.
Init ==
  /\ pc = [r \in Request |-> "new"]
  /\ mu = None
  /\ ClientMessages = [c \in Client |-> {}]
  /\ \/ listener = "new" /\ link = "closed" /\ disk = [whole |-> FALSE, store |-> <<>>]
     \/ listener = "read" /\ link = "open" /\ disk = [whole |-> TRUE, store |-> <<>>]
  /\ frame = None
  /\ Store = <<>>
  /\ inbox = <<>>
  /\ mine = {}
  /\ sent = Foreign
  /\ replied = {}
  /\ log = <<>>
  /\ crashes = 0
  /\ faults = 0

-----------------------------------------------------------------------------
(***************************************************************************)
(* SetHandler.                                                             *)
(***************************************************************************)

\* The timer starts before the mutex is asked for.
Arrive(r) ==
  /\ pc[r] = "new"
  /\ listener \notin Starting
  /\ pc' = [pc EXCEPT ![r] = "lock"]
  /\ UNCHANGED <<mu, ClientMessages, listenerVars, netVars, orderingVars,
                 crashes, faults>>

Lock(r) ==
  /\ pc[r] = "lock"
  /\ mu = None
  /\ mu' = r
  /\ pc' = [pc EXCEPT ![r] = "call"]
  /\ UNCHANGED <<ClientMessages, listenerVars, netVars, orderingVars, crashes, faults>>

\* The arguments are parsed, the client's function is called, and if it returns
\* the id of the new message is registered; or the handler returns before that,
\* as the arguments do not parse or the function traps.
UseWasmFunction(r) ==
  /\ pc[r] = "call"
  /\ \/ /\ pc' = [pc EXCEPT ![r] = "send"]
        /\ ClientMessages' = [ClientMessages EXCEPT ![ClientOf[r]] = @ \cup {r}]
        /\ UNCHANGED mu
     \/ /\ pc' = [pc EXCEPT ![r] = "error"]
        /\ mu' = None
        /\ UNCHANGED ClientMessages
  /\ UNCHANGED <<listenerVars, netVars, orderingVars, crashes, faults>>

\* sendToOrdering.  A write on a broken connection fails, or is lost.  The id
\* of a message that could not be sent stays registered.
Send(r) ==
  /\ pc[r] = "send"
  /\ \/ /\ link = "open"
        /\ sent' = sent \cup {r}
        /\ mine' = mine \cup {r}
        /\ pc' = [pc EXCEPT ![r] = "select"]
        /\ UNCHANGED mu
     \/ /\ link = "closed"
        /\ pc' = [pc EXCEPT ![r] = "select"]
        /\ UNCHANGED <<sent, mine, mu>>
     \/ /\ link = "closed"
        /\ pc' = [pc EXCEPT ![r] = "error"]
        /\ mu' = None
        /\ UNCHANGED <<sent, mine>>
  /\ UNCHANGED <<ClientMessages, listenerVars, link, inbox, replied, log, crashes,
                 faults>>

\* Fault: the handler returns without the deferred Unlock.
TimeOutLocked(r) ==
  /\ pc[r] = "select"
  /\ pc' = [pc EXCEPT ![r] = "timeout"]
  /\ UNCHANGED <<mu, ClientMessages, listenerVars, netVars, orderingVars,
                 crashes, faults>>

\* The select, when the timer has fired.  The id stays registered.
TimeOut(r) ==
  /\ pc[r] = "select"
  /\ pc' = [pc EXCEPT ![r] = "timeout"]
  /\ mu' = None
  /\ UNCHANGED <<ClientMessages, listenerVars, netVars, orderingVars, crashes,
                 faults>>

\* The select, when waitForOrderingMessages sends on the client's unbuffered
\* channel: whichever request of that client is there takes the ACK.
Deliver(r) ==
  /\ pc[r] = "select"
  /\ listener = "deliver"
  /\ ClientOf[r] = ClientOf[frame.id]
  /\ pc' = [pc EXCEPT ![r] = "ACK"]
  /\ mu' = None
  /\ listener' = "delete"
  /\ UNCHANGED <<ClientMessages, frame, Store, disk, netVars, orderingVars,
                 crashes, faults>>

-----------------------------------------------------------------------------
(***************************************************************************)
(* waitForOrderingMessages.                                                *)
(***************************************************************************)
IsBlock(f) == f.txs # <<>> /\ ~f.ack

\* Fault: the loop leaves out the last transaction.
AllButLast(f) == SubSeq(f.txs, 1, Len(f.txs) - 1)

\* Fault: the loop runs backwards.
Backwards(f) == Reverse(f.txs)

\* The transactions setTransactionsInEnvironment will write, in order.
Written(f) == f.txs

ListenRead ==
  /\ listener = "read"
  /\ inbox # <<>>
  /\ frame' = [Head(inbox) EXCEPT !.txs = Written(Head(inbox))]
  /\ inbox' = Tail(inbox)
  /\ listener' = IF IsBlock(Head(inbox)) THEN "apply" ELSE "match"
  /\ UNCHANGED <<requestVars, Store, disk, link, mine, orderingVars, crashes, faults>>

\* Nothing dials again: the runtime goes on without a listener.
ListenError ==
  /\ listener = "read"
  /\ link = "closed"
  /\ listener' = "done"
  /\ inbox' = <<>>
  /\ UNCHANGED <<requestVars, frame, Store, disk, link, mine, orderingVars,
                 crashes, faults>>

\* A round of setTransactionsInEnvironment's loop, or its end: requests come
\* in between, as the Store has no lock.
Apply ==
  /\ listener = "apply"
  /\ IF frame.txs = <<>>
       THEN /\ listener' = "save"
            /\ UNCHANGED <<frame, Store>>
       ELSE /\ Store' = Append(Store, Head(frame.txs))
            /\ frame' = [frame EXCEPT !.txs = Tail(@)]
            /\ UNCHANGED listener
  /\ UNCHANGED <<requestVars, disk, netVars, orderingVars, crashes, faults>>

\* Fault: the save is left out.
NoSave ==
  /\ listener = "save"
  /\ listener' = "match"
  /\ UNCHANGED <<requestVars, frame, Store, disk, netVars, orderingVars,
                 crashes, faults>>

\* mustSaveState: os.WriteFile truncates the file before it writes it.  An
\* error before that leaves the file alone; the caller ignores it.
SaveBegin ==
  /\ listener = "save"
  /\ \/ /\ listener' = "writing"
        /\ disk' = [whole |-> FALSE, store |-> <<>>]
        /\ UNCHANGED faults
     \/ /\ faults < MaxFaults
        /\ faults' = faults + 1
        /\ listener' = "match"
        /\ UNCHANGED disk
  /\ UNCHANGED <<requestVars, frame, Store, netVars, orderingVars, crashes>>

\* The write completes, or fails and leaves the file in part.
SaveEnd ==
  /\ listener = "writing"
  /\ listener' = "match"
  /\ \/ /\ disk' = [whole |-> TRUE, store |-> Store]
        /\ UNCHANGED faults
     \/ /\ faults < MaxFaults
        /\ faults' = faults + 1
        /\ UNCHANGED disk
  /\ UNCHANGED <<requestVars, frame, Store, netVars, orderingVars, crashes>>

\* Fault: the client is looked up, the message id is not.
KnownClient(f) == \E r \in Request : ClientOf[r] = ClientOf[f.id]

\* Whether a client of this runtime waits for the message.
Awaited(f) == f.id \in ClientMessages[ClientOf[f.id]]

Match ==
  /\ listener = "match"
  /\ \/ /\ Awaited(frame)
        /\ listener' = "deliver"
        /\ UNCHANGED frame
     \/ /\ ~Awaited(frame)
        /\ listener' = "read"
        /\ frame' = None
  /\ UNCHANGED <<requestVars, Store, disk, netVars, orderingVars, crashes, faults>>

\* The id is deleted once a request has taken the ACK.
Delete ==
  /\ listener = "delete"
  /\ ClientMessages' = [ClientMessages EXCEPT ![ClientOf[frame.id]] = @ \ {frame.id}]
  /\ listener' = "read"
  /\ frame' = None
  /\ UNCHANGED <<pc, mu, Store, disk, netVars, orderingVars, crashes, faults>>

-----------------------------------------------------------------------------
(***************************************************************************)
(* The ordering service, as OrderingService shows it to a runtime: it      *)
(* answers a message once, by an ack on the connection it came on or by    *)
(* the block it completes, sent to all; the other messages of a block were *)
(* answered before; every answer may be dropped on a full channel.         *)
(***************************************************************************)
Emit(f) ==
  inbox' \in {inbox} \cup (IF link = "open" THEN {Append(inbox, f)} ELSE {})

OrderingAck(t) ==
  /\ t \in sent \ replied
  /\ replied' = replied \cup {t}
  /\ IF t \in mine THEN Emit([txs |-> <<>>, ack |-> TRUE, id |-> t])
                   ELSE UNCHANGED inbox
  /\ UNCHANGED <<requestVars, listenerVars, link, mine, sent, log, crashes, faults>>

OrderingBlock(t) ==
  /\ t \in sent \ replied
  /\ \E n \in 0 .. MaxBlock - 1 : \E s \in [1 .. n -> replied \ Logged] :
       /\ IsInjective(s)
       /\ log' = Append(log, Append(s, t))
       /\ Emit([txs |-> Append(s, t), ack |-> FALSE, id |-> t])
  /\ replied' = replied \cup {t}
  /\ UNCHANGED <<requestVars, listenerVars, link, mine, sent, crashes, faults>>

\* The last frames on the way may be lost with the connection.
Disconnect ==
  /\ link = "open"
  /\ link' = "closed"
  /\ \E n \in 0 .. Len(inbox) : inbox' = SubSeq(inbox, 1, n)
  /\ mine' = {}
  /\ UNCHANGED <<requestVars, listenerVars, orderingVars, crashes, faults>>

-----------------------------------------------------------------------------
(***************************************************************************)
(* The process dies, be it that Go's runtime meets the Store or a          *)
(* ClientMessages in use by two goroutines at once; started again, it      *)
(* loads the Store and dials.  A file it cannot unseal ends main.          *)
(***************************************************************************)
Crash ==
  /\ crashes < MaxCrashes
  /\ listener \notin {"new", "down"}
  /\ crashes' = crashes + 1
  /\ pc' = [r \in Request |-> IF pc[r] \in Busy THEN "lost" ELSE pc[r]]
  /\ mu' = None
  /\ ClientMessages' = [c \in Client |-> {}]
  /\ listener' = "down"
  /\ frame' = None
  /\ Store' = <<>>
  /\ link' = "closed"
  /\ inbox' = <<>>
  /\ mine' = {}
  /\ UNCHANGED <<disk, orderingVars, faults>>

\* loadState, when there is no file: mustSaveState makes one ...
MakeFile ==
  /\ listener = "new"
  /\ listener' = "making"
  /\ UNCHANGED <<requestVars, frame, Store, disk, netVars, orderingVars, crashes,
                 faults>>

\* ... with the empty Store; a write that fails ends main.
MakeEnd ==
  /\ listener = "making"
  /\ listener' = "down"
  /\ \/ /\ disk' = [whole |-> TRUE, store |-> Store]
        /\ UNCHANGED faults
     \/ /\ faults < MaxFaults
        /\ faults' = faults + 1
        /\ UNCHANGED disk
  /\ UNCHANGED <<requestVars, frame, Store, netVars, orderingVars, crashes>>

\* loadState reads the file, and main dials.
Start ==
  /\ listener = "down"
  /\ disk.whole
  /\ Store' = disk.store
  /\ link' = "open"
  /\ listener' = "read"
  /\ UNCHANGED <<requestVars, frame, disk, inbox, mine, orderingVars, crashes,
                 faults>>

\* No request is left and no answer is due, or the runtime cannot start.  A
\* self-loop, so that TLC reports any other state without a successor.
Idle ==
  /\ \/ listener \in {"read", "done"} /\ inbox = <<>>
     \/ listener = "deliver"
     \/ listener = "down" /\ ~disk.whole
  /\ \A r \in Request : pc[r] \notin Busy
  /\ UNCHANGED vars

SetHandler(r) ==
  Lock(r) \/ UseWasmFunction(r) \/ Send(r) \/ TimeOut(r) \/ Deliver(r)

Listener ==
  \/ ListenRead \/ ListenError \/ Apply \/ SaveBegin \/ SaveEnd \/ Match \/ Delete

Next ==
  \/ \E r \in Request : Arrive(r) \/ SetHandler(r)
  \/ Listener
  \/ \E t \in Transaction : OrderingAck(t) \/ OrderingBlock(t)
  \/ Disconnect
  \/ Crash
  \/ MakeFile \/ MakeEnd \/ Start
  \/ Idle

Spec == Init /\ [][Next]_vars

\* Timers fire and goroutines run; sync.Mutex does not starve a waiter.  None
\* is assumed of the clients, of the ordering service or of the network: the
\* wasm function of a client may never return, and the write in Send, which
\* has no deadline, may never complete.
Fairness ==
  /\ \A r \in Request : SF_vars(Lock(r)) /\ WF_vars(TimeOut(r))
  /\ WF_vars(Listener)

FairSpec == Spec /\ Fairness

-----------------------------------------------------------------------------
(***************************************************************************)
(* Properties.                                                             *)
(***************************************************************************)

\* Every variable has its type, the mutex is held by the one request between
\* Lock and Unlock, and the listener has a message from reading it to
\* deleting its id.
TypeOK ==
  /\ pc \in [Request -> {"new"} \cup Busy \cup Answers]
  /\ mu \in Request \cup {None}
  /\ \A r \in Request : pc[r] \in {"call", "send", "select"} <=> mu = r
  /\ ClientMessages \in [Client -> SUBSET Request]
  /\ listener \in {"read", "apply", "save", "writing", "match", "deliver",
                   "delete", "done"} \cup Starting
  /\ frame \in IF listener \in {"read", "done"} \cup Starting THEN {None} ELSE Frame
  /\ Store \in Seq(Transaction)
  /\ disk \in [whole : BOOLEAN, store : Seq(Transaction)]
  /\ link \in {"open", "closed"}
  /\ inbox \in Seq(Frame)
  /\ mine \subseteq Request \cap sent
  /\ sent \subseteq Transaction
  /\ replied \subseteq sent
  /\ log \in Seq(Seq(Transaction))
  /\ crashes \in 0 .. MaxCrashes
  /\ faults \in 0 .. MaxFaults

\* A client is told ACK at most once for every message of its own that the
\* ordering service answered, though not for which: the channel carries no
\* id, and another runtime may have a client of the same name.
AcksAccountedFor ==
  \A c \in Client :
    Cardinality({r \in Request : ClientOf[r] = c /\ pc[r] = "ACK"})
      <= Cardinality({r \in Request \cap replied : ClientOf[r] = c})

\* The Store follows the log: what is written into it, across crashes and
\* missed blocks, is in the order of the log, each transaction once.
Precedes(blocks, t, u) ==
  \A b, c \in DOMAIN blocks : \A i \in DOMAIN blocks[b], j \in DOMAIN blocks[c] :
    blocks[b][i] = t /\ blocks[c][j] = u => b < c \/ (b = c /\ i < j)

StoreFollowsLog ==
  /\ \A i \in DOMAIN Store : Store[i] \in Logged
  /\ \A i, j \in DOMAIN Store : i < j => Precedes(log, Store[i], Store[j])

\* A block is in the file whole or not at all, so a runtime that can start
\* starts from a state between two blocks.
DiskHasWholeBlocks ==
  disk.whole =>
    \A b \in DOMAIN log :
      LET on == {i \in DOMAIN log[b] : \E j \in DOMAIN disk.store : disk.store[j] = log[b][i]}
      IN  on = {} \/ on = DOMAIN log[b]

\* A block is on disk before the request that completed it is answered, and
\* before the next message is read: unless a save failed, whose error no one
\* looks at.
SavedBeforeAnswer ==
  faults = 0 /\ listener \in {"read", "match", "deliver", "delete"}
    => disk = [whole |-> TRUE, store |-> Store]

\* An Add that waits for the ordering service is answered, whatever the
\* listener is blocked on.  One that waits for the mutex is, too, but for the
\* mutex being held for ever by a call of a wasm function that does not return,
\* or a write on the websocket that does not: the timer bounds neither.
HeldForEver == \E q \in Request : [](pc[q] \in {"call", "send"})

AddAnswered ==
  \A r \in Request : /\ pc[r] = "select" ~> pc[r] \in Answers
                    /\ pc[r] = "lock" ~> (pc[r] \in Answers \/ HeldForEver)

-----------------------------------------------------------------------------
(***************************************************************************)
(* What comments of the program say and its code does not do.              *)
(***************************************************************************)

\* handleclient.go:156 "wait for ack from orderingservice": an Add answered
\* with ACK is one the ordering service answered.
AckIsOwn == \A r \in Request : pc[r] = "ACK" => r \in replied

\* runtime/main.go:79 "wait for all messages from orderingservice": while
\* the connection stands, a message that came is read.
AllMessagesRead == inbox # <<>> ~> (inbox = <<>> \/ link = "closed")

=============================================================================
