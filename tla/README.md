# Bachelor_Ego in TLA+

Bachelor_Ego runs smart contracts (wasm modules) for clients inside enclaves.
Several *runtimes* execute the contracts, and one *ordering service* puts the
resulting transactions into a chain of blocks that every runtime applies to its
own key-value store. This directory holds TLA+ modules of that system, the TLC
configurations that check them and theorems the TLA+ proof system proves.

    tlc -workers 2 -config OrderingSafety.cfg MCOrderingService.tla
    tlapm OrderingServiceSafety_proofs.tla

## 1. The system

    client --HTTPS Init/Upload/Add--> runtime <--websocket--> ordering service
                                        |                          |
                                /data/secret.store        files/blockFiles/*.json

A client calls `Add`; the runtime calls the client's wasm function, which returns
key, new value and old value, and sends them as a transaction. The ordering
service pools the transactions of all runtimes. When a connection has sent five
(`blockSize`), the pool becomes a block: it is stored and broadcast. Every other
transaction is answered with an ack. The runtime answers `Add` when the ack, or
the block the transaction completed, comes back, or after five seconds.

### Inventory

| component | state | operations | correct when |
|---|---|---|---|
| ordering service, transaction path (`orderingservice/main.go`, `runtimeclients.go`) | `runtime_clients`, `allTransactions`, `mu`, a counter per ReadPump, the unbuffered channel to the builder, a `Send` channel of capacity 1 per connection | `handlerTransaction`, `ReadPump`, `waitForBlockFromRuntimeTransactions`, `BroadcastMessage`, `WritePump` | a transaction is committed at most once and never lost but by a crash; an answer names a transaction the service has; runtimes get blocks in the order of the chain; no runtime stops the others |
| block files and hash chain (`orderingservice/main.go`, `blockchain/`) | `Blocks`, the directory of files | `AddNewblock`, `addBlockFile`, `readAllBlockFiles` | a restart reads back the chain that was written |
| runtime, transaction path (`runtime/main.go`, `handleclient.go`) | the runtime's mutex, `Store`, `ClientMessages`, `WaitForAckFromOrdering`, the sealed file | `SetHandler`, `sendToOrdering`, `waitForOrderingMessages`, `setTransactionsInEnvironment`, `mustSaveState`, `loadState` | the Store and the file follow the chain; every Add is answered, with ACK only for what was ordered |
| runtime, client registry (`handleclient.go`, `client.go`) | `AllClients`, each client's wasm file, instance and function | `InitHandler`, `UploadHandler`, `GetClient` | one client per name; a client with a module can be called |
| wasm host function (`wasmcounter.go`, `client.go`) | none of its own, reads `Store` | `math.set`, `UseWasmFunction` | new value is the given one plus one, old value is the Store's |
| local attestation (`orderinglocalattestation`, `runtimelocalattestation`, `verifyreport`, the mains) | certificates, reports, the two ports of the service | `/cert`, `/report`, `/client`, `VerifyReport`, the TLS dial | a websocket only between enclaves that accept each other, with nothing used that an earlier process left |
| client command line (`client/main.go`) | none | INIT, UPLOAD, SET | |
| load drivers (`test/`), wasm sample (`WasmTest/`), vendored `wasmer/`, scripts | none of the system's | | |

Components interact by the two kinds of websocket message
(`messageFromRuntime`, `SendBackToRuntime`), and inside each process by channels,
mutexes and, in several places, memory shared without either.

### What is hard here

* *Concurrency.* The pool, the registry of connections, the Store and the maps of
  clients are shared by goroutines, some under a mutex, some not. ReadPump holds
  the mutex while it sends on an unbuffered channel.
* *Limits.* `Send` has room for one frame; a full one ends the broadcast.
* *Timeouts.* An Add may time out and its ACK come later.
* *Failure.* Either process may crash with messages pooled, a file half written
  or a connection broken; nothing is sent again and nothing dials again.
* *Stale data.* A contract is called with the Store of that moment, be it in the
  middle of a block; a runtime asks for certificate, report and websocket one
  after the other, and the service may be another process each time.
* *Numbers.* Key and value go from Go's int to wasm's I32 and one is added there.

`PROJECT.json` lists each hazard with its line and the properties aimed at it.

## 2. The modules

| module | role |
|---|---|
| `TransactionLog` | what the ordering service promises, with no goroutine in it |
| `OrderingService` | the ordering service's transaction path, and the refinement mapping to `TransactionLog` |
| `MCOrderingService` | symmetry, for TLC |
| `OrderingService_proofs` | type correctness |
| `OrderingServiceSafety_proofs` | the inductive invariant and the safety theorems |
| `OrderingServiceLog_proofs` | answers, quotas, and the refinement of `TransactionLog` |
| `BlockStore` | the chain in memory and its directory of files, across crashes |
| `BlockStore_proofs` | all properties of chain and directory |
| `Runtime` | one runtime's transaction path, with the ordering service as environment |
| `BachelorEgo` | `OrderingService` and `Runtime` joined by a websocket, with keys and values as the host function makes them, and `OrderingService` shown to be the environment `Runtime` supposes |
| `ClientRegistry` | one runtime's clients: Init, Upload and Add as concurrent handlers |
| `MCClientRegistry` | names of clients and symmetry, for TLC |
| `Runtime_proofs` | type correctness, what is in Store and file when, and the count of answers |
| `ClientRegistry_proofs` | all properties of the registry |
| `MCRuntime` | names of clients and symmetry, for TLC |
| `BachelorEgo_proofs` | that the service fits the runtime, and what follows for the two: acks, types, the map, old values, the order of calls |
| `MCBachelorEgo` | arguments of the Adds, symmetry and a bound, for TLC |
| `Attestation` | how a runtime comes by its connection, while services end and start |
| `MCAttestation` | what the reports say of each process, for TLC |
| `Attestation_proofs` | type correctness and what the ends of a websocket know of each other |

Operators whose comment begins with "Fault:" are single plausible mistakes in the
definition that follows them; they are used nowhere, and substituting one for that
definition makes TLC report the property the pair stands for.

### OrderingService and the code

Each goroutine is a program counter with an action for every step another
goroutine can observe.

| code | model |
|---|---|
| `handlerTransaction` | `Accept` reads the slice, `Register` stores the longer one and starts the pumps: `append` to a shared slice is a read and a write. When the array has room, `append` writes in place, which changes what a broadcast or another handler finds in its copy of the slice header (`Overwritten`). The element and the header of the longer slice are stored in one step |
| `ReadPump` | `ReadMessage` / `ReadError`; `Pool` (lock, count, append, branch); `HandOver` (the rendezvous with the builder); `Unlock` (reset of the pool, unlock) |
| `waitForBlockFromRuntimeTransactions` | `HandOver` receives, `AddBlock` extends the chain and stores the file, `Cast` is one round of `BroadcastMessage` |
| `select` with `default: return` | `Cast` with `HasRoom` false: the rest of `todo` is dropped |
| `WritePump` | `Take` and `Write`; on a closed connection it goes on taking and failing, as the code's `continue` does |
| process crash, restart | `Restart`: the chain is kept, everything else starts empty |
| runtimes and network | `Submit`, `Receive`, `Disconnect` |

`frames[c]` keeps all frames ever put into `c`'s Send channel, and `taken`,
`written` and `seen` count how far the WritePump, the transport and the runtime have
come; the channel's content is what lies between `taken` and the end. This keeps
the history the order properties need.

`Log` maps this state to `TransactionLog`: `pending` is what the service holds and
has in no block, `log` is `Blocks`, and `given` is what each runtime has read
(`Given`): of each frame the transaction it tells of and its block's place in the
chain, 0 for an ack. The mutex, the hand-over of the pool, the broadcast and the
channels are steps of which the log sees nothing, or just one: a transaction is
accepted by `Pool`, a block is committed by `AddBlock`, and a runtime is told by `Receive`.

Abstracted: a `Message` stands for its transaction, its MessageId (a fresh uuid,
so a Message is sent once) and its ClientHash; the genesis block, time stamps, hashes
and file names are left out; a runtime that dials again is another member of
`Conn`. `Disconnect` is always possible, and what the runtime had sent may or may
not arrive. A restart takes the chain as stored, which `BlockStore` justifies for names
in order (`StoredChainGrows`) and no torn file. The model lets `append` write over any entry stored since the handler
read its slice, which includes the one place the code would write. `Register` stores that element
and the slice's new header in one step; in the code another handler, or the call of a broadcast,
may read the old header between the two stores. It then has the slice it would have
read just before, with that entry in place.

### BlockStore and the code

| code | model |
|---|---|
| `main` up to the servers | `Boot`: the chain starts with the genesis block; its file is written when there is none, the directory is read when there is one |
| `addBlockFile` | `OpenFile` makes or empties the file, `WriteFile` completes it; an error ends the process, as `Crash` does |
| `waitForBlockFromRuntimeTransactions` | `AddBlock` links the block and takes its file's name from `clock`, then the file is written, then `Publish` stands for the broadcast |
| `readAllBlockFiles` | `Boot` takes the names `ReadDir` returns into `unread`; each step of `readAllBlockFiles` is one round of the loop, which reads the least of them (`IsNext`) and puts its block into the chain (`Loaded`), so that the process may end between two files; one file that does not parse ends `main`, now and at every later start |
| `calculateHash` | the sequence of Data a hash was computed from: SHA-256 without collisions |

`clock` advances by one for each block and may be set back (`SetBack`), to any
earlier reading; the names may then be out of order or equal. A name keeps its
number of digits, as the nanoseconds since 1970 do from 2001 to 2286. Time stamps, which
no hash includes, are left out, and so are files of other kinds in the directory.

### Runtime and the code

| code | model |
|---|---|
| `SetHandler` | `Arrive` (the timer is started), `Lock`, `UseWasmFunction` (the wasm call and the id registered, or an early return), `Send`, then the select: `Deliver` or `TimeOut`; each end releases the mutex, as the deferred Unlock does |
| `waitForOrderingMessages` | `ListenRead` / `ListenError`, `Apply` (one transaction of the block, as an Add may read the Store between two), `SaveBegin` and `SaveEnd`, `Match`, `Deliver` (the rendezvous on `WaitForAckFromOrdering`), `Delete` |
| `os.WriteFile` in `mustSaveState` | `SaveBegin` truncates, `SaveEnd` completes; either may fail, and the caller goes on |
| `loadState` with no file | `MakeFile` and `MakeEnd`, the `os.WriteFile` of the empty Store; a crash or an error in between leaves a torn one |
| `loadState` with a file, the dial in `main` | `Start`, impossible when the file is torn (main panics) |
| ordering service and network | `OrderingAck`, `OrderingBlock`: every transaction answered at most once, any answer lost; `Disconnect`, which may lose the last frames on the way |

`Init` is a runtime whose first start is still to come, or one that has made its file and
dialled. A request stays in "call" as long as the wasm function runs, and in "send"
as long as the write on the websocket does.

The Store is modelled by the sequence of transactions written into it, which
determines the value of each key. Two runtimes may each have a client of one name,
so `ClientOf` maps foreign transactions to names too. After a crash, clients are
taken to have called Init and Upload again before they call Add; the maps that two
goroutines use without a lock make Go end the process, which `Crash` covers.

### BachelorEgo and the code

`O` is an instance of `OrderingService` with the same variables, `R` one of
`Runtime`. An action is one of `O`, one of `R`, or both where the websocket is used:

| code | model |
|---|---|
| `sendToOrdering` to `ReadMessage` | `Send`: `O!Submit(Here, r) /\ R!Send(r)`; on a connection that is gone `SendFails` |
| `conn.WriteMessage` to `waitForOrderingMessages` | `ListenRead`: `O!Receive(Here) /\ R!ListenRead` |
| the HTTP server of `main` | `Arrive`, once `main` has dialled |
| `math.set` (`wasmcounter.go:38`) | `Key`, `NewVal`, `OldVal`, called in `UseWasmFunction` on the Store of that moment; `Int32` is the conversion of Go's int to `wasmer.NewI32` and the addition in I32 |
| `setTransactionsInEnvironment` | `Apply`: a round of its loop, which writes one key of `env` |
| `Environment.Store` | `env`, the map with its values; `Store` is `Runtime`'s view of it, the transactions written so far |
| the other runtimes | `OtherRuntimes`: they send and read in any order `OrderingService` allows |

`calls` keeps what `math.set` returned; the code puts it into the transaction.

`ServiceFitsRuntime` is `R!Spec`, with `Runtime`'s network and ordering variables
mapped to the service's: the inbox to the frames not yet read, `sent` to what was
submitted, `replied` to the messages the service holds and has answered, or will not
any more, `log` to the chain. A block counts as known when the broadcast comes
to the runtime, or can not come any more (`BlockPending`), since that is the step in
which a frame is put into its channel or dropped. So the hand-written environment
of `Runtime`, under which its properties are checked with crashes and faults,
allows all that the service does.

Neither process crashes here: a Store that is lost or a service that starts
again is the subject of `Runtime`, `OrderingService` and `BlockStore`.

### Attestation and the code

| code | model |
|---|---|
| ordering service, `main` | `ServiceStart`, `ListenAttest` (:8087) and `ListenSecure` (:443) in any order; a port that is taken ends the process, by a panic or the return of `main`; `End`, which closes ports and websockets; `Expire`: the certificate is good for an hour and never renewed |
| runtime, `main` | `GetCert`, `GetReport`, `GetClient`, `Dial`: each meets the process that has the port at that moment, each failure is a panic (`Panic`); `Start` is a start or restart |
| `/report`, `VerifyReport` | `ServerReport`, `ReportAccepted`: the report is on the hash of the certificate, targeted at the runtime's enclave |
| `/client`, `VerifyReport` | `ClientReport`, `ClientAccepted`: on the runtime's key, targeted at the enclave of the server's report; `issued` has what was signed |
| TLS of both ends | `ServerTrusted`, `ClientTrusted`: one root each, the certificate the runtime got and the service's own, with its expiry |

A certificate, and a key, is known by the process that made it. `Enclave` is what
a report can say of a process: a unique id, signer, product, version and debug.
Reports are taken to be what the hardware makes them: only the
target can verify one, and it says what is so.

### ClientRegistry and the code

| code | model |
|---|---|
| `InitHandler` | `InitLookup` and `InitStore`: another handler may run in between |
| `UploadHandler` | `UploadLookup`, `SetWasmFile` (the body is decoded into the object's file), `NewModule` (the file is read), `NewInstance`, `GetRawFunction` (of the object's instance, whoever made it), `SetFunction`; each may be the end of an Upload |
| `SetHandler` | `AddLookup` (with the mutex), `AddCheck` (`WasmFileExist`, key and value), `UseWasmFunction`, `Answer` |
| `allclients[ClientHash]` in `waitForOrderingMessages` | `Answer`: only an Add whose object is registered can be answered |

A module is known by its identity and by what wasmer does with it: it exports
`add_one` (`Contract`), can be instantiated only (`Library`), or neither (`Broken`); of
the empty file either may be true. `GetNewWasmInstace` drops the error of
`NewModule`, so that a broken module ends in an error or in a panic, which the HTTP
server recovers from. All of this state is in memory: a crash is a return to
`Init`. `Runtime` has the ids an Add waits for and late answers; here an Add is
answered or times out.

## 3. What is checked

| run | instance | shows |
|---|---|---|
| `OrderingSafety` | 2 connections, 4 messages, quota 2, SendCap 1, WireCap 1 | `TypeOK`, `CommittedOnce`, `NothingLost`, `PoolShare`, `BlockBound`, `RepliesHeld`, `RepliedOnce`, `BlocksInOrder` |
| `OrderingCrash` | 2 connections, 3 messages and a malformed one, quota 2, one crash | `ImplementsLog`: every step is one of `TransactionLog` or a stutter; `NothingLost`: none but the crash forgets a message, acked or not |
| `OrderingProgress` | 2 connections that never read (WireCap 0), 3 messages, quota 3 | `PumpProgress` |
| `BlockFiles` | 4 blocks, 6 clock readings, 2 crashes, the clock set back once | `TypeOK`, `PublishedIsDurable`, `MemoryMatchesFiles`, `TornIsLast`, `StoredChainGrows` |
| `RuntimeSafety` | 2 requests of one client, 2 foreign transactions, the first start, one crash, one failed save | `TypeOK`, `AcksAccountedFor`, `StoreFollowsLog`, `DiskHasWholeBlocks`, `SavedBeforeAnswer` |
| `RuntimeProgress` | the same without crash and failed save | `AddAnswered`: the wait for the ordering service ends; the wait for the mutex does unless a wasm function or a write never returns |
| `SystemSafety` | the service with a runtime in full and one beside it, 2 messages of each, one name of a client for both, quota 2, a connection that breaks | `TypeOK`, `ProgramOrder`, `AckMeansHeld`, `StoreIsReplay`, `OldValFromChain`, `ServiceFitsRuntime` |
| `Handshake` | 3 processes of the service, one signed with another key; 2 runtimes, one with the README's product number; 3 starts of runtimes | `TypeOK`, `PeersVerified`, `OneService`, `SteadyConnects` |
| `RegistrySafety` | 2 Inits, 3 Uploads and an Add of one name, 2 contracts, a library, a broken module, the empty file, a body without the field and one that is not JSON | `TypeOK`, `AnswerFound`, `UploadServes`, `FunctionOfFile`, `FunctionKept` |

Runs in which TLC finds the code to do otherwise than a comment of the program
says:

| run | property | the code |
|---|---|---|
| `BroadcastDrops` | `BroadcastReachesAll` | one full channel ends the broadcast for the runtimes after it, though theirs have room (`runtimeclients.go:114`) |
| `StaleAck` | `AckIsOwn` | a late ACK answers the next request of that client (`handleclient.go:158`) |
| `BlockedListener` | `AllMessagesRead` | a late ACK finds no receiver and the listener blocks for good (`runtime/main.go:108`) |

Two more consequences of the code are part of the models and have no run of their own:

* two handlers that `append` at once lose a registration
  (`orderingservice/main.go:180`): that runtime gets no frame, its transactions are
  ordered (`Register`), though `main.go:213` has the block sent to all connected runtimes;
* files are read back in the order of the wall clock (`orderingservice/main.go:207`, "so it
  gets stored sequentially"): once the clock was set back, the chain after a restart is another
  (`SetBack`), which is why `StoredChainGrows` is conditional.

One disagreement needs no model: `verifyreport.go` accepts product number 2 and the
`enclave.json` files have 2, while those printed in the repository's `README.md`
have 1. `Handshake` has such a runtime: it panics in `GetClient`, at every start.

### Bounds

* Two connections are enough for every interleaving of two ReadPumps, of two
  handlers and of a broadcast with a connection; the properties relate at most two
  of them. The theorems cover more.
* The program's `blockSize` is 5. Two, with four messages, gives acks, blocks of
  different lengths, a pool shared by connections and a second block in a
  channel that holds the first. `OrderingCrash` has three that
  parse and a quota of two, so that acks and a block come before the crash or after it, and the
  crash finds messages acked and pooled; `OrderingProgress` uses 3, so that acks fill the
  channels first.
* `SendCap` is the program's 1. `WireCap` stands for the buffers of the transport: 1
  lets a writer block behind a slow reader, 0 is a runtime that never reads.
* `MaxRestarts`, `MaxCrashes` and `MaxFaults` of 1 put one crash or failed save at
  every point. `MaxBlock` of 2 gives blocks with and without foreign transactions.
* `BlockFiles`: two crashes give a crash during a start that follows a crash. Four
  blocks put some before, between and after them. One set-back gives every order
  in which one run of names can precede another, and equal names. Its properties
  are conditional on names in order (`Sequential`), which holds of every state
  before a clock is set back.
* `SystemSafety`: `Half` is 2, which makes four I32s (the program's is 2^31), so that the values of the instance reach the
  largest I32 and wrap, and the two runtimes' keys, 1 and 5, are one key after the
  conversion; both write it. `Prompt` lets the other runtime's frames be written and
  read at once, so that the channels that fill are those of the runtime in full;
  `OrderingSafety` has two connections without it. `MayBreak` has that runtime's connection only.
  Four messages with a quota of 2 make two blocks, and the second call of the runtime
  may come before, in the middle of and after the first block.
* `Handshake`: a runtime meets up to three processes in its four requests; three starts
  let one of them come again after a panic or a crash while the other goes on.
* `RegistrySafety` uses one name: calls of different names touch different objects.
  Two Inits race for it, and a third Upload may come between or after two that
  meet. Adds exclude each other by the mutex, so one is enough.
  Its properties leave out the clients that two Inits or two Uploads met at
  (`raced`, `shared`): there a client with its module may be replaced by a second
  one that was answered ACK too (`handleclient.go:48`), and the file of one Upload
  may remain with the function of another (`client.go:83`).
  A client whose first Upload failed, or is not done, has a file and a nil function:
  an Add then ends in a panic (`UseWasmFunction`), and `UploadServes` says that it
  does not once an Upload was answered ACK.
* Symmetry is used in safety runs only: connections, frames that parse, the two
  requests of one client, and calls and contracts of the registry are interchangeable.

Deadlock is checked in every run. `Idle` is enabled only where all
goroutines wait for the environment, or the program has ended, so any other stuck state is reported.

### Fairness

`OrderingService`: the Go scheduler runs every goroutine that can run (weak fairness
of the builder, the handlers and the WritePumps). `sync.Mutex` hands itself over
to a waiter that has waited a millisecond, so a ReadPump that is at the lock again
and again does get it: strong fairness of ReadPump. Nothing is assumed of the
runtimes.

`Runtime`: the listener runs, timers fire (`TimeOut` is weakly fair), and the mutex does not
starve a waiter (`Lock` is strongly fair). Nothing is assumed of clients, network and
ordering service: the uploaded function need not return (no fairness of `UseWasmFunction`;
wasmer runs it without a limit, `client.go:57`), and the write on the websocket need not
either (none of `Send`; it has no deadline, `runtime/main.go:71`). Both are under the mutex and
before the select, so the timer bounds neither. `AddAnswered` therefore promises an Add that waits
for the mutex an answer, or that some request is in its call or its write for
ever (`HeldForEver`). One that waits for the ordering service is always answered.

`Attestation`: a runtime's `main` runs on (weak fairness). Nothing is assumed of
those who start and end processes, nor of the service: `SteadyConnects` says in its
premise what the service must do.

`BachelorEgo` has no fairness; its properties are of safety.

## 4. What is proved

### Ordering service

The theorems hold for every finite set of connections, every set of messages,
every `BlockSize` and `SendCap` of at least one, every `WireCap` and any number
of restarts (`ConstAssumption`).

| theorem | property |
|---|---|
| `TypeCorrect` | `TypeOK` |
| `NoDoubleCommit` | `CommittedOnce` |
| `NoLoss` | `NothingLost` |
| `RepliesAreHeld` | `RepliesHeld` |
| `ChainOrder` | `BlocksInOrder` |

`TypeOK` is inductive. The others are not, and follow from `SafetyInv`, which
follows a transaction from the wire to the chain:

* `MutexInv`: the ReadPump between Lock and Unlock is the holder of the mutex, and
  no pump runs before its connection is registered. It is what keeps the window
  between the hand-over of the pool and its reset closed to others.
* `RegistryInv`: whatever registrations are lost or overwritten, a slice of
  connections has each at most once, and only those whose handler is done.
* `WaitingInv`: a message not yet pooled is at one place of the connection it
  came on, and the service does not hold it.
* `PlaceInv`: a pooled message is in exactly one of the pool, the block in the
  making and the chain, but for that window, when the pool is contained in the
  other two. With `WaitingInv` it gives `CommittedOnce`.
* `AnswerInv`: whoever is about to answer for a message finds it held, which gives
  `RepliesHeld`.
* `ChainInv`: the block being broadcast is the last of the chain, and the
  connections still to come have only earlier ones. With `RegistryInv` (no
  connection twice in the slice) it gives `BlocksInOrder`.

`NothingLost` is an action property: `HeldGrows` shows it of every step from
`PlaceInv`. Each conjunct has a lemma that steps preserve it, with a case per
action that can disturb it. The lemmas about sequences (`ElemsTail`,
`DistinctAppend`, `OnceAppend`, ...) and about what each action does to the set of
held messages (`HeldPool`, `HeldAddBlock`, ...) stand before them.

Three more parts, with `SafetyInv` together `LogInv`, give the theorems of
`OrderingServiceLog_proofs`:

| theorem | property |
|---|---|
| `AnsweredOnce` | `RepliedOnce` |
| `QuotaPerConnection` | `PoolShare` |
| `BlocksBounded` | `BlockBound` |
| `ServiceIsLog` | `ImplementsLog` |

* `ReplyInv`: a message is answered from one place at a time. While it waits for
  the builder, no frame on any channel names it; while the builder has it, none on
  the channels still to be sent to does. It is what makes an ack and a block
  exclude each other.
* `PoolShare` is inductive given `SafetyInv`: a connection's share of the pool grows
  only with its own count, and the pool is reset as a whole.
* `NameInv`: the frame that carries a block names the last transaction of the
  block at its place, and an ack carries none. It is not a property of any run; the step of
  `LogDeliver` needs it.
* `LengthInv`: the pool is the union of the shares of all connections
  (`SharesBound`), so that the block made of it is within the bound before it is in the chain.

`ServiceIsLog` is `InitLog` and `NextLog` joined: each action has a lemma
that it is a step of the log (`PoolAccepts`, `AddBlockCommits`, `ReceiveGives`,
`RestartForgets`), or leaves what the log sees as it is.

### Block files

For any number of blocks, readings of the clock, crashes and set-backs
(`BlockStoreAssumption`: the bounds are numbers):

| theorem | property |
|---|---|
| `StoreTypes` | `TypeOK` |
| `TornFileIsLast` | `TornIsLast` |
| `ReloadIsExact` | `MemoryMatchesFiles` |
| `BroadcastIsDurable` | `PublishedIsDurable` |
| `FilesOnlyGrow` | `StoredChainGrows` |

Except for the types all are about names in order, and so is `ChainInv`: `Sequential`
implies its `Parts`. No step makes names sequential that were not (`SequentialBefore`), so that each
part is shown from the parts. `NamesInv`: a file has a
name that was given to a block, or the genesis file's, and the name being written comes
after all others. `LinkInv`: the files in the order of their names are a chain, each
linked to the one before it, its hash as long as its `Rank`. `LoadInv`: while the
directory is read, the chain in memory is that of the files read so far. `OpenInv`:
the file being written is the last and holds the last block. `TornInv` and
`PublishedInv`: a torn file is the last, and what was broadcast is in a whole one. A restart
may itself crash, between any two files: that `LoadInv` speaks of the files read
so far, and `Boot` starts with none, covers it.

### Attestation

For any processes, runtimes and enclaves, and any number of starts
(`AttestationAssumption`: services and runtimes are different processes, and reports
have the fields they have):

| theorem | property |
|---|---|
| `AttestationTypes` | `TypeOK` |
| `SessionsVerified` | `PeersVerified` |
| `SessionsOfOneService` | `OneService` |

None is inductive alone: that a websocket joins enclaves that accept each other is
decided in three earlier steps, at which the ports may have led elsewhere.
`HandshakeInv` says for each step of `main` what the runtime has by then: after
`GetReport`, that the report is of the process whose certificate it has and
was accepted (`ReportStep`); after `GetClient`, that the signer verified the runtime
(`ClientStep`); with a session, that certificate and signer are the process the
session leads to (`SessionStep`), which the two trust checks of `Dial` give. Panics
are one lemma (`PanicKeeps`), the ends of services another (`EndKeeps`), since both may
come at any step.

### Client registry

For any calls, names and modules (`RegistryAssumption`: calls of different kinds
and modules of different kinds are different, `None` is none of them):

| theorem | property |
|---|---|
| `RegistryTypes` | `TypeOK` |
| `WaitersAreFound` | `AnswerFound` |
| `UploadsServe` | `UploadServes` |
| `FunctionsOfFiles` | `FunctionOfFile` |
| `FunctionsStay` | `FunctionKept` |

They follow from `RegistryInv`. `NameInv`: under a name at which no two Inits met, one
Init at most is about to store, none once a client is stored, so that whatever a call
found there is there still. `CallInv`: an Upload about to set a function has a contract,
and an Upload that was answered ACK left one. `FileInv` follows the one Upload at work on
an object through its steps, file, instance and function (`OwnFile`), and says the same
of the last that was answered.

### Runtime

For any requests, clients and foreign transactions, blocks of any length, any number of
crashes and failed saves (`RuntimeAssumption`):

| theorem | property |
|---|---|
| `RuntimeTypes` | `TypeOK` |
| `SaveComesFirst` | `SavedBeforeAnswer` |
| `WholeBlocksOnDisk` | `DiskHasWholeBlocks` |
| `StoreInOrder` | `StoreFollowsLog` |
| `NoAckMadeUp` | `AcksAccountedFor` |

The first two are inductive, the second given the first. `DiskHasWholeBlocks`
is not: the Store is written to the file, and the Store is in the middle of a block
while the listener applies one. `WholeInv` says that blocks are disjoint and
only what is in one is stored (`LogInv`), that a block on the websocket is one of the
log (`InboxInv`), that each block is whole in the Store or not there at all, but for one
while it is applied, of which just the rest of the frame is missing (`ApplyInv`), and
that the file is a Store between two blocks (`DiskInv`).

`StoreInOrder` adds `OrderInv`: Store, the rest of the frame being applied and the blocks
still on the websocket, one after the other, are in the order of the log. The file's Store
is too, and a runtime that is down, or has not started yet, has no websocket: blocks sent to it after its restart
are new ones, and come after all it has.

`NoAckMadeUp` counts. `AckInv` says that an answer is on the websocket or with the
listener, and there once (`AnswersOnce`), and that, client by client, the Adds that ended in
ACK are no more than the answers used up, those on neither (`AcksCovered`): `Deliver`
adds one to each, and no step takes an answer back. One that is lost or finds
nobody waiting only adds to the answers used up.

### The service and the runtime together

For every finite set of connections and any runtimes behind them, any arguments of the Adds, any
number of I32s (`SystemAssumption`):

| theorem | property |
|---|---|
| `ServiceFitsTheRuntime` | `ServiceFitsRuntime` |
| `AcksAreHeld` | `AckMeansHeld` |
| `SystemTypes` | `TypeOK` |
| `StoreIsReplayed` | `StoreIsReplay` |
| `OldValsAreOfOneHistory` | `OldValFromChain` |
| `CallsAreInOrder` | `ProgramOrder` |

The proofs compose those of the components. Each step of the whole is one of
`OrderingService`, so its invariant holds here (`ServiceHolds`). Upon it rests that each step of
the whole is one of `Runtime` or a stutter (`RuntimeNext`). What the runtime can see of a step of the service is one of
three things, each with a lemma: nothing (`Quiet`), one more message answered, with or
without a frame for it (`AckKnown`), a block that becomes known, with or without its frame
(`BlockKnown`). The steps of the service are then taken one by one: a block becomes known at
the round of the broadcast that comes to the runtime, or at the one that ends it
before (`BroadcastFits`), or when the runtime's registration is over and the slice the
broadcast ranges over can not have it any more (`RegisterFits`); with the connection broken,
at once (`AddBlockFits`, `DisconnectFits`).

Then every theorem about `Runtime` holds of this runtime (`RuntimeHolds`), with the service
in place of the environment it was proved with. `AcksAreHeld` is one of them: while no
request of a client timed out, at most one is waiting and only its own answer can
reach it (`OwnInv` of `Runtime_proofs`), and what is answered here is held.

`StoreIsReplay` compares the map, which is written key by key, with the arguments of the Adds
in the chain. `Applied` is the set of places the listener has written: `LeftInv` says
that the rest of the frame being applied is the end of the block read last, so that a step of `Apply`
adds just the next place (`ApplyOne`), and `EnvInv` that each key has the value of the last
place applied that has it. The lemmas on remainders (`Int32Agrees`, `NewValCongruent`) give what
the conversions to 32 bits and the addition there come to, without a fold or bits: keys
are one if their arguments are congruent, and the value is congruent to the
argument plus one.

`OldValFromChain` asks for a place of the chain for every old value. While no block was
dropped, the blocks given are the first of the chain (`PrefixInv`: a block that is
given, with no gap before, is the next). Then what is applied is the chain up to
some place, be the listener in the middle of a block (`AppliedIsUpTo`), and by `EnvInv` the map
is what the chain up to there makes. That place is the witness for a call made now.
`HistoryInv` keeps the witnesses of the calls made before: each is applied, so the new one
does not go back behind it (`HistoryAppend`), and the chain before a place does not change when
blocks are added (`UpToKept`, `IsValueKept`). The transaction's own place is later, since a
request that has not sent is nowhere with the service (`NotHeldBefore`, which needs `UnsentInv` of
`Runtime_proofs`).

`ProgramOrder` is proved pair by pair. `Earlier(a, b)` says that wherever b is, from the wire
over the ReadPump, the pool and the block in the making to the chain, a is further on.
Each step of the service keeps it (one lemma per action, `EarlierRead` to `EarlierCast`): the
pool is appended to, handed over whole and reset, and blocks are only added. Two
facts start it: a message that is nowhere comes after all others (`NowhereYet`), which covers the
step of the call, and in the step that sends b, all that were called before have
arrived (`SentInv`: the mutex is held from the call to the answer, and what has arrived stays
as long as the connection does, `ArrivedStays`). Malformed frames matter: ReadPump
drops them, so that the lemma for its read asks that a is not one; the runtime's own never are.
`SentInv` says nothing once the connection is closed, when writes may be lost; then
nothing more is sent either.

## 5. What is model-checked only

Every safety property, every action property and the refinement that a passing run checks
is stated by a theorem of section 4. Left to TLC alone is what needs fairness: liveness
(`PumpProgress`, `AddAnswered`, `SteadyConnects`) and ENABLED, which are beyond the proof
system as used here, and the three runs that expect a violation.

## 6. What is not modelled, and the plan

Next: the safety half of the liveness properties, that is, for each wait of a goroutine which other
one has to move (who holds `bt.mu` is before the hand-over or after it; a full channel never makes the
builder wait), as invariants that bound what the fairness has to deliver; and `BlockStore` joined
to `OrderingService`, so that a crash between two steps of the service meets the files.

Not modelled, and not planned:

* the client command line: one request per process, no state;
* the load drivers and the wasm sample, which are not part of the running system.
  The one export the sample has, `add_one`, is in `ClientRegistry` as what a
  `Contract` has, and its call of `math.set` in `BachelorEgo`;
* the headers under `runtime/wasmer/include` and `runtime/c.go`: third-party declarations
  of wasmer's C interface, without bodies, with which the Go binding
  is built. No step of the program is in them, so no definition stands for
  their lines; what wasmer does is modelled from the calls of `wasmcounter.go` and
  `client.go`;
* build scripts and enclave configuration, but for what reports say of it.
