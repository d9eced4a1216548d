----------------------------- MODULE BlockStore -----------------------------
(***************************************************************************)
(* The chain of the ordering service in memory and in its directory of     *)
(* block files, across crashes: main up to the servers, the part of        *)
(* waitForBlockFromRuntimeTransactions that makes a block, addBlockFile    *)
(* and readAllBlockFiles.                                                  *)
(*                                                                         *)
(* A block's Data is known by the number of the block, in the order they   *)
(* are made; the genesis block's is 0.  SHA-256 is taken to have no        *)
(* collisions, so a hash is the sequence of Data it was computed from.     *)
(* A file's name is the clock's reading when it was made, all of them of   *)
(* one length, so that ReadDir's order is the order of the readings; the   *)
(* genesis file's name comes before any of them.                           *)
(***************************************************************************)
EXTENDS Naturals, Sequences, FiniteSets, SequencesExt

CONSTANTS
  MaxBlocks,   \* bound: blocks made
  MaxClock,    \* bound: readings of the clock
  MaxSets,     \* bound: times the clock is set back
  MaxCrashes   \* bound: crashes

ASSUME BlockStoreAssumption ==
  /\ MaxBlocks \in Nat
  /\ MaxClock \in Nat
  /\ MaxSets \in Nat
  /\ MaxCrashes \in Nat

VARIABLES
  pc,         \* where main and the builder are
  Blocks,     \* the chain in memory, the genesis block first
  files,      \* the directory: for each name whether the file is whole, and
              \* the block it holds, or was to hold
  unread,     \* the names ReadDir returned that the loop has not come to
  name,       \* the name of the file being written
  clock,      \* the wall clock, in steps of the time it takes to make a block
  sets,
  crashes,
  names,      \* history: the name each block was given
  published   \* history: the hashes of the blocks that were broadcast

vars == <<pc, Blocks, files, unread, name, clock, sets, crashes, names, published>>

GenesisData == 0
GenesisName == 0
Data == 0 .. MaxBlocks
Name == 0 .. MaxClock
Block == [data : Data, prev : Seq(Data), hash : Seq(Data)]

-----------------------------------------------------------------------------
(***************************************************************************)
(* The package blockchain.                                                 *)
(***************************************************************************)
calculateHash(data, prevHash) == Append(prevHash, data)

CreateBlock(data, prevHash) ==
  [data |-> data, prev |-> prevHash, hash |-> calculateHash(data, prevHash)]

CreateGenesis == CreateBlock(GenesisData, <<>>)

\* Fault: the chain starts without a genesis block.
EmptyChain == <<>>

InitBlockChain == <<CreateGenesis>>

AddNewblock(chain, data) == Append(chain, CreateBlock(data, Last(chain).hash))

-----------------------------------------------------------------------------
(***************************************************************************)
(* readAllBlockFiles.                                                      *)
(***************************************************************************)
ReadDir == DOMAIN files

\* Fault: the newest file first.
NewestFirst(n) == n \in unread /\ \A k \in unread : k <= n

\* ReadDir sorts by name.
IsNext(n) == n \in unread /\ \A k \in unread : n <= k

\* Fault: the genesis file is added like any other.
GenesisTwice(chain, n) == AddNewblock(chain, files[n].block.data)

\* The chain once the file has been read: the genesis block that main made
\* takes the file's Data, any other is made and linked anew, and the hash in
\* the file is not looked at.
Loaded(chain, n) ==
  IF n = GenesisName
    THEN [chain EXCEPT ![1] = [CreateGenesis EXCEPT !.data = files[n].block.data]]
    ELSE AddNewblock(chain, files[n].block.data)

\* Fault: a file that does not parse is skipped.
SkipTorn ==
  /\ pc = "load"
  /\ \/ \E n \in unread :
          /\ IsNext(n)
          /\ Blocks' = IF files[n].whole THEN Loaded(Blocks, n) ELSE Blocks
          /\ unread' = unread \ {n}
          /\ pc' = pc
     \/ unread = {} /\ pc' = "up" /\ UNCHANGED <<Blocks, unread>>
  /\ UNCHANGED <<files, name, clock, sets, crashes, names, published>>

\* A round of the loop, or its end.  A torn file does not parse: main ends,
\* and does so at every start.
readAllBlockFiles ==
  /\ pc = "load"
  /\ \/ \E n \in unread :
          /\ IsNext(n)
          /\ files[n].whole
          /\ Blocks' = Loaded(Blocks, n)
          /\ unread' = unread \ {n}
          /\ pc' = pc
     \/ \E n \in unread :
          /\ IsNext(n)
          /\ ~files[n].whole
          /\ Blocks' = <<>>
          /\ unread' = {}
          /\ pc' = "failed"
     \/ /\ unread = {}
        /\ pc' = "up"
        /\ UNCHANGED <<Blocks, unread>>
  /\ UNCHANGED <<files, name, clock, sets, crashes, names, published>>

-----------------------------------------------------------------------------
(***************************************************************************)
(* main and the builder.                                                   *)
(***************************************************************************)
Init ==
  /\ pc = "down"
  /\ Blocks = <<>>
  /\ files = [n \in {} |-> [whole |-> FALSE, block |-> CreateGenesis]]
  /\ unread = {}
  /\ name = GenesisName
  /\ clock = 1
  /\ sets = 0
  /\ crashes = 0
  /\ names = <<>>
  /\ published = {}

\* Fault: the genesis file is written at every start.
GenesisAnew ==
  /\ pc = "down"
  /\ Blocks' = InitBlockChain
  /\ name' = GenesisName
  /\ pc' = "open"
  /\ UNCHANGED <<files, unread, clock, sets, crashes, names, published>>

\* main, up to the genesis file: it is written when there is none, and the
\* directory is read when there is one.
Boot ==
  /\ pc = "down"
  /\ Blocks' = InitBlockChain
  /\ name' = GenesisName
  /\ \/ GenesisName \notin DOMAIN files /\ pc' = "open" /\ UNCHANGED unread
     \/ GenesisName \in DOMAIN files /\ pc' = "load" /\ unread' = ReadDir
  /\ UNCHANGED <<files, clock, sets, crashes, names, published>>

\* time.Now().UnixNano()
UnixNano == clock

\* A block arrives from a ReadPump, is linked into the chain and gets a name.
AddBlock ==
  /\ pc = "up"
  /\ Len(names) < MaxBlocks
  /\ clock < MaxClock
  /\ Blocks' = AddNewblock(Blocks, Len(names) + 1)
  /\ names' = Append(names, UnixNano)
  /\ name' = UnixNano
  /\ clock' = clock + 1
  /\ pc' = "open"
  /\ UNCHANGED <<files, unread, sets, crashes, published>>

\* addBlockFile: os.WriteFile makes the file, or empties the one that has its
\* name, ...
OpenFile ==
  /\ pc = "open"
  /\ files' = [n \in DOMAIN files \cup {name} |->
                 IF n = name THEN [whole |-> FALSE, block |-> Last(Blocks)]
                             ELSE files[n]]
  /\ pc' = "write"
  /\ UNCHANGED <<Blocks, unread, name, clock, sets, crashes, names, published>>

\* ... and writes it.  An error there ends the process, as a crash does.
WriteFile ==
  /\ pc = "write"
  /\ files' = [files EXCEPT ![name].whole = TRUE]
  /\ pc' = IF name = GenesisName THEN "up" ELSE "publish"
  /\ UNCHANGED <<Blocks, unread, name, clock, sets, crashes, names, published>>

\* BroadcastMessage.
Publish ==
  /\ pc = "publish"
  /\ published' = published \cup {Last(Blocks).hash}
  /\ pc' = "up"
  /\ UNCHANGED <<Blocks, files, unread, name, clock, sets, crashes, names>>

\* The host's clock is set back.
SetBack ==
  /\ sets < MaxSets
  /\ sets' = sets + 1
  /\ clock' \in 1 .. clock - 1
  /\ UNCHANGED <<pc, Blocks, files, unread, name, crashes, names, published>>

Crash ==
  /\ pc \notin {"down", "failed"}
  /\ crashes < MaxCrashes
  /\ crashes' = crashes + 1
  /\ Blocks' = <<>>
  /\ unread' = {}
  /\ pc' = "down"
  /\ UNCHANGED <<files, name, clock, sets, names, published>>

\* The service waits for a block, or has ended.  A self-loop, so that TLC
\* reports any other state without a successor.
Idle == pc \in {"up", "failed"} /\ UNCHANGED vars

Next ==
  \/ Boot \/ readAllBlockFiles
  \/ AddBlock \/ OpenFile \/ WriteFile \/ Publish
  \/ SetBack \/ Crash \/ Idle

Spec == Init /\ [][Next]_vars

-----------------------------------------------------------------------------
(***************************************************************************)
(* Properties.                                                             *)
(***************************************************************************)

\* The names are in the order of the blocks.  Only a clock that is set back
\* breaks this, and what follows depends on it.
Sequential == \A i, j \in DOMAIN names : i < j => names[i] < names[j]

\* Every variable has its type, and a chain in use has its genesis block.
TypeOK ==
  /\ pc \in {"down", "load", "up", "open", "write", "publish", "failed"}
  /\ Blocks \in Seq(Block)
  /\ Blocks = <<>> <=> pc \in {"down", "failed"}
  /\ DOMAIN files \subseteq Name
  /\ \A n \in DOMAIN files : files[n] \in [whole : BOOLEAN, block : Block]
  /\ unread \subseteq DOMAIN files
  /\ unread # {} => pc = "load"
  /\ name \in Name
  /\ pc = "write" => name \in DOMAIN files
  /\ clock \in 1 .. MaxClock \cup {1}
  /\ sets \in 0 .. MaxSets
  /\ crashes \in 0 .. MaxCrashes
  /\ names \in Seq(Name)
  /\ published \subseteq Seq(Data)

\* What was broadcast stays: whatever crashed in between, a block a runtime
\* may have is in the chain that is in use, at its place and with its hash.
Durable == \A h \in published : Len(h) \in DOMAIN Blocks /\ Blocks[Len(h)].hash = h

PublishedIsDurable == Sequential /\ pc = "up" => Durable

\* A restart computes every hash anew and looks at none of the stored ones,
\* yet the chain in use is the one in the files, hashes and all.
Rank(n) == Cardinality({k \in DOMAIN files : k <= n})

MemoryMatchesFiles ==
  Sequential /\ pc = "up" =>
    /\ Len(Blocks) = Cardinality(DOMAIN files)
    /\ \A n \in DOMAIN files : Blocks[Rank(n)] = files[n].block

\* A start fails for one file only, the last one, whose block no runtime has:
\* with that file deleted it would succeed and lose nothing it promised.
TornIsLast ==
  Sequential =>
    \A n \in DOMAIN files : ~files[n].whole =>
      /\ \A k \in DOMAIN files : k <= n
      /\ files[n].block.hash \notin published

\* The chain in the files only grows at its end: a block that is stored stays
\* as it is, and one stored later comes later.  This is what lets
\* OrderingService take the chain as it was across a restart.
Whole == {n \in DOMAIN files : files[n].whole}

StoredChainGrows ==
  [][Sequential' =>
       \A n \in Whole : /\ n \in Whole' /\ files'[n] = files[n]
                        /\ \A m \in Whole' \ Whole : n < m]_vars

=============================================================================
