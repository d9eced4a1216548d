-------------------------- MODULE BlockStore_proofs --------------------------
(***************************************************************************)
(* The chain in memory and in the block files, for any number of blocks,   *)
(* crashes and clock readings, with the clock set back any number of times.*)
(***************************************************************************)
EXTENDS BlockStore, FiniteSetTheorems, TLAPS

-----------------------------------------------------------------------------
(***************************************************************************)
(* The package blockchain.                                                 *)
(***************************************************************************)
LEMMA CreateTypes ==
  ASSUME NEW data \in Data, NEW prevHash \in Seq(Data)
  PROVE  /\ CreateBlock(data, prevHash) \in Block
         /\ Len(CreateBlock(data, prevHash).hash) = Len(prevHash) + 1
<1>1. Append(prevHash, data) \in Seq(Data) /\ Len(Append(prevHash, data)) = Len(prevHash) + 1
  OBVIOUS
<1> QED
  BY <1>1 DEF CreateBlock, calculateHash, Block

LEMMA GenesisTypes == CreateGenesis \in Block /\ Len(CreateGenesis.hash) = 1
<1>1. GenesisData \in Data /\ <<>> \in Seq(Data) /\ Len(<<>>) = 0
  BY BlockStoreAssumption DEF GenesisData, Data
<1>2. /\ CreateBlock(GenesisData, <<>>) \in Block
      /\ Len(CreateBlock(GenesisData, <<>>).hash) = Len(<<>>) + 1
  BY <1>1, CreateTypes
<1> QED
  BY <1>1, <1>2 DEF CreateGenesis

LEMMA LastTypes ==
  ASSUME NEW S, NEW s \in Seq(S), s # <<>>
  PROVE  Last(s) = s[Len(s)] /\ Last(s) \in S /\ Len(s) \in Nat \ {0}
BY DEF Last

\* A block is linked to the last one and leaves the others alone.
LEMMA AddTypes ==
  ASSUME NEW chain \in Seq(Block), chain # <<>>, NEW data \in Data
  PROVE  /\ AddNewblock(chain, data) \in Seq(Block)
         /\ Len(AddNewblock(chain, data)) = Len(chain) + 1
         /\ \A i \in 1 .. Len(chain) : AddNewblock(chain, data)[i] = chain[i]
         /\ Last(AddNewblock(chain, data)) = CreateBlock(data, chain[Len(chain)].hash)
         /\ AddNewblock(chain, data)[Len(chain) + 1] = CreateBlock(data, chain[Len(chain)].hash)
<1> DEFINE b == CreateBlock(data, Last(chain).hash)
           c == Append(chain, b)
<1>1. Last(chain) = chain[Len(chain)] /\ Last(chain) \in Block
  BY LastTypes
<1>2. b \in Block
  BY <1>1, CreateTypes DEF Block
<1> HIDE DEF b
<1>3. /\ c \in Seq(Block) /\ Len(c) = Len(chain) + 1 /\ c # <<>>
      /\ \A i \in 1 .. Len(chain) : c[i] = chain[i]
      /\ c[Len(chain) + 1] = b
  BY <1>2
<1>4. Last(c) = b
  BY <1>3, LastTypes
<1> HIDE DEF c
<1> QED
  BY <1>1, <1>3, <1>4 DEF AddNewblock, c, b

\* The chain main starts with.
LEMMA InitTypes ==
  /\ InitBlockChain \in Seq(Block) /\ InitBlockChain # <<>>
  /\ Len(InitBlockChain) = 1 /\ InitBlockChain[1] = CreateGenesis
  /\ Last(InitBlockChain) = CreateGenesis
<1> DEFINE g == CreateGenesis
<1>1. g \in Block
  BY GenesisTypes
<1> HIDE DEF g
<1>2. <<g>> \in Seq(Block) /\ <<g>> # <<>> /\ Len(<<g>>) = 1 /\ <<g>>[1] = g
  BY <1>1
<1>3. Last(<<g>>) = g
  BY <1>2, LastTypes
<1> QED
  BY <1>2, <1>3 DEF InitBlockChain, g

\* What a round of readAllBlockFiles makes of the chain.
LEMMA LoadedTypes ==
  ASSUME TypeOK, NEW n \in DOMAIN files, Blocks # <<>>
  PROVE  Loaded(Blocks, n) \in Seq(Block) /\ Loaded(Blocks, n) # <<>>
<1>1. files[n].block.data \in Data /\ Blocks \in Seq(Block)
  BY DEF TypeOK, Block
<1>2. CASE n = GenesisName
  <2> DEFINE g == [CreateGenesis EXCEPT !.data = files[n].block.data]
  <2>1. g \in Block
    BY <1>1, GenesisTypes DEF Block
  <2>2. Loaded(Blocks, n) = [Blocks EXCEPT ![1] = g]
    BY <1>2 DEF Loaded
  <2> HIDE DEF g
  <2>3. [Blocks EXCEPT ![1] = g] \in Seq(Block) /\ [Blocks EXCEPT ![1] = g] # <<>>
    BY <1>1, <2>1
  <2> QED
    BY <2>2, <2>3
<1>3. CASE n # GenesisName
  <2>1. Len(Blocks) \in Nat
    BY <1>1
  <2>2. Loaded(Blocks, n) \in Seq(Block) /\ Len(Loaded(Blocks, n)) = Len(Blocks) + 1
    BY <1>1, <1>3, AddTypes DEF Loaded
  <2> QED
    BY <2>1, <2>2
<1> QED
  BY <1>2, <1>3

-----------------------------------------------------------------------------
(***************************************************************************)
(* Types.                                                                  *)
(***************************************************************************)
LEMMA TypeInit == Init => TypeOK
BY BlockStoreAssumption DEF Init, TypeOK, Name, GenesisName

LEMMA TypeNext == TypeOK /\ [Next]_vars => TypeOK'
<1> SUFFICES ASSUME TypeOK, [Next]_vars PROVE TypeOK'
  OBVIOUS
<1> USE BlockStoreAssumption
<1>1. CASE Boot
  BY <1>1, InitTypes DEF Boot, TypeOK, Name, GenesisName, ReadDir
<1>2. CASE readAllBlockFiles
  <2>1. /\ pc = "load" /\ Blocks # <<>> /\ files' = files
        /\ UNCHANGED <<files, name, clock, sets, crashes, names, published>>
    BY <1>2 DEF readAllBlockFiles, TypeOK
  <2>2. CASE \E n \in unread : Blocks' = Loaded(Blocks, n) /\ unread' = unread \ {n} /\ pc' = pc
    <3>1. PICK n \in unread : Blocks' = Loaded(Blocks, n) /\ unread' = unread \ {n} /\ pc' = pc
      BY <2>2
    <3>2. n \in DOMAIN files
      BY DEF TypeOK
    <3>3. Blocks' \in Seq(Block) /\ Blocks' # <<>>
      BY <2>1, <3>1, <3>2, LoadedTypes
    <3> QED
      BY <2>1, <3>1, <3>3 DEF TypeOK
  <2>3. CASE Blocks' = <<>> /\ unread' = {} /\ pc' = "failed"
    <3>1. <<>> \in Seq(Block)
      OBVIOUS
    <3> QED
      BY <2>1, <2>3, <3>1 DEF TypeOK
  <2>4. CASE unread = {} /\ pc' = "up" /\ UNCHANGED <<Blocks, unread>>
    BY <2>1, <2>4 DEF TypeOK
  <2> QED
    BY <1>2, <2>2, <2>3, <2>4 DEF readAllBlockFiles
<1>3. CASE AddBlock
  <2>1. Len(names) + 1 \in Data /\ Len(names) \in Nat
    BY <1>3 DEF AddBlock, TypeOK, Data
  <2>2. Blocks' \in Seq(Block) /\ Len(Blocks') = Len(Blocks) + 1 /\ Len(Blocks) \in Nat
    BY <1>3, <2>1, AddTypes DEF AddBlock, TypeOK
  <2>3. clock \in Name /\ clock + 1 \in 1 .. MaxClock
    BY <1>3 DEF AddBlock, TypeOK, Name
  <2>4. names' \in Seq(Name)
    BY <1>3, <2>3 DEF AddBlock, TypeOK, UnixNano
  <2>5. Blocks' # <<>>
    BY <2>2
  <2> QED
    BY <1>3, <2>2, <2>3, <2>4, <2>5 DEF AddBlock, TypeOK, UnixNano
<1>4. CASE OpenFile
  <2>1. Last(Blocks) \in Block
    BY <1>4, LastTypes DEF OpenFile, TypeOK
  <2> DEFINE b == Last(Blocks)
  <2> HIDE DEF b
  <2>2. /\ DOMAIN files' = DOMAIN files \cup {name}
        /\ \A n \in DOMAIN files' : files'[n] \in [whole : BOOLEAN, block : Block]
    <3>1. files' = [n \in DOMAIN files \cup {name} |->
                      IF n = name THEN [whole |-> FALSE, block |-> b] ELSE files[n]]
      BY <1>4 DEF OpenFile, b
    <3>2. [whole |-> FALSE, block |-> b] \in [whole : BOOLEAN, block : Block]
      BY <2>1 DEF b
    <3> QED
      BY <3>1, <3>2 DEF TypeOK
  <2> QED
    BY <1>4, <2>2 DEF OpenFile, TypeOK
<1>5. CASE WriteFile
  <2>1. /\ DOMAIN files' = DOMAIN files
        /\ \A n \in DOMAIN files' : files'[n] \in [whole : BOOLEAN, block : Block]
    BY <1>5 DEF WriteFile, TypeOK
  <2> QED
    BY <1>5, <2>1 DEF WriteFile, TypeOK
<1>6. CASE Publish
  <2>1. Last(Blocks).hash \in Seq(Data)
    <3>1. Last(Blocks) \in Block
      BY <1>6, LastTypes DEF Publish, TypeOK
    <3> QED
      BY <3>1 DEF Block
  <2> QED
    BY <1>6, <2>1 DEF Publish, TypeOK
<1>7. CASE SetBack
  BY <1>7 DEF SetBack, TypeOK
<1>8. CASE Crash
  BY <1>8 DEF Crash, TypeOK
<1>9. CASE UNCHANGED vars
  BY <1>9 DEF vars, TypeOK
<1> QED
  BY <1>1, <1>2, <1>3, <1>4, <1>5, <1>6, <1>7, <1>8, <1>9 DEF Next, Idle

\* Every reachable state is well typed; the chain is never without its genesis
\* block while the service uses it.
THEOREM StoreTypes == Spec => []TypeOK
BY TypeInit, TypeNext, PTL DEF Spec

-----------------------------------------------------------------------------
(***************************************************************************)
(* The chain in the files.                                                 *)
(*                                                                         *)
(* While the names are in the order of the blocks, a new file comes after  *)
(* all others and is linked to the one before it, whose rank is the length *)
(* of the chain so far; a chain that is read anew is therefore the one     *)
(* that was written.  A file is torn only while it is written or after a   *)
(* crash there, from which no start succeeds: it stays the last one.       *)
(***************************************************************************)
Count == Cardinality(DOMAIN files)
Read == DOMAIN files \ unread
Named == {GenesisName} \cup {names[i] : i \in DOMAIN names}

NamesInv ==
  /\ \A i \in DOMAIN names : names[i] > 0
  /\ DOMAIN files \subseteq Named
  /\ DOMAIN files # {} => GenesisName \in DOMAIN files
  /\ pc = "open" => /\ name \in Named
                    /\ DOMAIN files = {} => name = GenesisName
                    /\ \A k \in DOMAIN files : k < name
  /\ pc \in {"write", "publish"} => /\ name \in DOMAIN files
                                    /\ \A k \in DOMAIN files : k <= name
  /\ pc \in {"up", "publish", "write", "load"} => GenesisName \in DOMAIN files

LinkInv ==
  /\ GenesisName \in DOMAIN files => files[GenesisName].block = CreateGenesis
  /\ \A n \in DOMAIN files \ {GenesisName} : \E p \in DOMAIN files :
       /\ p < n /\ Rank(n) = Rank(p) + 1
       /\ files[n].block = CreateBlock(files[n].block.data, files[p].block.hash)
  /\ DOMAIN files # {} => \E p \in DOMAIN files : Rank(p) = Count
  /\ \A n \in DOMAIN files : Len(files[n].block.hash) = Rank(n)

\* The chain in memory has the blocks of these files at their ranks.
Matches(S) == \A n \in S : Blocks[Rank(n)] = files[n].block

OpenInv ==
  pc = "open" =>
    /\ Len(Blocks) = Count + 1
    /\ Matches(DOMAIN files)
    /\ IF DOMAIN files = {}
         THEN Last(Blocks) = CreateGenesis
         ELSE Last(Blocks) = CreateBlock(Last(Blocks).data, Blocks[Count].hash)

UsedInv ==
  pc \in {"up", "publish", "write"} => Len(Blocks) = Count /\ Matches(DOMAIN files)

LoadInv ==
  pc = "load" =>
    /\ \A n \in Read, k \in unread : n < k
    /\ \A n \in Read : files[n].whole
    /\ Matches(Read)
    /\ IF Read = {} THEN Blocks = InitBlockChain ELSE Len(Blocks) = Cardinality(Read)

TornInv ==
  /\ \A n \in DOMAIN files : ~files[n].whole =>
       /\ \A k \in DOMAIN files : k <= n
       /\ files[n].block.hash \notin published
       /\ pc \in {"write", "down", "load", "failed"}
  /\ pc = "write" => ~files[name].whole

PublishedInv ==
  \A h \in published : \E n \in DOMAIN files :
    files[n].whole /\ files[n].block.hash = h

Parts ==
  NamesInv /\ LinkInv /\ OpenInv /\ UsedInv /\ LoadInv /\ TornInv /\ PublishedInv

ChainInv == Sequential => Parts

LEMMA NameNat == Name \subseteq Nat /\ IsFiniteSet(Name)
<1>1. MaxClock \in Nat /\ 0 \in Int /\ MaxClock \in Int
  BY BlockStoreAssumption
<1> QED
  BY <1>1, FS_Interval DEF Name

\* Ranks are between 1 and the number of names.
LEMMA Counting ==
  ASSUME NEW S, S \subseteq Name
  PROVE  /\ IsFiniteSet(S) /\ Cardinality(S) \in Nat
         /\ \A n \in S : Cardinality({k \in S : k <= n}) \in 1 .. Cardinality(S)
<1>1. IsFiniteSet(S) /\ Cardinality(S) \in Nat
  BY NameNat, FS_Subset, FS_CardinalityType
<1>2. ASSUME NEW n \in S
      PROVE  Cardinality({k \in S : k <= n}) \in 1 .. Cardinality(S)
  <2> DEFINE B == {k \in S : k <= n}
  <2>1. B \in SUBSET S /\ n \in B
    BY NameNat
  <2>2. IsFiniteSet(B) /\ Cardinality(B) <= Cardinality(S) /\ Cardinality(B) \in Nat
    BY <1>1, <2>1, FS_Subset, FS_CardinalityType
  <2>3. Cardinality(B) # 0
    BY <2>1, <2>2, FS_EmptySet
  <2> HIDE DEF B
  <2>4. Cardinality(B) \in 1 .. Cardinality(S)
    BY <1>1, <2>2, <2>3
  <2> QED
    BY <2>4 DEF B
<1> QED
  BY <1>1, <1>2

\* A name after all others leaves their ranks as they are.
LEMMA CountNew ==
  ASSUME NEW S, S \subseteq Name, NEW m \in Name, \A k \in S : k < m
  PROVE  /\ Cardinality(S \cup {m}) = Cardinality(S) + 1
         /\ {k \in S \cup {m} : k <= m} = S \cup {m}
         /\ \A n \in S : {k \in S \cup {m} : k <= n} = {k \in S : k <= n}
<1>1. m \in Nat /\ \A k \in S : k \in Nat /\ k < m /\ k # m
  BY NameNat
<1>2. m \notin S /\ IsFiniteSet(S)
  BY <1>1, Counting
<1>3. Cardinality(S \cup {m}) = Cardinality(S) + 1
  BY <1>2, FS_AddElement
<1>4. {k \in S \cup {m} : k <= m} = S \cup {m}
  <2>1. \A k \in S \cup {m} : k <= m
    BY <1>1
  <2> QED
    BY <2>1
<1>5. ASSUME NEW n \in S PROVE {k \in S \cup {m} : k <= n} = {k \in S : k <= n}
  <2>1. ~(m <= n)
    BY <1>1
  <2> QED
    BY <2>1
<1> QED
  BY <1>3, <1>4, <1>5

\* Steps that leave the blocks in the files alone.
LEMMA FilesSame ==
  ASSUME DOMAIN files' = DOMAIN files,
         \A n \in DOMAIN files : files'[n].block = files[n].block
  PROVE  /\ Count' = Count
         /\ \A n : Rank(n)' = Rank(n)
         /\ LinkInv => LinkInv'
<1>1. Count' = Count /\ \A n : Rank(n)' = Rank(n)
  BY DEF Count, Rank
<1> QED
  BY <1>1 DEF LinkInv

LEMMA PartsInit == Init => Parts
<1> SUFFICES ASSUME Init PROVE Parts
  OBVIOUS
<1>1. DOMAIN files = {} /\ names = <<>> /\ published = {} /\ pc = "down"
  BY DEF Init
<1> QED
  BY <1>1 DEF Parts, NamesInv, LinkInv, OpenInv, UsedInv, LoadInv, TornInv, PublishedInv

\* The names are in order after a step only if they were before.
LEMMA SequentialBefore ==
  ASSUME TypeOK, [Next]_vars, Sequential'
  PROVE  Sequential
<1>1. CASE names' = names
  BY <1>1 DEF Sequential
<1>2. CASE AddBlock
  <2>1. clock \in Name
    BY <1>2, BlockStoreAssumption DEF AddBlock, TypeOK, Name
  <2>2. \A i \in DOMAIN names : i \in DOMAIN names' /\ names'[i] = names[i]
    <3>1. names \in Seq(Name) /\ names' = Append(names, clock)
      BY <1>2 DEF AddBlock, TypeOK, UnixNano
    <3> QED
      BY <2>1, <3>1
  <2> QED
    BY <2>2 DEF Sequential
<1> QED
  BY <1>1, <1>2 DEF Next, Boot, readAllBlockFiles, OpenFile, WriteFile, Publish, SetBack,
                    Crash, Idle, vars

LEMMA BootParts ==
  ASSUME TypeOK, Parts, Boot
  PROVE  Parts'
<1>1. /\ pc = "down" /\ Blocks' = InitBlockChain /\ name' = GenesisName
      /\ UNCHANGED <<files, names, published>>
      /\ \/ GenesisName \notin DOMAIN files /\ pc' = "open"
         \/ GenesisName \in DOMAIN files /\ pc' = "load" /\ unread' = DOMAIN files
  BY DEF Boot, ReadDir
<1>2. LinkInv' /\ Count' = Count /\ \A n : Rank(n)' = Rank(n)
  BY <1>1, FilesSame DEF Parts
<1>3. pc' = "open" => DOMAIN files = {}
  BY <1>1 DEF Parts, NamesInv
<1>4. NamesInv'
  BY <1>1, <1>3 DEF Parts, NamesInv, Named
<1>5. OpenInv'
  <2>1. Len(Blocks') = 1 /\ Last(Blocks') = CreateGenesis
    BY <1>1, InitTypes
  <2>2. pc' = "open" => Count' = 0 /\ DOMAIN files' = {}
    BY <1>1, <1>2, <1>3, FS_EmptySet DEF Count
  <2> QED
    BY <2>1, <2>2 DEF OpenInv, Matches
<1>6. UsedInv' /\ LoadInv'
  BY <1>1 DEF UsedInv, LoadInv, Matches, Read
<1>7. TornInv' /\ PublishedInv'
  BY <1>1, <1>3 DEF Parts, TornInv, PublishedInv
<1> QED
  BY <1>2, <1>4, <1>5, <1>6, <1>7 DEF Parts

-----------------------------------------------------------------------------

\* Ranks of files are places of a chain as long as the directory.
LEMMA RankRange ==
  ASSUME TypeOK
  PROVE  /\ IsFiniteSet(DOMAIN files) /\ Count \in Nat
         /\ \A n \in DOMAIN files : Rank(n) \in 1 .. Count
         /\ \A n \in DOMAIN files : (\A k \in DOMAIN files : k <= n) => Rank(n) = Count
<1>1. DOMAIN files \subseteq Name
  BY DEF TypeOK
<1>2. ASSUME NEW n \in DOMAIN files, \A k \in DOMAIN files : k <= n PROVE Rank(n) = Count
  <2>1. {k \in DOMAIN files : k <= n} = DOMAIN files
    BY <1>2
  <2> QED
    BY <2>1 DEF Rank, Count
<1> QED
  BY <1>1, <1>2, Counting DEF Rank, Count

LEMMA OneReplaced ==
  ASSUME NEW S, NEW a \in S, NEW x \in S
  PROVE  /\ [<<a>> EXCEPT ![1] = x] \in Seq(S)
         /\ Len([<<a>> EXCEPT ![1] = x]) = 1
         /\ [<<a>> EXCEPT ![1] = x][1] = x
<1>1. [<<a>> EXCEPT ![1] = x] = <<x>>
  OBVIOUS
<1> QED
  BY <1>1

\* A round of readAllBlockFiles for a file that is whole makes its block.
LEMMA LoadOne ==
  ASSUME TypeOK, Parts, pc = "load", NEW n \in unread, IsNext(n), files[n].whole
  PROVE  /\ Loaded(Blocks, n) \in Seq(Block)
         /\ Len(Loaded(Blocks, n)) = Cardinality(Read \cup {n})
         /\ Loaded(Blocks, n)[Rank(n)] = files[n].block
         /\ \A k \in Read : Loaded(Blocks, n)[Rank(k)] = Blocks[Rank(k)]
<1>1. /\ n \in DOMAIN files /\ n \notin Read /\ Read \subseteq DOMAIN files
      /\ Blocks \in Seq(Block) /\ Blocks # <<>>
      /\ files[n].block \in Block /\ DOMAIN files \subseteq Name
      /\ GenesisName \in DOMAIN files /\ files[GenesisName].block = CreateGenesis
  BY DEF TypeOK, Read, Parts, NamesInv, LinkInv
<1>2. Read = {k \in DOMAIN files : k < n} /\ {k \in DOMAIN files : k <= n} = Read \cup {n}
  <2>1. \A k \in DOMAIN files : k \in Nat
    BY <1>1, NameNat
  <2>2. \A k \in Read : k < n
    BY DEF Parts, LoadInv
  <2>3. \A k \in DOMAIN files : k \notin Read => k \in unread /\ n <= k
    BY DEF Read, IsNext
  <2>4. \A k \in DOMAIN files : k \in Read <=> k < n
    BY <1>1, <2>1, <2>2, <2>3
  <2>5. \A k \in DOMAIN files : k <= n <=> k < n \/ k = n
    BY <1>1, <2>1
  <2> QED
    BY <1>1, <2>4, <2>5
<1>3. /\ IsFiniteSet(Read) /\ Cardinality(Read) \in Nat
      /\ Cardinality(Read \cup {n}) = Cardinality(Read) + 1
  <2>1. IsFiniteSet(Read) /\ Cardinality(Read) \in Nat
    BY <1>1, Counting
  <2> QED
    BY <1>1, <2>1, FS_AddElement
<1>4. Rank(n) = Cardinality(Read) + 1
  BY <1>2, <1>3 DEF Rank
<1>5. CASE n = GenesisName
  <2>1. Read = {}
    <3>1. \A k \in DOMAIN files : ~(k < n)
      BY <1>1, <1>5, NameNat DEF GenesisName
    <3> QED
      BY <1>2, <3>1
  <2>2. Blocks = InitBlockChain /\ Cardinality(Read) = 0
    BY <2>1, FS_EmptySet DEF Parts, LoadInv
  <2> DEFINE g == [CreateGenesis EXCEPT !.data = files[n].block.data]
  <2>3. g = files[n].block
    BY <1>1, <1>5, GenesisTypes DEF Block
  <2>4. Loaded(Blocks, n) = [Blocks EXCEPT ![1] = g]
    BY <1>5 DEF Loaded
  <2> HIDE DEF g
  <2>5. Blocks = <<CreateGenesis>> /\ CreateGenesis \in Block
    BY <2>2, GenesisTypes DEF InitBlockChain
  <2>6. g \in Block
    BY <1>1, <2>3
  <2>7. /\ [Blocks EXCEPT ![1] = g] \in Seq(Block)
        /\ Len([Blocks EXCEPT ![1] = g]) = 1
        /\ [Blocks EXCEPT ![1] = g][1] = g
    BY <2>5, <2>6, OneReplaced
  <2>8. Rank(n) = 1 /\ Cardinality(Read \cup {n}) = 1
    BY <1>3, <1>4, <2>2
  <2> QED
    BY <2>1, <2>3, <2>4, <2>7, <2>8
<1>6. CASE n # GenesisName
  <2>1. GenesisName \in Read
    <3>1. GenesisName <= n /\ ~(n <= GenesisName)
      BY <1>1, <1>6, NameNat DEF GenesisName
    <3> QED
      BY <1>1, <3>1 DEF IsNext, Read
  <2>2. Len(Blocks) = Cardinality(Read) /\ Matches(Read)
    BY <2>1 DEF Parts, LoadInv
  <2>3. PICK p \in DOMAIN files :
          /\ p < n /\ Rank(n) = Rank(p) + 1
          /\ files[n].block = CreateBlock(files[n].block.data, files[p].block.hash)
    BY <1>1, <1>6 DEF Parts, LinkInv
  <2>4. p \in Read /\ Rank(p) = Len(Blocks)
    <3>1. Rank(p) \in Nat
      BY RankRange
    <3> QED
      BY <1>2, <1>3, <1>4, <2>2, <2>3, <3>1
  <2>5. Blocks[Len(Blocks)] = files[p].block
    BY <2>2, <2>4 DEF Matches
  <2>6. files[n].block.data \in Data /\ Loaded(Blocks, n) = AddNewblock(Blocks, files[n].block.data)
    BY <1>1, <1>6 DEF Block, Loaded
  <2>7. /\ Loaded(Blocks, n) \in Seq(Block) /\ Len(Loaded(Blocks, n)) = Len(Blocks) + 1
        /\ \A i \in 1 .. Len(Blocks) : Loaded(Blocks, n)[i] = Blocks[i]
        /\ Loaded(Blocks, n)[Len(Blocks) + 1] =
             CreateBlock(files[n].block.data, Blocks[Len(Blocks)].hash)
    BY <1>1, <2>6, AddTypes
  <2>8. \A k \in Read : Rank(k) \in 1 .. Len(Blocks)
    <3> SUFFICES ASSUME NEW k \in Read PROVE Rank(k) \in 1 .. Cardinality(Read)
      BY <2>2
    <3>1. ASSUME NEW j \in DOMAIN files, j <= k PROVE j \in Read
      <4>1. j \in Nat /\ k \in Nat /\ n \in Nat /\ k < n
        BY <1>1, <1>2, NameNat
      <4>2. j < n
        BY <3>1, <4>1
      <4> QED
        BY <1>2, <4>2
    <3>2. {j \in DOMAIN files : j <= k} = {j \in Read : j <= k}
      BY <1>1, <3>1
    <3>3. Read \subseteq Name
      BY <1>1
    <3>4. Cardinality({j \in Read : j <= k}) \in 1 .. Cardinality(Read)
      BY <3>3, Counting
    <3> QED
      BY <3>2, <3>4 DEF Rank
  <2>9. Rank(n) = Len(Blocks) + 1 /\ Cardinality(Read \cup {n}) = Len(Blocks) + 1
    BY <1>3, <1>4, <2>2
  <2> QED
    BY <2>3, <2>5, <2>7, <2>8, <2>9
<1> QED
  BY <1>5, <1>6

LEMMA ReadParts ==
  ASSUME TypeOK, Parts, readAllBlockFiles
  PROVE  Parts'
<1>1. pc = "load" /\ UNCHANGED <<files, name, names, published>>
  BY DEF readAllBlockFiles
<1>2. LinkInv' /\ Count' = Count /\ \A n : Rank(n)' = Rank(n)
  BY <1>1, FilesSame DEF Parts
<1>3. PublishedInv'
  BY <1>1 DEF Parts, PublishedInv
<1>4. CASE \E n \in unread : /\ IsNext(n) /\ files[n].whole /\ Blocks' = Loaded(Blocks, n)
                             /\ unread' = unread \ {n} /\ pc' = pc
  <2>1. PICK n \in unread : /\ IsNext(n) /\ files[n].whole /\ Blocks' = Loaded(Blocks, n)
                            /\ unread' = unread \ {n} /\ pc' = pc
    BY <1>4
  <2>2. /\ Len(Blocks') = Cardinality(Read \cup {n})
        /\ Blocks'[Rank(n)] = files[n].block
        /\ \A k \in Read : Blocks'[Rank(k)] = Blocks[Rank(k)]
    BY <1>1, <2>1, LoadOne
  <2>3. Read' = Read \cup {n}
    BY <1>1, <2>1 DEF Read, TypeOK
  <2>4. \A k \in Read' : Blocks'[Rank(k)] = files[k].block
    BY <1>1, <2>2, <2>3 DEF Parts, LoadInv, Matches
  <2>5. Matches(Read)'
    BY <1>1, <1>2, <2>4 DEF Matches
  <2>6. \A i \in Read', k \in unread' : i < k
    <3>1. \A k \in unread' : k \in unread /\ n < k
      <4>1. \A k \in unread : k \in Nat
        BY NameNat DEF TypeOK
      <4> QED
        BY <2>1, <4>1 DEF IsNext
    <3> QED
      BY <1>1, <2>3, <3>1 DEF Parts, LoadInv
  <2>7. LoadInv'
    BY <1>1, <2>1, <2>2, <2>3, <2>5, <2>6 DEF Parts, LoadInv
  <2>8. NamesInv' /\ OpenInv' /\ UsedInv' /\ TornInv'
    BY <1>1, <2>1 DEF Parts, NamesInv, Named, OpenInv, UsedInv, TornInv
  <2> QED
    BY <1>2, <1>3, <2>7, <2>8 DEF Parts
<1>5. CASE pc' = "failed"
  BY <1>1, <1>2, <1>3, <1>5
  DEF Parts, NamesInv, Named, OpenInv, UsedInv, LoadInv, TornInv
<1>6. CASE unread = {} /\ pc' = "up" /\ UNCHANGED <<Blocks, unread>>
  <2>1. /\ Read = DOMAIN files /\ GenesisName \in DOMAIN files
        /\ Len(Blocks) = Count /\ Matches(DOMAIN files)
        /\ \A n \in DOMAIN files : files[n].whole
    BY <1>1, <1>6 DEF Parts, LoadInv, NamesInv, Read, Count
  <2>2. UsedInv'
    BY <1>1, <1>2, <1>6, <2>1 DEF UsedInv, Matches
  <2>3. NamesInv' /\ OpenInv' /\ LoadInv' /\ TornInv'
    BY <1>1, <1>6, <2>1 DEF Parts, NamesInv, Named, OpenInv, LoadInv, TornInv
  <2> QED
    BY <1>2, <1>3, <2>2, <2>3 DEF Parts
<1> QED
  BY <1>4, <1>5, <1>6 DEF readAllBlockFiles

\* A new block is linked to the last file's and named after it.
LEMMA AddParts ==
  ASSUME TypeOK, Parts, Sequential', AddBlock
  PROVE  Parts'
<1>1. /\ pc = "up" /\ pc' = "open" /\ name' = clock /\ names' = Append(names, clock)
      /\ Blocks' = AddNewblock(Blocks, Len(names) + 1) /\ Len(names) + 1 \in Data
      /\ UNCHANGED <<files, unread, published>>
      /\ names \in Seq(Name) /\ clock \in Name /\ clock > 0
      /\ Blocks \in Seq(Block) /\ Blocks # <<>>
  BY BlockStoreAssumption DEF AddBlock, TypeOK, UnixNano, Data, Name
<1>2. LinkInv' /\ Count' = Count /\ \A n : Rank(n)' = Rank(n)
  BY <1>1, FilesSame DEF Parts
<1>3. /\ DOMAIN names' = DOMAIN names \cup {Len(names) + 1}
      /\ \A i \in DOMAIN names : names'[i] = names[i] /\ i < Len(names) + 1
      /\ names'[Len(names) + 1] = clock
  BY <1>1
<1>4. \A i \in DOMAIN names : names[i] < clock
  BY <1>3 DEF Sequential
<1>5. GenesisName \in DOMAIN files /\ Len(Blocks) = Count /\ Matches(DOMAIN files)
  BY <1>1 DEF Parts, NamesInv, UsedInv
<1>6. NamesInv'
  <2>1. Named' = Named \cup {clock}
    BY <1>3 DEF Named
  <2>2. \A k \in DOMAIN files : k < clock
    BY <1>1, <1>4 DEF Parts, NamesInv, Named, GenesisName
  <2> QED
    BY <1>1, <1>3, <1>5, <2>1, <2>2 DEF Parts, NamesInv
<1>7. OpenInv'
  <2> DEFINE d == Len(names) + 1
  <2>1. d \in Data
    BY <1>1
  <2> HIDE DEF d
  <2>2. /\ Len(Blocks') = Count + 1
        /\ \A i \in 1 .. Count : Blocks'[i] = Blocks[i]
        /\ Last(Blocks') = CreateBlock(d, Blocks[Count].hash)
    BY <1>1, <1>5, <2>1, AddTypes DEF d
  <2>3. /\ Count \in 1 .. Count
        /\ \A n \in DOMAIN files : Rank(n) \in 1 .. Count
    BY <1>5, RankRange
  <2>4. Last(Blocks') = CreateBlock(Last(Blocks').data, Blocks'[Count].hash)
    BY <2>2, <2>3 DEF CreateBlock
  <2>5. \A n \in DOMAIN files : Blocks'[Rank(n)] = files[n].block
    BY <1>5, <2>2, <2>3 DEF Matches
  <2> QED
    BY <1>1, <1>2, <1>5, <2>2, <2>4, <2>5 DEF OpenInv, Matches
<1>8. UsedInv' /\ LoadInv' /\ TornInv' /\ PublishedInv'
  BY <1>1 DEF Parts, UsedInv, LoadInv, TornInv, PublishedInv
<1> QED
  BY <1>2, <1>6, <1>7, <1>8 DEF Parts

\* The new file is the last one.
LEMMA OpenParts ==
  ASSUME TypeOK, Parts, OpenFile
  PROVE  Parts'
<1>1. /\ pc = "open" /\ pc' = "write" /\ UNCHANGED <<Blocks, unread, name, names, published>>
      /\ DOMAIN files' = DOMAIN files \cup {name}
      /\ \A n \in DOMAIN files : n # name => files'[n] = files[n]
      /\ files'[name] = [whole |-> FALSE, block |-> Last(Blocks)]
      /\ Blocks \in Seq(Block) /\ Blocks # <<>>
      /\ name \in Name /\ DOMAIN files \subseteq Name
  BY DEF OpenFile, TypeOK
<1>2. /\ name \in Named /\ \A k \in DOMAIN files : k < name /\ k # name
      /\ DOMAIN files = {} => name = GenesisName
      /\ DOMAIN files # {} => GenesisName \in DOMAIN files
  BY <1>1, NameNat DEF Parts, NamesInv
<1>3. /\ Count \in Nat /\ Count' = Count + 1
      /\ \A n \in DOMAIN files : Rank(n)' = Rank(n) /\ Rank(n) \in 1 .. Count
      /\ Cardinality({k \in DOMAIN files' : k <= name}) = Count + 1
  <2>1. /\ Cardinality(DOMAIN files \cup {name}) = Cardinality(DOMAIN files) + 1
        /\ {k \in DOMAIN files \cup {name} : k <= name} = DOMAIN files \cup {name}
        /\ \A n \in DOMAIN files :
             {k \in DOMAIN files \cup {name} : k <= n} = {k \in DOMAIN files : k <= n}
    BY <1>1, <1>2, CountNew
  <2>2. Count \in Nat /\ \A n \in DOMAIN files : Rank(n) \in 1 .. Count
    BY RankRange
  <2>3. Count' = Count + 1
    BY <1>1, <2>1 DEF Count
  <2>4. \A n \in DOMAIN files : Rank(n)' = Rank(n)
    BY <1>1, <2>1 DEF Rank
  <2>5. Cardinality({k \in DOMAIN files' : k <= name}) = Count + 1
    BY <1>1, <2>1 DEF Count
  <2> QED
    BY <2>2, <2>3, <2>4, <2>5
<1>4. Rank(name)' = Count + 1
  BY <1>1, <1>3 DEF Rank
<1>5. /\ Len(Blocks) = Count + 1 /\ Matches(DOMAIN files)
      /\ Blocks[Count + 1] = Last(Blocks) /\ Last(Blocks) \in Block
  BY <1>1, LastTypes DEF Parts, OpenInv
<1>6. \A n \in DOMAIN files : files'[n] = files[n] /\ files[n].whole
  BY <1>1, <1>2 DEF Parts, TornInv
<1>7. NamesInv'
  <2>1. \A k \in DOMAIN files' : k <= name
    BY <1>1, <1>2, NameNat
  <2>2. Named' = Named /\ GenesisName \in DOMAIN files' /\ DOMAIN files' \subseteq Named
    BY <1>1, <1>2 DEF Named, Parts, NamesInv
  <2> QED
    BY <1>1, <2>1, <2>2 DEF Parts, NamesInv
<1>8. /\ Len(Last(Blocks).hash) = Count + 1
      /\ name = GenesisName => Last(Blocks) = CreateGenesis
      /\ name # GenesisName =>
           \E p \in DOMAIN files : /\ Rank(p) = Count
                                   /\ Last(Blocks) = CreateBlock(Last(Blocks).data, files[p].block.hash)
  <2>1. CASE DOMAIN files = {}
    <3>1. Count = 0 /\ Last(Blocks) = CreateGenesis /\ name = GenesisName
      BY <1>1, <1>2, <2>1, FS_EmptySet DEF Parts, OpenInv, Count
    <3> QED
      BY <3>1, GenesisTypes
  <2>2. CASE DOMAIN files # {}
    <3>1. name # GenesisName
      BY <1>2, <2>2
    <3>2. PICK p \in DOMAIN files : Rank(p) = Count
      BY <2>2 DEF Parts, LinkInv
    <3>3. Blocks[Count] = files[p].block
      BY <1>5, <3>2 DEF Matches
    <3>4. Last(Blocks) = CreateBlock(Last(Blocks).data, files[p].block.hash)
      BY <1>1, <2>2, <3>3 DEF Parts, OpenInv
    <3>5. Len(files[p].block.hash) = Count
      BY <3>2 DEF Parts, LinkInv
    <3>6. Last(Blocks).data \in Data /\ files[p].block.hash \in Seq(Data)
      BY <1>5 DEF TypeOK, Block
    <3>7. Len(CreateBlock(Last(Blocks).data, files[p].block.hash).hash) = Count + 1
      BY <3>5, <3>6, CreateTypes
    <3> QED
      BY <3>1, <3>2, <3>4, <3>7
  <2> QED
    BY <2>1, <2>2
<1>9. LinkInv'
  <2>1. GenesisName \in DOMAIN files' => files'[GenesisName].block = CreateGenesis
    BY <1>1, <1>6, <1>8 DEF Parts, LinkInv
  <2>2. ASSUME NEW n \in DOMAIN files' \ {GenesisName}
        PROVE  \E p \in DOMAIN files' :
                 /\ p < n /\ Rank(n)' = Rank(p)' + 1
                 /\ files'[n].block = CreateBlock(files'[n].block.data, files'[p].block.hash)
    <3>1. CASE n \in DOMAIN files
      <4>1. PICK p \in DOMAIN files :
              /\ p < n /\ Rank(n) = Rank(p) + 1
              /\ files[n].block = CreateBlock(files[n].block.data, files[p].block.hash)
        BY <2>2, <3>1 DEF Parts, LinkInv
      <4> QED
        BY <1>1, <1>3, <1>6, <3>1, <4>1
    <3>2. CASE n = name
      <4>1. PICK p \in DOMAIN files :
              /\ Rank(p) = Count
              /\ Last(Blocks) = CreateBlock(Last(Blocks).data, files[p].block.hash)
        BY <1>8, <2>2, <3>2
      <4>2. Rank(n)' = Count + 1
        BY <1>3, <3>2 DEF Rank
      <4> QED
        BY <1>1, <1>2, <1>3, <1>6, <3>2, <4>1, <4>2
    <3> QED
      BY <1>1, <2>2, <3>1, <3>2
  <2>3. \E p \in DOMAIN files' : Cardinality({k \in DOMAIN files' : k <= p}) = Count'
    BY <1>1, <1>3
  <2>4. ASSUME NEW n \in DOMAIN files' PROVE Len(files'[n].block.hash) = Rank(n)'
    <3>1. CASE n \in DOMAIN files
      BY <1>3, <1>6, <3>1 DEF Parts, LinkInv
    <3>2. CASE n = name
      BY <1>1, <1>3, <1>8, <3>2 DEF Rank
    <3> QED
      BY <1>1, <2>4, <3>1, <3>2
  <2> QED
    BY <2>1, <2>2, <2>3, <2>4 DEF LinkInv, Rank
<1>10. UsedInv'
  <2>1. ASSUME NEW n \in DOMAIN files' PROVE Blocks[Rank(n)'] = files'[n].block
    <3>1. CASE n \in DOMAIN files
      BY <1>3, <1>5, <1>6, <3>1 DEF Matches
    <3>2. CASE n = name
      BY <1>1, <1>3, <1>5, <3>2 DEF Rank
    <3> QED
      BY <1>1, <2>1, <3>1, <3>2
  <2> QED
    BY <1>1, <1>3, <1>5, <2>1 DEF UsedInv, Matches
<1>11. TornInv'
  <2>1. \A n \in DOMAIN files' : ~files'[n].whole => n = name
    BY <1>1, <1>6
  <2>2. \A k \in DOMAIN files' : k <= name
    BY <1>1, <1>2, NameNat
  <2>3. Last(Blocks).hash \notin published
    <3> SUFFICES ASSUME Last(Blocks).hash \in published PROVE FALSE
      OBVIOUS
    <3>1. PICK n \in DOMAIN files : files[n].block.hash = Last(Blocks).hash
      BY DEF Parts, PublishedInv
    <3>2. Rank(n) = Count + 1
      BY <1>8, <3>1 DEF Parts, LinkInv
    <3> QED
      BY <1>3, <3>2
  <2> QED
    BY <1>1, <2>1, <2>2, <2>3 DEF TornInv
<1>12. PublishedInv'
  BY <1>1, <1>6 DEF Parts, PublishedInv
<1>13. OpenInv' /\ LoadInv'
  BY <1>1 DEF OpenInv, LoadInv
<1> QED
  BY <1>7, <1>9, <1>10, <1>11, <1>12, <1>13 DEF Parts

LEMMA WriteParts ==
  ASSUME TypeOK, Parts, WriteFile
  PROVE  Parts'
<1>1. /\ pc = "write" /\ pc' \in {"up", "publish"}
      /\ UNCHANGED <<Blocks, unread, name, names, published>>
      /\ DOMAIN files' = DOMAIN files /\ name \in DOMAIN files
      /\ \A n \in DOMAIN files : /\ files'[n].block = files[n].block
                                 /\ n # name => files'[n] = files[n]
      /\ files'[name].whole
  BY DEF WriteFile, TypeOK
<1>2. LinkInv' /\ Count' = Count /\ \A n : Rank(n)' = Rank(n)
  BY <1>1, FilesSame DEF Parts
<1>3. NamesInv'
  BY <1>1 DEF Parts, NamesInv, Named
<1>4. UsedInv'
  BY <1>1, <1>2 DEF Parts, UsedInv, Matches
<1>5. \A n \in DOMAIN files' : files'[n].whole
  <2>1. \A n \in DOMAIN files : ~files[n].whole => n = name
    <3>1. \A n \in DOMAIN files : n \in Nat
      BY NameNat DEF TypeOK
    <3>2. \A n \in DOMAIN files : ~files[n].whole => n <= name /\ name <= n
      BY <1>1 DEF Parts, NamesInv, TornInv
    <3> QED
      BY <1>1, <3>1, <3>2
  <2> QED
    BY <1>1, <2>1
<1>6. OpenInv' /\ LoadInv' /\ TornInv'
  BY <1>1, <1>5 DEF OpenInv, LoadInv, TornInv
<1>7. PublishedInv'
  BY <1>1, <1>5 DEF Parts, PublishedInv
<1> QED
  BY <1>2, <1>3, <1>4, <1>6, <1>7 DEF Parts

\* What is broadcast is in the last file, and that is whole.
LEMMA PublishParts ==
  ASSUME TypeOK, Parts, Publish
  PROVE  Parts'
<1>1. /\ pc = "publish" /\ pc' = "up"
      /\ published' = published \cup {Last(Blocks).hash}
      /\ UNCHANGED <<Blocks, files, unread, name, names>>
      /\ Blocks \in Seq(Block) /\ Blocks # <<>>
  BY DEF Publish, TypeOK
<1>2. LinkInv' /\ Count' = Count /\ \A n : Rank(n)' = Rank(n)
  BY <1>1, FilesSame DEF Parts
<1>3. \A n \in DOMAIN files : files[n].whole
  BY <1>1 DEF Parts, TornInv
<1>4. name \in DOMAIN files /\ files[name].block = Last(Blocks)
  <2>1. name \in DOMAIN files /\ Rank(name) = Count
    BY <1>1, RankRange DEF Parts, NamesInv
  <2> QED
    BY <1>1, <2>1, LastTypes DEF Parts, UsedInv, Matches
<1>5. PublishedInv'
  BY <1>1, <1>3, <1>4 DEF Parts, PublishedInv
<1>6. UsedInv'
  BY <1>1, <1>2 DEF Parts, UsedInv, Matches
<1>7. NamesInv' /\ OpenInv' /\ LoadInv' /\ TornInv'
  BY <1>1, <1>3 DEF Parts, NamesInv, Named, OpenInv, LoadInv, TornInv
<1> QED
  BY <1>2, <1>5, <1>6, <1>7 DEF Parts

LEMMA ChainNext == TypeOK /\ ChainInv /\ [Next]_vars => ChainInv'
<1> SUFFICES ASSUME TypeOK, ChainInv, [Next]_vars, Sequential' PROVE Parts'
  BY DEF ChainInv
<1>0. Parts
  BY SequentialBefore DEF ChainInv
<1>1. CASE Boot
  BY <1>0, <1>1, BootParts
<1>2. CASE readAllBlockFiles
  BY <1>0, <1>2, ReadParts
<1>3. CASE AddBlock
  BY <1>0, <1>3, AddParts
<1>4. CASE OpenFile
  BY <1>0, <1>4, OpenParts
<1>5. CASE WriteFile
  BY <1>0, <1>5, WriteParts
<1>6. CASE Publish
  BY <1>0, <1>6, PublishParts
<1>7. CASE Crash
  <2>1. LinkInv'
    BY <1>0, <1>7, FilesSame DEF Crash, Parts
  <2> QED
    BY <1>0, <1>7, <2>1
    DEF Crash, Parts, NamesInv, Named, OpenInv, UsedInv, LoadInv, TornInv, PublishedInv
<1>8. CASE UNCHANGED <<pc, Blocks, files, unread, name, names, published>>
  <2>1. LinkInv' /\ Count' = Count /\ \A n : Rank(n)' = Rank(n)
    BY <1>0, <1>8, FilesSame DEF Parts
  <2>2. OpenInv' /\ UsedInv' /\ LoadInv'
    <3>1. Read' = Read
      BY <1>8 DEF Read
    <3> QED
      BY <1>0, <1>8, <2>1, <3>1 DEF Parts, OpenInv, UsedInv, LoadInv, Matches
  <2> QED
    BY <1>0, <1>8, <2>1, <2>2 DEF Parts, NamesInv, Named, TornInv, PublishedInv
<1> QED
  BY <1>1, <1>2, <1>3, <1>4, <1>5, <1>6, <1>7, <1>8 DEF Next, SetBack, Idle, vars

LEMMA ChainAlways == Spec => []ChainInv
<1>1. Init => ChainInv
  BY PartsInit DEF ChainInv
<1> QED
  BY <1>1, ChainNext, StoreTypes, PTL DEF Spec

\* A start that finds a torn file fails for the last one only, whose block
\* was never broadcast.
THEOREM TornFileIsLast == Spec => []TornIsLast
<1>1. ChainInv => TornIsLast
  BY DEF ChainInv, Parts, TornInv, TornIsLast
<1> QED
  BY <1>1, ChainAlways, PTL

\* The chain that a restart links anew is the one in the files.
THEOREM ReloadIsExact == Spec => []MemoryMatchesFiles
<1>1. ChainInv => MemoryMatchesFiles
  BY DEF ChainInv, Parts, UsedInv, Matches, Count, MemoryMatchesFiles
<1> QED
  BY <1>1, ChainAlways, PTL

\* No crash takes a block away that was broadcast.
THEOREM BroadcastIsDurable == Spec => []PublishedIsDurable
<1>1. TypeOK /\ ChainInv => PublishedIsDurable
  <2> SUFFICES ASSUME TypeOK, ChainInv, Sequential, pc = "up", NEW h \in published
               PROVE  Len(h) \in DOMAIN Blocks /\ Blocks[Len(h)].hash = h
    BY DEF PublishedIsDurable, Durable
  <2>1. PICK n \in DOMAIN files : files[n].block.hash = h
    BY DEF ChainInv, Parts, PublishedInv
  <2>2. Len(h) = Rank(n) /\ Blocks[Rank(n)] = files[n].block /\ Len(Blocks) = Count
    BY <2>1 DEF ChainInv, Parts, LinkInv, UsedInv, Matches
  <2>3. Rank(n) \in 1 .. Count
    BY RankRange
  <2>4. DOMAIN Blocks = 1 .. Count
    BY <2>2 DEF TypeOK
  <2> QED
    BY <2>1, <2>2, <2>3, <2>4
<1> QED
  BY <1>1, ChainAlways, StoreTypes, PTL

\* A block that is in a file stays there, and later ones come after it.
THEOREM FilesOnlyGrow == Spec => StoredChainGrows
<1> DEFINE Grows == Sequential' =>
                      \A n \in Whole : /\ n \in Whole' /\ files'[n] = files[n]
                                       /\ \A m \in Whole' \ Whole : n < m
<1>1. TypeOK /\ ChainInv /\ [Next]_vars => Grows
  <2> SUFFICES ASSUME TypeOK, ChainInv, [Next]_vars, Sequential'
               PROVE  \A n \in Whole : /\ n \in Whole' /\ files'[n] = files[n]
                                       /\ \A m \in Whole' \ Whole : n < m
    OBVIOUS
  <2>0. Parts
    BY SequentialBefore DEF ChainInv
  <2>1. CASE files' = files
    BY <2>1 DEF Whole
  <2>2. CASE OpenFile
    <3>1. \A n \in DOMAIN files : n < name /\ n # name
      <4>1. \A n \in DOMAIN files : n \in Nat
        BY NameNat DEF TypeOK
      <4> QED
        BY <2>0, <2>2, <4>1 DEF OpenFile, Parts, NamesInv
    <3> QED
      BY <2>2, <3>1 DEF OpenFile, Whole
  <2>3. CASE WriteFile
    <3>1. /\ ~files[name].whole /\ DOMAIN files' = DOMAIN files
          /\ \A n \in DOMAIN files : n <= name
          /\ \A n \in DOMAIN files : n # name => files'[n] = files[n]
      BY <2>0, <2>3 DEF WriteFile, Parts, NamesInv, TornInv
    <3>2. \A n \in Whole : n < name
      <4>1. \A n \in DOMAIN files : n \in Nat /\ name \in Nat
        BY NameNat DEF TypeOK
      <4> QED
        BY <3>1, <4>1 DEF Whole
    <3> QED
      BY <3>1, <3>2 DEF Whole
  <2> QED
    BY <2>1, <2>2, <2>3 DEF Next, Boot, readAllBlockFiles, AddBlock, Publish, SetBack, Crash,
                            Idle, vars
<1>2. TypeOK /\ ChainInv /\ [Next]_vars => [Grows]_vars
  BY <1>1
<1> QED
  BY <1>2, ChainAlways, StoreTypes, PTL DEF Spec, StoredChainGrows

=============================================================================
