--------------------------- MODULE ClientRegistry ---------------------------
(***************************************************************************)
(* The clients of one runtime: InitHandler, UploadHandler and SetHandler   *)
(* as goroutines of the HTTP server that share AllClients and the Client   *)
(* objects.  Only SetHandler takes the runtime's mutex.                    *)
(*                                                                         *)
(* An Init, an Upload and an Add each stand for one call.  A Client object *)
(* is known by the Init that made it.  A wasm module is known by its       *)
(* identity and by what wasmer does with it; a function by the module it   *)
(* was exported from.  What becomes of the transaction an Add sends is in  *)
(* the module Runtime.  All of this is in memory: a crash is a return to   *)
(* Init, and is not modelled here.                                         *)
(***************************************************************************)
EXTENDS FiniteSets

CONSTANTS
  InitCall, UploadCall, AddCall,  \* calls, as many as happen
  NameOf,      \* the username each call gives
  NoName,      \* the empty username
  Contract,    \* modules that export add_one
  Library,     \* modules that can be instantiated and do not export it
  Broken,      \* modules that cannot be compiled or instantiated
  EmptyFile,   \* no bytes, of which wasmer may or may not make a module
  NoField,     \* a body without the field File
  Malformed,   \* a body that is not JSON
  None         \* nil

Call == InitCall \cup UploadCall \cup AddCall
Name == {NameOf[c] : c \in Call}
File == Contract \cup Library \cup Broken \cup {EmptyFile}
Body == File \cup {NoField, Malformed}

ASSUME RegistryAssumption ==
  /\ InitCall \cap UploadCall = {}
  /\ AddCall \cap (InitCall \cup UploadCall) = {}
  /\ NameOf = [c \in Call |-> NameOf[c]]
  /\ Contract \cap (Library \cup Broken) = {}
  /\ Library \cap Broken = {}
  /\ EmptyFile \notin Contract \cup Library \cup Broken
  /\ NoField \notin File /\ Malformed \notin File
  /\ None \notin InitCall \cup AddCall \cup File

VARIABLES
  pc,          \* where each call is, or how it was answered
  mu,          \* the Add that holds the runtime's mutex
  AllClients,  \* for each name the Client object, or None
  Wasm_file,   \* of each Client object
  Instance,
  Function,
  theClient,   \* local to an Upload or an Add: the Client object it found
  body,        \* local to an Upload: the body of the request
  module,      \* local to an Upload: the module it works with
  raced,       \* history: names that two Inits looked up before either stored
  shared,      \* history: objects that two Uploads were at work on at once
  last         \* history: the Upload of each object that was answered last

objectVars == <<Wasm_file, Instance, Function>>
localVars == <<theClient, body, module>>
historyVars == <<raced, shared, last>>
vars == <<pc, mu, AllClients, objectVars, localVars, historyVars>>

Init ==
  /\ pc = [c \in Call |-> "start"]
  /\ mu = None
  /\ AllClients = [n \in Name |-> None]
  /\ Wasm_file = [o \in InitCall |-> EmptyFile]
  /\ Instance = [o \in InitCall |-> None]
  /\ Function = [o \in InitCall |-> None]
  /\ theClient = [c \in UploadCall \cup AddCall |-> None]
  /\ body \in [UploadCall -> Body]
  /\ module = [u \in UploadCall |-> None]
  /\ raced = {}
  /\ shared = {}
  /\ last = [o \in InitCall |-> None]

GetClient(n) == AllClients[n]

-----------------------------------------------------------------------------
(***************************************************************************)
(* InitHandler: the name is looked up, and the new client stored later.    *)
(***************************************************************************)

\* The others that have looked n up and will store a client.
Storing(n) == {i \in InitCall : pc[i] = "store" /\ NameOf[i] = n}

\* Fault: a client that exists is replaced.
InitReplaces(i) ==
  /\ pc[i] = "start"
  /\ pc' = [pc EXCEPT ![i] = "store"]
  /\ raced' = raced \cup {NameOf[j] : j \in Storing(NameOf[i])}
  /\ UNCHANGED <<mu, AllClients, objectVars, localVars, shared, last>>

InitLookup(i) ==
  /\ pc[i] = "start"
  /\ \/ /\ GetClient(NameOf[i]) # None
        /\ pc' = [pc EXCEPT ![i] = "exists"]
        /\ UNCHANGED raced
     \/ /\ GetClient(NameOf[i]) = None
        /\ pc' = [pc EXCEPT ![i] = "store"]
        /\ raced' = raced \cup {NameOf[j] : j \in Storing(NameOf[i])}
  /\ UNCHANGED <<mu, AllClients, objectVars, localVars, shared, last>>

InitStore(i) ==
  /\ pc[i] = "store"
  /\ AllClients' = [AllClients EXCEPT ![NameOf[i]] = i]
  /\ pc' = [pc EXCEPT ![i] = "ACK"]
  /\ UNCHANGED <<mu, objectVars, localVars, historyVars>>

-----------------------------------------------------------------------------
(***************************************************************************)
(* UploadHandler.                                                          *)
(***************************************************************************)
Uploading == {"decode", "compile", "instance", "export", "function"}

AtWork(o) == {u \in UploadCall : pc[u] \in Uploading /\ theClient[u] = o}

UploadLookup(u) ==
  /\ pc[u] = "start"
  /\ LET o == GetClient(NameOf[u]) IN
       \/ /\ NameOf[u] = NoName \/ o = None
          /\ pc' = [pc EXCEPT ![u] = "refused"]
          /\ UNCHANGED <<theClient, shared>>
       \/ /\ NameOf[u] # NoName /\ o # None
          /\ theClient' = [theClient EXCEPT ![u] = o]
          /\ pc' = [pc EXCEPT ![u] = "decode"]
          /\ shared' = IF AtWork(o) = {} THEN shared ELSE shared \cup {o}
  /\ UNCHANGED <<mu, AllClients, objectVars, body, module, raced, last>>

\* What every end of an Upload has in common.
Ends(u, answer) ==
  /\ pc' = [pc EXCEPT ![u] = answer]
  /\ last' = [last EXCEPT ![theClient[u]] = u]

\* Fault: a client that has a module keeps it.
KeepFirst(o, b) ==
  IF b = NoField \/ Wasm_file[o] # EmptyFile THEN Wasm_file[o] ELSE b

\* Decoding leaves a field alone that the body does not have.
Decoded(o, b) == IF b = NoField THEN Wasm_file[o] ELSE b

SetWasmFile(u) ==
  /\ pc[u] = "decode"
  /\ \/ /\ body[u] = Malformed
        /\ Ends(u, "failed")
        /\ UNCHANGED Wasm_file
     \/ /\ body[u] # Malformed
        /\ Wasm_file' = [Wasm_file EXCEPT ![theClient[u]] = Decoded(theClient[u], body[u])]
        /\ pc' = [pc EXCEPT ![u] = "compile"]
        /\ UNCHANGED last
  /\ UNCHANGED <<mu, AllClients, Instance, Function, localVars, raced, shared>>

\* Fault: the client is cleared before its new module is made.
ClearedFirst(u) ==
  /\ pc[u] = "compile"
  /\ module' = [module EXCEPT ![u] = Wasm_file[theClient[u]]]
  /\ Function' = [Function EXCEPT ![theClient[u]] = None]
  /\ pc' = [pc EXCEPT ![u] = "instance"]
  /\ UNCHANGED <<mu, AllClients, Wasm_file, Instance, theClient, body, historyVars>>

\* The client's file is passed to wasmer, ...
NewModule(u) ==
  /\ pc[u] = "compile"
  /\ module' = [module EXCEPT ![u] = Wasm_file[theClient[u]]]
  /\ pc' = [pc EXCEPT ![u] = "instance"]
  /\ UNCHANGED <<mu, AllClients, objectVars, theClient, body, historyVars>>

\* ... which makes an instance, or an error and a nil instance, or panics on
\* the module that NewModule, whose error is dropped, did not make.
NewInstance(u) ==
  /\ pc[u] = "instance"
  /\ \/ /\ module[u] \in Contract \cup Library \cup {EmptyFile}
        /\ Instance' = [Instance EXCEPT ![theClient[u]] = module[u]]
        /\ pc' = [pc EXCEPT ![u] = "export"]
        /\ UNCHANGED last
     \/ /\ module[u] \in Broken \cup {EmptyFile}
        /\ \/ Instance' = [Instance EXCEPT ![theClient[u]] = None]
           \/ UNCHANGED Instance
        /\ Ends(u, "failed")
  /\ UNCHANGED <<mu, AllClients, Wasm_file, Function, localVars, raced, shared>>

\* Fault: the error of GetRawFunction is not looked at.
ExportUnchecked(u) ==
  /\ pc[u] = "export"
  /\ LET i == Instance[theClient[u]] IN
       module' = [module EXCEPT ![u] = IF i \in Contract THEN i ELSE None]
  /\ pc' = [pc EXCEPT ![u] = "function"]
  /\ UNCHANGED <<mu, AllClients, objectVars, theClient, body, historyVars>>

\* GetRawFunction, of the client's instance: the one this Upload made, or
\* what another has put in its place, which may be nil.
GetRawFunction(u) ==
  /\ pc[u] = "export"
  /\ LET i == Instance[theClient[u]] IN
       \/ /\ i \in Contract
          /\ module' = [module EXCEPT ![u] = i]
          /\ pc' = [pc EXCEPT ![u] = "function"]
          /\ UNCHANGED last
       \/ /\ i \notin Contract
          /\ Ends(u, "failed")
          /\ UNCHANGED module
  /\ UNCHANGED <<mu, AllClients, objectVars, theClient, body, raced, shared>>

SetFunction(u) ==
  /\ pc[u] = "function"
  /\ Function' = [Function EXCEPT ![theClient[u]] = module[u]]
  /\ Ends(u, "ACK")
  /\ UNCHANGED <<mu, AllClients, Wasm_file, Instance, localVars, raced, shared>>

-----------------------------------------------------------------------------
(***************************************************************************)
(* SetHandler, up to the wait for the ordering service.                    *)
(***************************************************************************)

\* An Add ends, and the deferred Unlock runs.
Returns(a, answer) ==
  /\ pc' = [pc EXCEPT ![a] = answer]
  /\ mu' = None

AddLookup(a) ==
  /\ pc[a] = "start"
  /\ mu = None
  /\ LET o == GetClient(NameOf[a]) IN
       \/ /\ NameOf[a] = NoName \/ o = None
          /\ Returns(a, "refused")
          /\ UNCHANGED theClient
       \/ /\ NameOf[a] # NoName /\ o # None
          /\ theClient' = [theClient EXCEPT ![a] = o]
          /\ mu' = a
          /\ pc' = [pc EXCEPT ![a] = "check"]
  /\ UNCHANGED <<AllClients, objectVars, body, module, historyVars>>

\* WasmFileExist, and the key and the value, which need not be numbers.
AddCheck(a) ==
  /\ pc[a] = "check"
  /\ \/ Returns(a, "refused")
     \/ /\ Wasm_file[theClient[a]] # EmptyFile
        /\ pc' = [pc EXCEPT ![a] = "call"]
        /\ UNCHANGED mu
  /\ UNCHANGED <<AllClients, objectVars, localVars, historyVars>>

\* The call of a nil function panics, which the HTTP server recovers from.
\* Else it fails, or the transaction is sent or could not be.
UseWasmFunction(a) ==
  /\ pc[a] = "call"
  /\ \/ Function[theClient[a]] = None /\ Returns(a, "panic")
     \/ Function[theClient[a]] # None /\ Returns(a, "error")
     \/ /\ Function[theClient[a]] # None
        /\ pc' = [pc EXCEPT ![a] = "wait"]
        /\ UNCHANGED mu
  /\ UNCHANGED <<AllClients, objectVars, localVars, historyVars>>

\* Fault: only an answer releases the mutex.
HeldByTimeOut(a) ==
  /\ pc[a] = "wait"
  /\ \/ pc' = [pc EXCEPT ![a] = "timeout"] /\ UNCHANGED mu
     \/ GetClient(NameOf[a]) = theClient[a] /\ Returns(a, "ACK")
  /\ UNCHANGED <<AllClients, objectVars, localVars, historyVars>>

\* waitForOrderingMessages looks the client up by its name: it answers an Add
\* only on the object that is registered then.
Answer(a) ==
  /\ pc[a] = "wait"
  /\ \/ Returns(a, "timeout")
     \/ GetClient(NameOf[a]) = theClient[a] /\ Returns(a, "ACK")
  /\ UNCHANGED <<AllClients, objectVars, localVars, historyVars>>

-----------------------------------------------------------------------------
InitHandler(i) == InitLookup(i) \/ InitStore(i)

UploadHandler(u) ==
  \/ UploadLookup(u) \/ SetWasmFile(u)
  \/ NewModule(u) \/ NewInstance(u) \/ GetRawFunction(u) \/ SetFunction(u)

SetHandler(a) == AddLookup(a) \/ AddCheck(a) \/ UseWasmFunction(a) \/ Answer(a)

Answered == {"exists", "ACK", "refused", "failed", "error", "panic", "timeout"}

\* Every call was answered.  A self-loop, so that TLC reports any other state
\* without a successor.
Idle == (\A c \in Call : pc[c] \in Answered) /\ UNCHANGED vars

Next ==
  \/ \E i \in InitCall : InitHandler(i)
  \/ \E u \in UploadCall : UploadHandler(u)
  \/ \E a \in AddCall : SetHandler(a)
  \/ Idle

Spec == Init /\ [][Next]_vars

-----------------------------------------------------------------------------
(***************************************************************************)
(* Properties.                                                             *)
(***************************************************************************)

\* Every variable has its type, the mutex is held by the one Add that is past
\* it, and a registered client has its name.
TypeOK ==
  /\ pc \in [Call -> {"start", "store", "check", "call", "wait"} \cup Uploading \cup Answered]
  /\ {a \in AddCall : pc[a] \in {"check", "call", "wait"}} = {mu} \ {None}
  /\ \A n \in Name : AllClients[n] \in {i \in InitCall : NameOf[i] = n} \cup {None}
  /\ Wasm_file \in [InitCall -> File]
  /\ Instance \in [InitCall -> File \cup {None}]
  /\ Function \in [InitCall -> Contract \cup {None}]
  /\ theClient \in [UploadCall \cup AddCall -> InitCall \cup {None}]
  /\ body \in [UploadCall -> Body]
  /\ module \in [UploadCall -> File \cup {None}]
  /\ raced \subseteq Name
  /\ shared \subseteq InitCall
  /\ last \in [InitCall -> UploadCall \cup {None}]

\* While no two Inits of the name met, an Add that waits does so on the object
\* on which waitForOrderingMessages will answer it.
AnswerFound ==
  \A a \in AddCall : pc[a] = "wait" /\ NameOf[a] \notin raced =>
    GetClient(NameOf[a]) = theClient[a]

\* Once an Upload was answered ACK, the client that is registered has a
\* function, whatever the Uploads before and after it fail at and however
\* they interleave, while no two Inits of the name met.
UploadServes ==
  \A u \in UploadCall : pc[u] = "ACK" /\ NameOf[u] \notin raced =>
    Function[GetClient(NameOf[u])] \in Contract

\* When the last Upload of a client was answered ACK, its function comes from
\* the file it has, which is the one that Upload brought: true of a client of
\* which no two Uploads met, also when Uploads that failed came between.
FunctionOfFile ==
  \A o \in InitCall \ shared :
    last[o] # None /\ pc[last[o]] = "ACK" /\ AtWork(o) = {} =>
      /\ Function[o] = Wasm_file[o]
      /\ body[last[o]] # NoField => Wasm_file[o] = body[last[o]]

\* An Upload that fails, at whatever step, takes no function away.
FunctionKept ==
  [][\A o \in InitCall : Function[o] # None => Function'[o] # None]_vars

=============================================================================
