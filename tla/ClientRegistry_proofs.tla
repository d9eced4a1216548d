----------------------- MODULE ClientRegistry_proofs -----------------------
(***************************************************************************)
(* The clients of a runtime, for any number of calls, names and modules.   *)
(***************************************************************************)
EXTENDS ClientRegistry, TLAPS

Waiting == {"check", "call", "wait"}

\* The variables that are functions of calls and of objects.
Types ==
  /\ pc \in [Call -> {"start", "store"} \cup Waiting \cup Uploading \cup Answered]
  /\ AllClients \in [Name -> InitCall \cup {None}]
  /\ \A n \in Name : AllClients[n] # None => NameOf[AllClients[n]] = n
  /\ Wasm_file \in [InitCall -> File]
  /\ Instance \in [InitCall -> File \cup {None}]
  /\ Function \in [InitCall -> Contract \cup {None}]
  /\ theClient \in [UploadCall \cup AddCall -> InitCall \cup {None}]
  /\ body \in [UploadCall -> Body]
  /\ module \in [UploadCall -> File \cup {None}]
  /\ raced \subseteq Name
  /\ shared \subseteq InitCall
  /\ last \in [InitCall -> UploadCall \cup {None}]

\* One Add at a time is past the mutex.
MutexInv == {a \in AddCall : pc[a] \in Waiting} = {mu} \ {None}

\* A name that no two Inits met at has one that will store it at most, and
\* none once it is stored; what was found under the name is stored there still.
NameInv ==
  \A n \in Name \ raced :
    /\ \A i, j \in Storing(n) : i = j
    /\ AllClients[n] # None => Storing(n) = {}
    /\ \A c \in UploadCall \cup AddCall :
         NameOf[c] = n /\ theClient[c] # None => theClient[c] = AllClients[n]

\* A call that is past the lookup has found an object; an Upload has a
\* contract when it sets the function, and the object has one ever after.
CallInv ==
  /\ \A a \in AddCall : pc[a] \in Waiting => theClient[a] \in InitCall
  /\ \A u \in UploadCall :
       /\ pc[u] \in Uploading \cup {"ACK"} => theClient[u] \in InitCall
       /\ pc[u] = "function" => module[u] \in Contract
       /\ pc[u] = "ACK" => Function[theClient[u]] \in Contract

\* At an object that no two Uploads met at, the one at work ...
Brought(o, u) == body[u] # NoField => Wasm_file[o] = body[u]

OwnFile(o, u) ==
  /\ pc[u] \in {"compile", "instance", "export", "function"} => Brought(o, u)
  /\ pc[u] \in {"instance", "export", "function"} => module[u] = Wasm_file[o]
  /\ pc[u] \in {"export", "function"} => Instance[o] = Wasm_file[o]

\* ... works with the file it brought, and so did the last one.
FileInv ==
  \A o \in InitCall \ shared :
    /\ \A u, v \in AtWork(o) : u = v
    /\ \A u \in AtWork(o) : OwnFile(o, u)
    /\ last[o] # None /\ pc[last[o]] = "ACK" /\ AtWork(o) = {} =>
         Function[o] = Wasm_file[o] /\ Brought(o, last[o])
    /\ last[o] # None => theClient[last[o]] = o /\ pc[last[o]] \in {"ACK", "failed"}

RegistryInv == Types /\ MutexInv /\ NameInv /\ CallInv /\ FileInv

\* The kinds of call are disjoint, and calls and files are not nil.
LEMMA Distinct ==
  /\ InitCall \cap UploadCall = {} /\ InitCall \cap AddCall = {}
  /\ UploadCall \cap AddCall = {}
  /\ None \notin InitCall /\ None \notin AddCall /\ None \notin File
  /\ EmptyFile \in File /\ Contract \subseteq File
  /\ \A c \in Call : NameOf[c] \in Name
BY RegistryAssumption DEF File, Name, Call

LEMMA RegistryInit == Init => RegistryInv
<1> SUFFICES ASSUME Init PROVE RegistryInv
  OBVIOUS
<1>1. Types
  BY Distinct DEF Init, Types, Answered, Uploading
<1>2. MutexInv
  BY RegistryAssumption DEF Init, MutexInv, Waiting, Call
<1>3. NameInv
  BY DEF Init, NameInv, Storing, Call
<1>4. CallInv
  BY DEF Init, CallInv, Uploading, Waiting, Call
<1>5. FileInv
  BY DEF Init, FileInv, AtWork, Uploading, Call
<1> QED
  BY <1>1, <1>2, <1>3, <1>4, <1>5 DEF RegistryInv

\* Steps keep the types.
LEMMA TypesNext == RegistryInv /\ [Next]_vars => Types'
<1> SUFFICES ASSUME RegistryInv, [Next]_vars PROVE Types'
  OBVIOUS
<1> USE Distinct
    DEF RegistryInv, Types, CallInv, Waiting, Uploading, Answered, Call, File, Body,
        Storing, objectVars, localVars, historyVars
<1>1. ASSUME NEW i \in InitCall, InitLookup(i) PROVE Types'
  BY <1>1 DEF InitLookup, GetClient
<1>2. ASSUME NEW i \in InitCall, InitStore(i) PROVE Types'
  BY <1>2 DEF InitStore
<1>3. ASSUME NEW u \in UploadCall, UploadLookup(u) PROVE Types'
  BY <1>3 DEF UploadLookup, GetClient
<1>4. ASSUME NEW u \in UploadCall, SetWasmFile(u) PROVE Types'
  BY <1>4 DEF SetWasmFile, Decoded, Ends
<1>5. ASSUME NEW u \in UploadCall, NewModule(u) PROVE Types'
  BY <1>5 DEF NewModule
<1>6. ASSUME NEW u \in UploadCall, NewInstance(u) PROVE Types'
  BY <1>6 DEF NewInstance, Ends
<1>7. ASSUME NEW u \in UploadCall, GetRawFunction(u) PROVE Types'
  BY <1>7 DEF GetRawFunction, Ends
<1>8. ASSUME NEW u \in UploadCall, SetFunction(u) PROVE Types'
  BY <1>8 DEF SetFunction, Ends
<1>9. ASSUME NEW a \in AddCall, AddLookup(a) PROVE Types'
  BY <1>9 DEF AddLookup, GetClient, Returns
<1>10. ASSUME NEW a \in AddCall, AddCheck(a) PROVE Types'
  BY <1>10 DEF AddCheck, Returns
<1>11. ASSUME NEW a \in AddCall, UseWasmFunction(a) PROVE Types'
  BY <1>11 DEF UseWasmFunction, Returns
<1>12. ASSUME NEW a \in AddCall, Answer(a) PROVE Types'
  BY <1>12 DEF Answer, GetClient, Returns
<1>13. CASE UNCHANGED vars
  BY <1>13 DEF vars
<1> QED
  BY <1>1, <1>2, <1>3, <1>4, <1>5, <1>6, <1>7, <1>8, <1>9, <1>10,
     <1>11, <1>12, <1>13
  DEF Next, InitHandler, UploadHandler, SetHandler, Idle

\* Steps keep the mutex.
LEMMA MutexNext == RegistryInv /\ [Next]_vars => MutexInv'
<1> SUFFICES ASSUME RegistryInv, [Next]_vars PROVE MutexInv'
  OBVIOUS
<1> USE Distinct
    DEF RegistryInv, Types, MutexInv, Waiting, Uploading, Call
<1>1. ASSUME NEW i \in InitCall, InitLookup(i) PROVE MutexInv'
  BY <1>1 DEF InitLookup, GetClient
<1>2. ASSUME NEW i \in InitCall, InitStore(i) PROVE MutexInv'
  BY <1>2 DEF InitStore
<1>3. ASSUME NEW u \in UploadCall, UploadLookup(u) PROVE MutexInv'
  BY <1>3 DEF UploadLookup, GetClient
<1>4. ASSUME NEW u \in UploadCall, SetWasmFile(u) PROVE MutexInv'
  BY <1>4 DEF SetWasmFile, Decoded, Ends
<1>5. ASSUME NEW u \in UploadCall, NewModule(u) PROVE MutexInv'
  BY <1>5 DEF NewModule
<1>6. ASSUME NEW u \in UploadCall, NewInstance(u) PROVE MutexInv'
  BY <1>6 DEF NewInstance, Ends
<1>7. ASSUME NEW u \in UploadCall, GetRawFunction(u) PROVE MutexInv'
  BY <1>7 DEF GetRawFunction, Ends
<1>8. ASSUME NEW u \in UploadCall, SetFunction(u) PROVE MutexInv'
  BY <1>8 DEF SetFunction, Ends
<1>9. ASSUME NEW a \in AddCall, AddLookup(a) PROVE MutexInv'
  BY <1>9 DEF AddLookup, GetClient, Returns
<1>10. ASSUME NEW a \in AddCall, AddCheck(a) PROVE MutexInv'
  BY <1>10 DEF AddCheck, Returns
<1>11. ASSUME NEW a \in AddCall, UseWasmFunction(a) PROVE MutexInv'
  BY <1>11 DEF UseWasmFunction, Returns
<1>12. ASSUME NEW a \in AddCall, Answer(a) PROVE MutexInv'
  BY <1>12 DEF Answer, GetClient, Returns
<1>13. CASE UNCHANGED vars
  BY <1>13 DEF vars
<1> QED
  BY <1>1, <1>2, <1>3, <1>4, <1>5, <1>6, <1>7, <1>8, <1>9, <1>10,
     <1>11, <1>12, <1>13
  DEF Next, InitHandler, UploadHandler, SetHandler, Idle

\* Steps keep what is known of a name at which no two Inits met.
LEMMA NameNext == RegistryInv /\ [Next]_vars => NameInv'
<1> SUFFICES ASSUME RegistryInv, [Next]_vars PROVE NameInv'
  OBVIOUS
<1> USE Distinct
    DEF RegistryInv, Types, NameInv, Storing, Uploading, Call, localVars, historyVars
<1>1. ASSUME NEW i \in InitCall, InitLookup(i) PROVE NameInv'
  BY <1>1 DEF InitLookup, GetClient
<1>2. ASSUME NEW i \in InitCall, InitStore(i) PROVE NameInv'
  BY <1>2 DEF InitStore
<1>3. ASSUME NEW u \in UploadCall, UploadLookup(u) PROVE NameInv'
  BY <1>3 DEF UploadLookup, GetClient
<1>4. ASSUME NEW u \in UploadCall, SetWasmFile(u) PROVE NameInv'
  BY <1>4 DEF SetWasmFile, Decoded, Ends
<1>5. ASSUME NEW u \in UploadCall, NewModule(u) PROVE NameInv'
  BY <1>5 DEF NewModule
<1>6. ASSUME NEW u \in UploadCall, NewInstance(u) PROVE NameInv'
  BY <1>6 DEF NewInstance, Ends
<1>7. ASSUME NEW u \in UploadCall, GetRawFunction(u) PROVE NameInv'
  BY <1>7 DEF GetRawFunction, Ends
<1>8. ASSUME NEW u \in UploadCall, SetFunction(u) PROVE NameInv'
  BY <1>8 DEF SetFunction, Ends
<1>9. ASSUME NEW a \in AddCall, AddLookup(a) PROVE NameInv'
  BY <1>9 DEF AddLookup, GetClient, Returns
<1>10. ASSUME NEW a \in AddCall, AddCheck(a) PROVE NameInv'
  BY <1>10 DEF AddCheck, Returns
<1>11. ASSUME NEW a \in AddCall, UseWasmFunction(a) PROVE NameInv'
  BY <1>11 DEF UseWasmFunction, Returns
<1>12. ASSUME NEW a \in AddCall, Answer(a) PROVE NameInv'
  BY <1>12 DEF Answer, GetClient, Returns
<1>13. CASE UNCHANGED vars
  BY <1>13 DEF vars
<1> QED
  BY <1>1, <1>2, <1>3, <1>4, <1>5, <1>6, <1>7, <1>8, <1>9, <1>10,
     <1>11, <1>12, <1>13
  DEF Next, InitHandler, UploadHandler, SetHandler, Idle

\* Steps keep what a call has found; no step takes a function away.
LEMMA CallNext == RegistryInv /\ [Next]_vars => CallInv'
<1> SUFFICES ASSUME RegistryInv, [Next]_vars PROVE CallInv'
  OBVIOUS
<1> USE Distinct
    DEF RegistryInv, Types, CallInv, Waiting, Uploading, Call, objectVars, localVars
<1>1. ASSUME NEW i \in InitCall, InitLookup(i) PROVE CallInv'
  BY <1>1 DEF InitLookup, GetClient
<1>2. ASSUME NEW i \in InitCall, InitStore(i) PROVE CallInv'
  BY <1>2 DEF InitStore
<1>3. ASSUME NEW u \in UploadCall, UploadLookup(u) PROVE CallInv'
  BY <1>3 DEF UploadLookup, GetClient
<1>4. ASSUME NEW u \in UploadCall, SetWasmFile(u) PROVE CallInv'
  BY <1>4 DEF SetWasmFile, Decoded, Ends
<1>5. ASSUME NEW u \in UploadCall, NewModule(u) PROVE CallInv'
  BY <1>5 DEF NewModule
<1>6. ASSUME NEW u \in UploadCall, NewInstance(u) PROVE CallInv'
  BY <1>6 DEF NewInstance, Ends
<1>7. ASSUME NEW u \in UploadCall, GetRawFunction(u) PROVE CallInv'
  BY <1>7 DEF GetRawFunction, Ends
<1>8. ASSUME NEW u \in UploadCall, SetFunction(u) PROVE CallInv'
  BY <1>8 DEF SetFunction, Ends
<1>9. ASSUME NEW a \in AddCall, AddLookup(a) PROVE CallInv'
  BY <1>9 DEF AddLookup, GetClient, Returns
<1>10. ASSUME NEW a \in AddCall, AddCheck(a) PROVE CallInv'
  BY <1>10 DEF AddCheck, Returns
<1>11. ASSUME NEW a \in AddCall, UseWasmFunction(a) PROVE CallInv'
  BY <1>11 DEF UseWasmFunction, Returns
<1>12. ASSUME NEW a \in AddCall, Answer(a) PROVE CallInv'
  BY <1>12 DEF Answer, GetClient, Returns
<1>13. CASE UNCHANGED vars
  BY <1>13 DEF vars
<1> QED
  BY <1>1, <1>2, <1>3, <1>4, <1>5, <1>6, <1>7, <1>8, <1>9, <1>10,
     <1>11, <1>12, <1>13
  DEF Next, InitHandler, UploadHandler, SetHandler, Idle

\* Steps keep what is known of an object at which no two Uploads met.
LEMMA FileNext == RegistryInv /\ [Next]_vars => FileInv'
<1> SUFFICES ASSUME RegistryInv, [Next]_vars PROVE FileInv'
  OBVIOUS
<1> USE Distinct
    DEF RegistryInv, Types, CallInv, FileInv, OwnFile, Brought, AtWork, Uploading, Call,
        objectVars, localVars, historyVars
<1>1. ASSUME NEW i \in InitCall, InitLookup(i) PROVE FileInv'
  BY <1>1 DEF InitLookup, GetClient
<1>2. ASSUME NEW i \in InitCall, InitStore(i) PROVE FileInv'
  BY <1>2 DEF InitStore
<1>3. ASSUME NEW u \in UploadCall, UploadLookup(u) PROVE FileInv'
  BY <1>3 DEF UploadLookup, GetClient
<1>4. ASSUME NEW u \in UploadCall, SetWasmFile(u) PROVE FileInv'
  BY <1>4 DEF SetWasmFile, Decoded, Ends
<1>5. ASSUME NEW u \in UploadCall, NewModule(u) PROVE FileInv'
  BY <1>5 DEF NewModule
<1>6. ASSUME NEW u \in UploadCall, NewInstance(u) PROVE FileInv'
  BY <1>6 DEF NewInstance, Ends
<1>7. ASSUME NEW u \in UploadCall, GetRawFunction(u) PROVE FileInv'
  BY <1>7 DEF GetRawFunction, Ends
<1>8. ASSUME NEW u \in UploadCall, SetFunction(u) PROVE FileInv'
  BY <1>8 DEF SetFunction, Ends
<1>9. ASSUME NEW a \in AddCall, AddLookup(a) PROVE FileInv'
  BY <1>9 DEF AddLookup, GetClient, Returns
<1>10. ASSUME NEW a \in AddCall, AddCheck(a) PROVE FileInv'
  BY <1>10 DEF AddCheck, Returns
<1>11. ASSUME NEW a \in AddCall, UseWasmFunction(a) PROVE FileInv'
  BY <1>11 DEF UseWasmFunction, Returns
<1>12. ASSUME NEW a \in AddCall, Answer(a) PROVE FileInv'
  BY <1>12 DEF Answer, GetClient, Returns
<1>13. CASE UNCHANGED vars
  BY <1>13 DEF vars
<1> QED
  BY <1>1, <1>2, <1>3, <1>4, <1>5, <1>6, <1>7, <1>8, <1>9, <1>10,
     <1>11, <1>12, <1>13
  DEF Next, InitHandler, UploadHandler, SetHandler, Idle

LEMMA RegistryAlways == Spec => []RegistryInv
<1>1. RegistryInv /\ [Next]_vars => RegistryInv'
  BY TypesNext, MutexNext, NameNext, CallNext, FileNext DEF RegistryInv
<1> QED
  BY <1>1, RegistryInit, PTL DEF Spec

\* Every reachable state is well typed: one Add at a time is past the mutex,
\* and what is registered under a name was made by an Init of that name.
THEOREM RegistryTypes == Spec => []TypeOK
<1>1. RegistryInv => TypeOK
  BY Distinct DEF RegistryInv, Types, MutexInv, Waiting, TypeOK
<1> QED
  BY <1>1, RegistryAlways, PTL

\* The object an Add waits on is the one the listener looks up for it, unless
\* two Inits of the name met.
THEOREM WaitersAreFound == Spec => []AnswerFound
<1>1. RegistryInv => AnswerFound
  <2> SUFFICES ASSUME RegistryInv, NEW a \in AddCall, pc[a] = "wait", NameOf[a] \notin raced
               PROVE  GetClient(NameOf[a]) = theClient[a]
    BY DEF AnswerFound
  <2>1. theClient[a] # None
    BY Distinct DEF RegistryInv, CallInv, Waiting
  <2> QED
    BY <2>1, Distinct DEF RegistryInv, NameInv, Call, GetClient
<1> QED
  BY <1>1, RegistryAlways, PTL

\* A client one of whose Uploads was answered ACK can be called, unless two
\* Inits of the name met.
THEOREM UploadsServe == Spec => []UploadServes
<1>1. RegistryInv => UploadServes
  <2> SUFFICES ASSUME RegistryInv, NEW u \in UploadCall, pc[u] = "ACK", NameOf[u] \notin raced
               PROVE  Function[GetClient(NameOf[u])] \in Contract
    BY DEF UploadServes
  <2>1. theClient[u] \in InitCall /\ Function[theClient[u]] \in Contract
    BY DEF RegistryInv, CallInv
  <2>2. GetClient(NameOf[u]) = theClient[u]
    BY <2>1, Distinct DEF RegistryInv, NameInv, Call, GetClient
  <2> QED
    BY <2>1, <2>2
<1> QED
  BY <1>1, RegistryAlways, PTL

\* A client whose last Upload was answered ACK runs the file that Upload
\* brought, unless two Uploads of it met.
THEOREM FunctionsOfFiles == Spec => []FunctionOfFile
<1>1. RegistryInv => FunctionOfFile
  BY DEF RegistryInv, FileInv, Brought, FunctionOfFile
<1> QED
  BY <1>1, RegistryAlways, PTL

\* No Upload takes a function away, at whatever step it fails.
THEOREM FunctionsStay == Spec => FunctionKept
<1> DEFINE Kept == \A o \in InitCall : Function[o] # None => Function'[o] # None
<1>1. RegistryInv /\ [Next]_vars => [Kept]_vars
  <2> SUFFICES ASSUME RegistryInv, Next, NEW o \in InitCall, Function[o] # None
               PROVE  Function'[o] # None
    OBVIOUS
  <2>1. ASSUME NEW u \in UploadCall, SetFunction(u) PROVE Function'[o] # None
    BY <2>1, Distinct DEF SetFunction, RegistryInv, Types, CallInv
  <2>2. CASE UNCHANGED Function
    BY <2>2
  <2> QED
    BY <2>1, <2>2
    DEF Next, InitHandler, UploadHandler, SetHandler, Idle, InitLookup, InitStore,
        UploadLookup, SetWasmFile, NewModule, NewInstance, GetRawFunction, AddLookup,
        AddCheck, UseWasmFunction, Answer, objectVars, vars
<1> QED
  BY <1>1, RegistryAlways, PTL DEF Spec, FunctionKept

=============================================================================
