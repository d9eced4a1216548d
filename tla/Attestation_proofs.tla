-------------------------- MODULE Attestation_proofs --------------------------
(***************************************************************************)
(* What a connected runtime knows of its service, and the service of it,   *)
(* for any number of processes, starts and enclaves.                       *)
(***************************************************************************)
EXTENDS Attestation, TLAPS

Running == {s \in Service : proc[s] = "run"}

\* The types of the service's variables and of the runtimes', the former
\* without the conditions on processes that run.
ServiceTypes ==
  /\ proc \in [Service -> {"off", "run", "ended"}]
  /\ expired \subseteq Service
  /\ issued \in [Service -> SUBSET Runtime]

PortTypes ==
  /\ attestPort \in {None} \cup Running
  /\ securePort \in {None} \cup Running
  /\ session \in [Runtime -> {None} \cup Running]

RuntimeTypes ==
  /\ pc \in [Runtime -> {"off", "cert", "report", "client", "dial", "up", "panicked"}]
  /\ serverCert \in [Runtime -> Service \cup {None}]
  /\ serverReport \in [Runtime -> Report \cup {None}]
  /\ clientCert \in [Runtime -> Service \cup {None}]
  /\ starts \in 0 .. MaxStarts

Types == ServiceTypes /\ PortTypes /\ RuntimeTypes

\* What a runtime has at each step of its main.
CertStep(r) ==
  pc[r] \in {"report", "client", "dial", "up"} => serverCert[r] \in Service

ReportStep(r) ==
  pc[r] \in {"client", "dial", "up"} =>
    /\ serverReport[r] \in Report
    /\ serverReport[r].data = serverCert[r]
    /\ serverReport[r].of = Enclave[serverCert[r]]
    /\ Accepts(serverCert[r], r)

ClientStep(r) ==
  pc[r] \in {"dial", "up"} =>
    /\ clientCert[r] \in Service
    /\ r \in issued[clientCert[r]]
    /\ Accepts(r, clientCert[r])

SessionStep(r) ==
  session[r] # None =>
    /\ pc[r] = "up"
    /\ serverCert[r] = session[r]
    /\ clientCert[r] = session[r]

Steps(r) == CertStep(r) /\ ReportStep(r) /\ ClientStep(r) /\ SessionStep(r)

HandshakeInv == Types /\ \A r \in Runtime : Steps(r)

\* A report that is taken for one on data is one on data, of an enclave the
\* verifier accepts.
LEMMA VerifiedReport ==
  ASSUME NEW p \in Process, NEW q \in Process, NEW data, NEW target, NEW d,
         VerifyReport(LocalReport(p, d, target), data, q)
  PROVE  Accepts(p, q) /\ d = data
BY DEF VerifyReport, LocalReport, Accepts

LEMMA HandshakeInit == Init => HandshakeInv
<1> SUFFICES ASSUME Init PROVE HandshakeInv
  OBVIOUS
<1>1. Types
  BY AttestationAssumption
  DEF Init, Types, ServiceTypes, PortTypes, RuntimeTypes
<1>2. ASSUME NEW r \in Runtime PROVE Steps(r)
  BY <1>2 DEF Init, Steps, CertStep, ReportStep, ClientStep, SessionStep
<1> QED
  BY <1>1, <1>2 DEF HandshakeInv

\* The end of a service frees its ports and breaks its websockets.
LEMMA EndKeeps ==
  ASSUME HandshakeInv, NEW s \in Service, End(s)
  PROVE  HandshakeInv'
<1>1. Running' = Running \ {s}
  BY DEF HandshakeInv, Types, ServiceTypes, End, Running
<1>2. ServiceTypes'
  BY DEF HandshakeInv, Types, ServiceTypes, End
<1>3. PortTypes'
  BY <1>1 DEF HandshakeInv, Types, PortTypes, End, Freed
<1>4. RuntimeTypes'
  BY DEF HandshakeInv, Types, RuntimeTypes, End
<1>5. ASSUME NEW r \in Runtime PROVE Steps(r)'
  <2>1. Steps(r)
    BY DEF HandshakeInv
  <2>2. session'[r] \in {None, session[r]}
    BY DEF End, Freed
  <2> QED
    BY <2>1, <2>2
    DEF End, Steps, CertStep, ReportStep, ClientStep, SessionStep, Accepts
<1> QED
  BY <1>2, <1>3, <1>4, <1>5 DEF HandshakeInv, Types

\* A panic leaves the runtime with nothing.
LEMMA PanicKeeps ==
  ASSUME HandshakeInv, NEW r \in Runtime, Panic(r)
  PROVE  HandshakeInv'
<1>1. Running' = Running
  BY DEF Panic, serviceVars, Running
<1>2. ServiceTypes'
  BY DEF HandshakeInv, Types, ServiceTypes, Panic, serviceVars
<1>3. PortTypes'
  BY <1>1 DEF HandshakeInv, Types, PortTypes, Panic, serviceVars
<1>4. RuntimeTypes'
  BY DEF HandshakeInv, Types, RuntimeTypes, Panic
<1>5. ASSUME NEW q \in Runtime PROVE Steps(q)'
  <2>1. Steps(q)
    BY DEF HandshakeInv
  <2>2. CASE q = r
    <3>1. pc'[r] = "panicked" /\ session'[r] = None
      BY DEF Panic, HandshakeInv, Types, RuntimeTypes, PortTypes
    <3> QED
      BY <2>2, <3>1 DEF Steps, CertStep, ReportStep, ClientStep, SessionStep
  <2>3. CASE q # r
    <3>1. /\ pc'[q] = pc[q]
          /\ serverCert'[q] = serverCert[q]
          /\ serverReport'[q] = serverReport[q]
          /\ clientCert'[q] = clientCert[q]
          /\ session'[q] = session[q]
          /\ issued' = issued
      BY <2>3 DEF Panic, serviceVars, HandshakeInv, Types, RuntimeTypes, PortTypes
    <3> QED
      BY <2>1, <3>1 DEF Steps, CertStep, ReportStep, ClientStep, SessionStep, Accepts
  <2> QED
    BY <2>2, <2>3
<1> QED
  BY <1>2, <1>3, <1>4, <1>5 DEF HandshakeInv, Types

\* A service starts, takes a free port or grows old.
LEMMA ServiceKeeps ==
  ASSUME HandshakeInv, NEW s \in Service,
         ServiceStart(s) \/ ListenAttest(s) \/ ListenSecure(s) \/ Expire(s)
  PROVE  HandshakeInv'
<1>1. CASE End(s)
  BY <1>1, EndKeeps
<1>2. CASE ~End(s)
  <2>1. UNCHANGED runtimeVars /\ issued' = issued
    BY <1>2 DEF ServiceStart, ListenAttest, ListenSecure, Expire
  <2>2. ServiceTypes'
    BY <1>2 DEF HandshakeInv, Types, ServiceTypes, ServiceStart, ListenAttest,
                ListenSecure, Expire
  <2>3. Running \subseteq Running'
    BY <1>2 DEF HandshakeInv, Types, ServiceTypes, Running, ServiceStart,
                ListenAttest, ListenSecure, Expire
  <2>4. attestPort' \in {attestPort, s} /\ securePort' \in {securePort, s}
    BY <1>2 DEF ServiceStart, ListenAttest, ListenSecure, Expire
  <2>5. s \in Running'
    BY <1>2 DEF HandshakeInv, Types, ServiceTypes, Running, ServiceStart,
                ListenAttest, ListenSecure, Expire
  <2>6. PortTypes'
    BY <2>1, <2>3, <2>4, <2>5 DEF HandshakeInv, Types, PortTypes, runtimeVars
  <2>7. RuntimeTypes'
    BY <2>1 DEF HandshakeInv, Types, RuntimeTypes, runtimeVars
  <2>8. ASSUME NEW r \in Runtime PROVE Steps(r)'
    BY <2>1 DEF HandshakeInv, Steps, CertStep, ReportStep, ClientStep,
                SessionStep, Accepts, runtimeVars
  <2> QED
    BY <2>2, <2>6, <2>7, <2>8 DEF HandshakeInv, Types
<1> QED
  BY <1>1, <1>2

\* A step of one runtime leaves the others what they have, and takes no
\* certificate back.
LEMMA OthersKeep ==
  ASSUME HandshakeInv, NEW q \in Runtime,
         pc'[q] = pc[q], serverCert'[q] = serverCert[q],
         serverReport'[q] = serverReport[q], clientCert'[q] = clientCert[q],
         session'[q] = session[q],
         \A t \in Service : issued[t] \subseteq issued'[t]
  PROVE  Steps(q)'
BY DEF HandshakeInv, Steps, CertStep, ReportStep, ClientStep, SessionStep, Accepts

\* A step of main that does not panic.
LEMMA MainKeeps ==
  ASSUME HandshakeInv, NEW r \in Runtime, Start(r) \/ Main(r), ~Panic(r)
  PROVE  HandshakeInv'
<1> USE DEF HandshakeInv, Types
<1>0. Service \subseteq Process /\ Runtime \subseteq Process /\ None \notin Service
  BY AttestationAssumption DEF Process
<1>1. CASE Start(r)
  <2>1. ServiceTypes' /\ PortTypes'
    BY <1>1 DEF Start, serviceVars, ServiceTypes, PortTypes, Running
  <2>2. RuntimeTypes'
    BY <1>1, AttestationAssumption DEF Start, RuntimeTypes
  <2>3. ASSUME NEW q \in Runtime, q # r PROVE Steps(q)'
    BY <1>1, <2>3, OthersKeep DEF Start, serviceVars, RuntimeTypes
  <2>4. Steps(r)'
    BY <1>1 DEF Start, serviceVars, RuntimeTypes, Steps, CertStep, ReportStep,
                ClientStep, SessionStep
  <2> QED
    BY <2>1, <2>2, <2>3, <2>4
<1>2. CASE GetCert(r)
  <2>1. attestPort \in Service
    BY <1>2 DEF GetCert, PortTypes, Running
  <2>2. ServiceTypes' /\ PortTypes'
    BY <1>2 DEF GetCert, serviceVars, ServiceTypes, PortTypes, Running
  <2>3. RuntimeTypes'
    BY <1>2, <2>1 DEF GetCert, RuntimeTypes
  <2>4. ASSUME NEW q \in Runtime, q # r PROVE Steps(q)'
    BY <1>2, <2>4, OthersKeep DEF GetCert, serviceVars, RuntimeTypes
  <2>5. Steps(r)'
    BY <1>2, <2>1 DEF GetCert, serviceVars, RuntimeTypes, Steps, CertStep,
                      ReportStep, ClientStep, SessionStep
  <2> QED
    BY <2>2, <2>3, <2>4, <2>5
<1>3. CASE GetReport(r)
  <2>1. attestPort \in Service /\ ReportAccepted(r)
    BY <1>3 DEF GetReport, ReportAccepted, PortTypes, Running
  <2>2. Accepts(attestPort, r) /\ attestPort = serverCert[r]
    BY <1>0, <2>1, VerifiedReport DEF ReportAccepted, ServerReport
  <2>3. ServerReport(r) \in Report
    BY <1>0, <2>1 DEF ServerReport, LocalReport, Report
  <2>4. ServiceTypes' /\ PortTypes'
    BY <1>3 DEF GetReport, serviceVars, ServiceTypes, PortTypes, Running
  <2>5. RuntimeTypes'
    BY <1>3, <2>3 DEF GetReport, RuntimeTypes
  <2>6. ASSUME NEW q \in Runtime, q # r PROVE Steps(q)'
    BY <1>3, <2>6, OthersKeep DEF GetReport, serviceVars, RuntimeTypes
  <2>7. serverReport'[r] = ServerReport(r) /\ pc[r] = "report" /\ pc'[r] = "client"
    BY <1>3 DEF GetReport, RuntimeTypes
  <2>8. Steps(r)'
    BY <1>3, <2>1, <2>2, <2>3, <2>7
    DEF GetReport, ServerReport, LocalReport, Steps, CertStep, ReportStep, ClientStep,
        SessionStep, Accepts
  <2> QED
    BY <2>4, <2>5, <2>6, <2>8
<1>4. CASE GetClient(r)
  <2>1. attestPort \in Service /\ ClientAccepted(r)
    BY <1>4 DEF GetClient, ClientAccepted, PortTypes, Running
  <2>2. Accepts(r, attestPort)
    BY <1>0, <2>1, VerifiedReport DEF ClientAccepted, ClientReport
  <2>3. ServiceTypes' /\ PortTypes'
    BY <1>4 DEF GetClient, ServiceTypes, PortTypes, Running
  <2>4. RuntimeTypes'
    BY <1>4, <2>1 DEF GetClient, RuntimeTypes
  <2>5. \A t \in Service : issued[t] \subseteq issued'[t]
    BY <1>4 DEF GetClient, ServiceTypes
  <2>6. ASSUME NEW q \in Runtime, q # r PROVE Steps(q)'
    BY <1>4, <2>5, <2>6, OthersKeep DEF GetClient, RuntimeTypes
  <2>7. /\ clientCert'[r] = attestPort
        /\ r \in issued'[attestPort]
        /\ pc[r] = "client"
        /\ pc'[r] = "dial"
    BY <1>4, <2>1 DEF GetClient, RuntimeTypes, ServiceTypes
  <2>8. Steps(r)'
    BY <1>4, <2>1, <2>2, <2>7
    DEF GetClient, Steps, CertStep, ReportStep, ClientStep, SessionStep, Accepts
  <2> QED
    BY <2>3, <2>4, <2>6, <2>8
<1>5. CASE Dial(r)
  <2>1. HandshakeSucceeds(r) /\ securePort \in Running
    BY <1>5 DEF Dial, HandshakeSucceeds, PortTypes
  <2>2. ServiceTypes' /\ PortTypes'
    BY <1>5, <2>1 DEF Dial, serviceVars, ServiceTypes, PortTypes, Running
  <2>3. RuntimeTypes'
    BY <1>5 DEF Dial, RuntimeTypes
  <2>4. ASSUME NEW q \in Runtime, q # r PROVE Steps(q)'
    BY <1>5, <2>4, OthersKeep DEF Dial, serviceVars, RuntimeTypes, PortTypes
  <2>5. session'[r] = securePort /\ pc[r] = "dial" /\ pc'[r] = "up"
    BY <1>5 DEF Dial, RuntimeTypes, PortTypes
  <2>6. Steps(r)'
    BY <1>5, <2>1, <2>5
    DEF Dial, serviceVars, HandshakeSucceeds, ServerTrusted, ClientTrusted, Steps,
        CertStep, ReportStep, ClientStep, SessionStep, Accepts
  <2> QED
    BY <2>2, <2>3, <2>4, <2>6
<1> QED
  BY <1>1, <1>2, <1>3, <1>4, <1>5 DEF Main

LEMMA HandshakeNext == HandshakeInv /\ [Next]_vars => HandshakeInv'
<1> SUFFICES ASSUME HandshakeInv, [Next]_vars PROVE HandshakeInv'
  OBVIOUS
<1>1. ASSUME NEW s \in Service,
             ServiceStart(s) \/ ListenAttest(s) \/ ListenSecure(s) \/ Expire(s)
      PROVE  HandshakeInv'
  BY <1>1, ServiceKeeps
<1>2. ASSUME NEW s \in Service, End(s) PROVE HandshakeInv'
  BY <1>2, EndKeeps
<1>3. ASSUME NEW r \in Runtime, Start(r) \/ Main(r) \/ Crash(r) PROVE HandshakeInv'
  <2>1. CASE Panic(r)
    BY <2>1, PanicKeeps
  <2>2. CASE ~Panic(r)
    BY <1>3, <2>2, MainKeeps DEF Crash
  <2> QED
    BY <2>1, <2>2
<1>4. CASE UNCHANGED vars
  BY <1>4
  DEF vars, serviceVars, runtimeVars, HandshakeInv, Types, ServiceTypes, PortTypes,
      Running, RuntimeTypes, Steps, CertStep, ReportStep, ClientStep, SessionStep, Accepts
<1> QED
  BY <1>1, <1>2, <1>3, <1>4 DEF Next, Idle

LEMMA HandshakeAlways == Spec => []HandshakeInv
BY HandshakeInit, HandshakeNext, PTL DEF Spec

\* Every reachable state is well typed: ports and websockets lead only to
\* services that run, and no step of a runtime lacks what it uses.
THEOREM AttestationTypes == Spec => []TypeOK
<1>1. HandshakeInv => TypeOK
  <2> SUFFICES ASSUME HandshakeInv PROVE TypeOK
    OBVIOUS
  <2>1. None \notin Service
    BY AttestationAssumption DEF Process
  <2>2. \A r \in Runtime : Steps(r)
    BY DEF HandshakeInv
  <2>3. ASSUME NEW r \in Runtime
        PROVE  /\ pc[r] \in {"report", "client", "dial", "up"} => serverCert[r] # None
               /\ pc[r] \in {"client", "dial", "up"} => serverReport[r] \in Report
               /\ pc[r] \in {"dial", "up"} => clientCert[r] # None
    BY <2>1, <2>2 DEF Steps, CertStep, ReportStep, ClientStep
  <2> QED
    BY <2>3 DEF HandshakeInv, Types, ServiceTypes, PortTypes, RuntimeTypes, Running, TypeOK
<1> QED
  BY <1>1, HandshakeAlways, PTL

\* The two ends of every websocket accept each other's enclave, whatever
\* services had the ports while the runtime was on its way.
THEOREM SessionsVerified == Spec => []PeersVerified
<1>1. HandshakeInv => PeersVerified
  <2> SUFFICES ASSUME HandshakeInv, NEW r \in Runtime, NEW s \in Service, session[r] = s
               PROVE  Accepts(s, r) /\ Accepts(r, s)
    BY DEF PeersVerified
  <2>1. s # None /\ Steps(r)
    BY AttestationAssumption DEF Process, HandshakeInv
  <2> QED
    BY <2>1 DEF Steps, SessionStep, ReportStep, ClientStep
<1> QED
  BY <1>1, HandshakeAlways, PTL

\* All a connected runtime uses is of the process it is connected to.
THEOREM SessionsOfOneService == Spec => []OneService
<1>1. HandshakeInv => OneService
  <2> SUFFICES ASSUME HandshakeInv, NEW r \in Runtime, NEW s \in Service, session[r] = s
               PROVE  /\ serverCert[r] = s
                      /\ serverReport[r].data = s
                      /\ clientCert[r] = s
                      /\ r \in issued[s]
    BY DEF OneService
  <2>1. s # None /\ Steps(r)
    BY AttestationAssumption DEF Process, HandshakeInv
  <2> QED
    BY <2>1 DEF Steps, SessionStep, ReportStep, ClientStep
<1> QED
  BY <1>1, HandshakeAlways, PTL

=============================================================================
