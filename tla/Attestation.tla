----------------------------- MODULE Attestation -----------------------------
(***************************************************************************)
(* How a runtime comes by its connection to the ordering service.  It asks *)
(* the service for its certificate, for a report that vouches for it and   *)
(* for a client certificate, by three HTTP requests to one port, and dials *)
(* another port with TLS.  Each of the four meets whatever process has the *)
(* port at that time: the service may be stopped and started in between,   *)
(* and a new process has a new key.                                        *)
(*                                                                         *)
(* A certificate is known by the process that signed it and a public key   *)
(* by the process that made it.  A runtime that is started again is the    *)
(* same Runtime; what it had is gone.                                      *)
(***************************************************************************)
EXTENDS Naturals

CONSTANTS
  Service,    \* processes of the ordering service, one for each start
  Runtime,    \* runtimes
  Enclave,    \* what a report says of each process
  MaxStarts,  \* bound: starts of runtimes
  None        \* "no process", "no report", the id outside an enclave

Process == Service \cup Runtime

ASSUME AttestationAssumption ==
  /\ Service \cap Runtime = {}
  /\ None \notin Process
  /\ \A p \in Process :
       /\ {"id", "signer", "product", "version", "debug"} = DOMAIN Enclave[p]
       /\ Enclave[p].product \in Nat
       /\ Enclave[p].version \in Nat
       /\ Enclave[p].debug \in BOOLEAN
  /\ MaxStarts \in Nat

VARIABLES
  proc,          \* main of the service: "off", "run" or "ended"
  attestPort,    \* the service that has localhost:8087
  securePort,    \* the service that has localhost:443
  expired,       \* the services that were started more than an hour ago
  issued,        \* the runtimes each service made a client certificate for
  pc,            \* main of the runtime
  serverCert,    \* whose certificate it got
  serverReport,  \* the report it verified that with
  clientCert,    \* who signed its own certificate
  session,       \* the service its websocket leads to
  starts

serviceVars == <<proc, attestPort, securePort, expired, issued>>
runtimeVars == <<pc, serverCert, serverReport, clientCert, session, starts>>
vars == <<serviceVars, runtimeVars>>

Init ==
  /\ proc = [s \in Service |-> "off"]
  /\ attestPort = None
  /\ securePort = None
  /\ expired = {}
  /\ issued = [s \in Service |-> {}]
  /\ pc = [r \in Runtime |-> "off"]
  /\ serverCert = [r \in Runtime |-> None]
  /\ serverReport = [r \in Runtime |-> None]
  /\ clientCert = [r \in Runtime |-> None]
  /\ session = [r \in Runtime |-> None]
  /\ starts = 0

-----------------------------------------------------------------------------
(***************************************************************************)
(* Reports.                                                                *)
(***************************************************************************)
\* A report of process p on data, which only an enclave of the given id can
\* verify.
LocalReport(p, data, target) == [of |-> Enclave[p], data |-> data, target |-> target]

\* Fault: any enclave's report will do.
AnySigner(report, data, self) ==
  /\ report.of.id # None
  /\ report.target = Enclave[self].id
  /\ report.data = data

\* Fault: the product number of the README.
ProductOne(report, data, self) ==
  /\ report.of.id # None
  /\ report.target = Enclave[self].id
  /\ report.data = data
  /\ report.of.signer = Enclave[self].signer
  /\ report.of.product = 1

\* Whether process self takes the report for one on data.
VerifyReport(report, data, self) ==
  /\ report.of.id # None
  /\ report.target = Enclave[self].id
  /\ report.data = data
  /\ report.of.signer = Enclave[self].signer
  /\ report.of.product = 2
  /\ report.of.version >= 1
  /\ report.of.debug => Enclave[self].debug

-----------------------------------------------------------------------------
(***************************************************************************)
(* The ordering service.  Its two servers are started by two goroutines; a *)
(* port that is taken ends the process.                                    *)
(***************************************************************************)
ServiceStart(s) ==
  /\ proc[s] = "off"
  /\ proc' = [proc EXCEPT ![s] = "run"]
  /\ UNCHANGED <<attestPort, securePort, expired, issued, runtimeVars>>

\* Fault: the ports outlive the process.
StillHeld(port, s) == port

\* A port once process s has ended.
Freed(port, s) == IF port = s THEN None ELSE port

\* The process ends, by a fault of its own or at the hands of its operator.
End(s) ==
  /\ proc[s] = "run"
  /\ proc' = [proc EXCEPT ![s] = "ended"]
  /\ attestPort' = Freed(attestPort, s)
  /\ securePort' = Freed(securePort, s)
  /\ session' = [r \in Runtime |-> Freed(session[r], s)]
  /\ UNCHANGED <<expired, issued, pc, serverCert, serverReport, clientCert, starts>>

ListenAttest(s) ==
  /\ proc[s] = "run"
  /\ attestPort # s
  /\ \/ /\ attestPort = None
        /\ attestPort' = s
        /\ UNCHANGED <<proc, securePort, expired, issued, runtimeVars>>
     \/ /\ attestPort # None
        /\ End(s)

ListenSecure(s) ==
  /\ proc[s] = "run"
  /\ securePort # s
  /\ \/ /\ securePort = None
        /\ securePort' = s
        /\ UNCHANGED <<proc, attestPort, expired, issued, runtimeVars>>
     \/ /\ securePort # None
        /\ End(s)

\* NotAfter of the certificate has passed; it is not renewed.
Expire(s) ==
  /\ proc[s] = "run"
  /\ s \notin expired
  /\ expired' = expired \cup {s}
  /\ UNCHANGED <<proc, attestPort, securePort, issued, runtimeVars>>

-----------------------------------------------------------------------------
(***************************************************************************)
(* main of the runtime, up to its websocket.  Every failure is a panic.    *)
(***************************************************************************)
Start(r) ==
  /\ pc[r] \in {"off", "panicked"}
  /\ starts < MaxStarts
  /\ starts' = starts + 1
  /\ pc' = [pc EXCEPT ![r] = "cert"]
  /\ UNCHANGED <<serviceVars, serverCert, serverReport, clientCert, session>>

\* The process ends: all it had is gone.
Panic(r) ==
  /\ pc' = [pc EXCEPT ![r] = "panicked"]
  /\ serverCert' = [serverCert EXCEPT ![r] = None]
  /\ serverReport' = [serverReport EXCEPT ![r] = None]
  /\ clientCert' = [clientCert EXCEPT ![r] = None]
  /\ session' = [session EXCEPT ![r] = None]
  /\ UNCHANGED <<serviceVars, starts>>

\* GET /cert
GetCert(r) ==
  /\ pc[r] = "cert"
  /\ \/ attestPort = None /\ Panic(r)
     \/ /\ attestPort # None
        /\ serverCert' = [serverCert EXCEPT ![r] = attestPort]
        /\ pc' = [pc EXCEPT ![r] = "report"]
        /\ UNCHANGED <<serviceVars, serverReport, clientCert, session, starts>>

\* The report the service that has the port gives the runtime: on its own
\* certificate, for the runtime to verify.
ServerReport(r) == LocalReport(attestPort, attestPort, Enclave[r].id)

ReportAccepted(r) ==
  /\ attestPort # None
  /\ Enclave[r].id # None
  /\ VerifyReport(ServerReport(r), serverCert[r], r)

\* GetLocalReport, GET /report and VerifyReport.
GetReport(r) ==
  /\ pc[r] = "report"
  /\ \/ ~ReportAccepted(r) /\ Panic(r)
     \/ /\ ReportAccepted(r)
        /\ serverReport' = [serverReport EXCEPT ![r] = ServerReport(r)]
        /\ pc' = [pc EXCEPT ![r] = "client"]
        /\ UNCHANGED <<serviceVars, serverCert, clientCert, session, starts>>

\* The report the runtime gives the service: on its public key, for the
\* enclave the server's report is of.
ClientReport(r) == LocalReport(r, r, serverReport[r].of.id)

ClientAccepted(r) ==
  /\ attestPort # None
  /\ VerifyReport(ClientReport(r), r, attestPort)

\* GET /client
GetClient(r) ==
  /\ pc[r] = "client"
  /\ \/ ~ClientAccepted(r) /\ Panic(r)
     \/ /\ ClientAccepted(r)
        /\ issued' = [issued EXCEPT ![attestPort] = @ \cup {r}]
        /\ clientCert' = [clientCert EXCEPT ![r] = attestPort]
        /\ pc' = [pc EXCEPT ![r] = "dial"]
        /\ UNCHANGED <<proc, attestPort, securePort, expired, serverCert,
                       serverReport, session, starts>>

\* Fault: the runtime does not verify the chain.
ChainSkipped(r, s) == s \notin expired

\* The two ends of the TLS handshake.  The certificate of the service is the
\* root of both; that of the runtime is younger and expires later.
ServerTrusted(r, s) == serverCert[r] = s /\ s \notin expired

ClientTrusted(s, r) == clientCert[r] = s /\ s \notin expired

HandshakeSucceeds(r) ==
  /\ securePort # None
  /\ ServerTrusted(r, securePort)
  /\ ClientTrusted(securePort, r)

Dial(r) ==
  /\ pc[r] = "dial"
  /\ \/ ~HandshakeSucceeds(r) /\ Panic(r)
     \/ /\ HandshakeSucceeds(r)
        /\ session' = [session EXCEPT ![r] = securePort]
        /\ pc' = [pc EXCEPT ![r] = "up"]
        /\ UNCHANGED <<serviceVars, serverCert, serverReport, clientCert, starts>>

\* A connected runtime ends; one that ends before is like one that panics.
Crash(r) == pc[r] = "up" /\ Panic(r)

Main(r) == GetCert(r) \/ GetReport(r) \/ GetClient(r) \/ Dial(r)

\* All processes were started and have ended or serve.
Idle ==
  /\ \A s \in Service : proc[s] \in {"run", "ended"}
  /\ \A r \in Runtime : pc[r] \in {"off", "panicked", "up"}
  /\ UNCHANGED vars

Next ==
  \/ \E s \in Service : \/ ServiceStart(s) \/ ListenAttest(s) \/ ListenSecure(s)
                        \/ End(s) \/ Expire(s)
  \/ \E r \in Runtime : Start(r) \/ Main(r) \/ Crash(r)
  \/ Idle

\* main runs on; nothing is assumed of operators and of the service.
FairSpec == Init /\ [][Next]_vars /\ \A r \in Runtime : WF_vars(Main(r))
Spec == Init /\ [][Next]_vars

-----------------------------------------------------------------------------
(***************************************************************************)
(* Properties.                                                             *)
(***************************************************************************)

Report == [of : {Enclave[p] : p \in Process}, data : Process,
           target : {Enclave[p].id : p \in Process}]

\* Every variable has its type; ports and websockets lead to processes that
\* run, and a runtime has what its step needs.
TypeOK ==
  /\ proc \in [Service -> {"off", "run", "ended"}]
  /\ {attestPort, securePort} \subseteq {None} \cup {s \in Service : proc[s] = "run"}
  /\ expired \subseteq Service
  /\ issued \in [Service -> SUBSET Runtime]
  /\ pc \in [Runtime -> {"off", "cert", "report", "client", "dial", "up", "panicked"}]
  /\ serverCert \in [Runtime -> Service \cup {None}]
  /\ serverReport \in [Runtime -> Report \cup {None}]
  /\ clientCert \in [Runtime -> Service \cup {None}]
  /\ session \in [Runtime -> {None} \cup {s \in Service : proc[s] = "run"}]
  /\ starts \in 0 .. MaxStarts
  /\ \A r \in Runtime :
       /\ pc[r] \in {"report", "client", "dial", "up"} => serverCert[r] # None
       /\ pc[r] \in {"client", "dial", "up"} => serverReport[r] \in Report
       /\ pc[r] \in {"dial", "up"} => clientCert[r] # None

\* Each end of a websocket is an enclave of the other's signer and of the
\* right product, whatever processes the ports led to on the way there.
Accepts(p, q) ==
  /\ Enclave[p].id # None
  /\ Enclave[p].signer = Enclave[q].signer
  /\ Enclave[p].product = 2
  /\ Enclave[p].version >= 1
  /\ Enclave[p].debug => Enclave[q].debug

PeersVerified ==
  \A r \in Runtime, s \in Service : session[r] = s => Accepts(s, r) /\ Accepts(r, s)

\* The four requests of a runtime that is connected all led to one process:
\* no certificate or report of an earlier one is left in what it uses, and
\* that process verified the runtime itself.
OneService ==
  \A r \in Runtime, s \in Service : session[r] = s =>
    /\ serverCert[r] = s
    /\ serverReport[r].data = s
    /\ clientCert[r] = s
    /\ r \in issued[s]

\* A runtime connects if from its first request on one service keeps both
\* ports and its certificate does not expire, and the two enclaves accept each
\* other: no earlier process of either leaves anything behind that stops it.
Serves(s) == attestPort = s /\ securePort = s /\ s \notin expired

SteadyConnects ==
  \A r \in Runtime, s \in Service :
    Accepts(s, r) /\ Accepts(r, s) =>
      ((pc[r] = "cert" /\ []Serves(s)) ~> pc[r] = "up")

=============================================================================
