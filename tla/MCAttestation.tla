---------------------------- MODULE MCAttestation ----------------------------
(***************************************************************************)
(* Attestation for TLC.                                                    *)
(***************************************************************************)
EXTENDS Attestation, TLC

CONSTANTS s1, s2, s3, r1, r2, service, runtime, here, elsewhere

\* The enclave configuration of the repository; a service signed with another
\* key, and a runtime with the product number the README gives.
Configured(binary) ==
  [id |-> binary, signer |-> here, product |-> 2, version |-> 3, debug |-> TRUE]

Builds ==
  (s1 :> Configured(service)) @@ (s2 :> Configured(service))
    @@ (s3 :> [Configured(service) EXCEPT !.signer = elsewhere])
    @@ (r1 :> Configured(runtime))
    @@ (r2 :> [Configured(runtime) EXCEPT !.product = 1])

=============================================================================
