\* Services that come and go while runtimes connect.
SPECIFICATION FairSpec
CONSTANTS
  s1 = s1
  s2 = s2
  s3 = s3
  r1 = r1
  r2 = r2
  service = service
  runtime = runtime
  here = here
  elsewhere = elsewhere
  Service = {s1, s2, s3}
  Runtime = {r1, r2}
  Enclave <- Builds
  MaxStarts = 3
  None = None
INVARIANTS
  TypeOK
  PeersVerified
  OneService
PROPERTIES
  SteadyConnects
