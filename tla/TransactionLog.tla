--------------------------- MODULE TransactionLog ---------------------------
(***************************************************************************)
(* What the ordering service promises the runtimes, with no goroutine,     *)
(* channel or socket in it: one log of blocks, into which every accepted   *)
(* transaction goes at most once; each runtime is given blocks of the log  *)
(* in the order of the log, though not every block; and it is told of a    *)
(* transaction once, while the service has it.  A crash of the service     *)
(* forgets the transactions that are in no block yet, told of or not.      *)
(***************************************************************************)
EXTENDS Naturals, Sequences, FiniteSets

CONSTANTS Runtime, Transaction

VARIABLES
  pending,  \* transactions accepted and in no block
  log,      \* the blocks, each a sequence of transactions
  given     \* the messages each runtime was given, in that order: the
            \* transaction a message tells it of, and the place in the log of
            \* the block it carries, 0 if it carries none

logVars == <<pending, log, given>>

Logged == UNION {{log[b][i] : i \in DOMAIN log[b]} : b \in DOMAIN log}

LogInit ==
  /\ pending = {}
  /\ log = <<>>
  /\ given = [r \in Runtime |-> <<>>]

LogAccept(t) ==
  /\ t \notin pending \cup Logged
  /\ pending' = pending \cup {t}
  /\ UNCHANGED <<log, given>>

\* Some pending transactions, each once, become the next block.
LogCommit ==
  /\ \E n \in 1 .. Cardinality(pending) : \E b \in [1 .. n -> pending] :
       /\ \A i, j \in 1 .. n : b[i] = b[j] => i = j
       /\ log' = Append(log, b)
       /\ pending' = pending \ {b[i] : i \in 1 .. n}
  /\ UNCHANGED given

\* A runtime is told of a transaction once.
Tell(r, t, place) ==
  /\ \A i \in DOMAIN given[r] : given[r][i].id # t
  /\ given' = [given EXCEPT ![r] = Append(@, [id |-> t, at |-> place])]

\* A block comes after those before it in the log, and names the transaction
\* that completed it, its last one.
LogDeliver(r, k) ==
  /\ k \in DOMAIN log
  /\ \A i \in DOMAIN given[r] : given[r][i].at < k
  /\ Tell(r, log[k][Len(log[k])], k)
  /\ UNCHANGED <<pending, log>>

LogAck(r, t) ==
  /\ t \in pending \cup Logged
  /\ Tell(r, t, 0)
  /\ UNCHANGED <<pending, log>>

LogForget ==
  /\ pending' = {}
  /\ UNCHANGED <<log, given>>

LogNext ==
  \/ \E t \in Transaction : LogAccept(t)
  \/ LogCommit
  \/ \E r \in Runtime : \E k \in DOMAIN log : LogDeliver(r, k)
  \/ \E r \in Runtime, t \in Transaction : LogAck(r, t)
  \/ LogForget

LogSpec == LogInit /\ [][LogNext]_logVars

=============================================================================
