------------------------------ MODULE TlsPair ------------------------------
(***************************************************************************)
(* The self-signed certificate (internal/tlsutil/tls.go).  When the server *)
(* starts it uses the pair of files it finds, or writes a new certificate  *)
(* and then a new key; it may be killed between any two steps.             *)
(***************************************************************************)
EXTENDS Naturals

CONSTANTS
  Lifetime,   \* validity of a new certificate (2 years)
  Margin,     \* a certificate with less time left is replaced (30 days)
  MaxPairs,   \* bound of the model: key pairs generated
  LastDay     \* bound of the model: clock

ASSUME TlsAssumption ==
  /\ Lifetime \in Nat /\ Margin \in Nat /\ Margin < Lifetime
  /\ MaxPairs \in Nat /\ LastDay \in Nat

VARIABLES
  today,      \* the clock
  certFile,   \* pair whose certificate is in webux.crt (0: absent or torn)
  keyFile,    \* pair whose key is in webux.key (0: absent or torn)
  expires,    \* pair -> the day its certificate expires
  pairs,      \* pairs generated so far
  starting,   \* where the starting server is
  served,     \* the pair the running server uses, [cert, key]
  kept        \* history: the pair that was served when the server last ran (0: none,
              \* or a start was killed or ran into an error since)

tlsVars == <<today, certFile, keyFile, expires, pairs, starting, served, kept>>

Pairs == 1..MaxPairs
NotServing == [cert |-> 0, key |-> 0]

TlsInit ==
  /\ today = 0
  /\ certFile = 0 /\ keyFile = 0
  /\ expires = [p \in Pairs |-> 0]
  /\ pairs = 0
  /\ starting = "down"
  /\ served = NotServing
  /\ kept = 0

\* Slip: the two files are not checked against each other.
UsableUnmatched == certFile # 0 /\ keyFile # 0 /\ expires[certFile] > today + Margin

\* LoadX509KeyPair succeeds (both files, of one pair) and the certificate has
\* more than Margin left.
Usable == certFile # 0 /\ keyFile = certFile /\ expires[certFile] > today + Margin

LoadPair ==
  /\ starting = "down"
  /\ Usable
  /\ starting' = "up"
  /\ served' = [cert |-> certFile, key |-> keyFile]
  /\ kept' = certFile
  /\ UNCHANGED <<today, certFile, keyFile, expires, pairs>>

\* generateSelfSigned: a new pair; the certificate file is truncated ...
Generate ==
  /\ starting = "down"
  /\ ~Usable
  /\ pairs < MaxPairs
  /\ pairs' = pairs + 1
  /\ expires' = [expires EXCEPT ![pairs + 1] = today + Lifetime]
  /\ certFile' = 0
  /\ starting' = "certificate"
  /\ kept' = 0
  /\ UNCHANGED <<today, keyFile, served>>

\* ... and written, the key file is truncated ...
WriteCertificate ==
  /\ starting = "certificate"
  /\ certFile' = pairs
  /\ starting' = "written"
  /\ UNCHANGED <<today, keyFile, expires, pairs, served, kept>>

OpenKey ==
  /\ starting = "written"
  /\ keyFile' = 0
  /\ starting' = "key"
  /\ UNCHANGED <<today, certFile, expires, pairs, served, kept>>

\* ... and written; the new pair is served from memory.
WriteKey ==
  /\ starting = "key"
  /\ keyFile' = pairs
  /\ starting' = "up"
  /\ served' = [cert |-> pairs, key |-> pairs]
  /\ kept' = pairs
  /\ UNCHANGED <<today, certFile, expires, pairs>>

\* The server stops, is killed while it starts, or a write fails (and the
\* start with it).
Stop ==
  /\ starting # "down"
  /\ starting' = "down"
  /\ served' = NotServing
  /\ kept' = IF starting = "up" THEN kept ELSE 0
  /\ UNCHANGED <<today, certFile, keyFile, expires, pairs>>

NewDay ==
  /\ today < LastDay
  /\ today' = today + 1
  /\ UNCHANGED <<certFile, keyFile, expires, pairs, starting, served, kept>>

TlsNext == LoadPair \/ Generate \/ WriteCertificate \/ OpenKey \/ WriteKey \/ Stop \/ NewDay

TlsSpec == TlsInit /\ [][TlsNext]_tlsVars

-----------------------------------------------------------------------------
TlsTypeOK ==
  /\ today \in 0..LastDay
  /\ certFile \in 0..pairs /\ keyFile \in 0..pairs
  /\ expires \in [Pairs -> 0..(LastDay + Lifetime)]
  /\ \A p \in Pairs : expires[p] \in IF p <= pairs THEN Lifetime..(LastDay + Lifetime) ELSE {0}
  /\ pairs \in 0..MaxPairs
  /\ starting \in {"down", "certificate", "written", "key", "up"}
  /\ served \in [cert : 0..pairs, key : 0..pairs]
  /\ kept \in 0..pairs

(* A server that is up serves a certificate with its own key, and so do    *)
(* the files it leaves for the next start: a start that was killed between *)
(* certificate and key is healed by the next one.                          *)
PairMatches ==
  starting = "up" =>
    /\ served.cert # 0 /\ served.key = served.cert
    /\ certFile = served.cert /\ keyFile = served.cert

(* The certificate the users have accepted stays the same from one start   *)
(* to the next until it is about to expire (unless a start in between did  *)
(* not finish), and a server that starts never takes one that is.          *)
CertificateStable ==
  [][/\ starting' = "up" /\ starting = "down" =>
          /\ expires[served'.cert] > today + Margin
          /\ kept # 0 => served'.cert = kept
     /\ pairs' # pairs /\ kept # 0 => expires[kept] <= today + Margin]_tlsVars

(* Both, of every step: wherever earlier starts were killed, a server that *)
(* is up serves a key and a certificate that belong together, the ones in  *)
(* the files, and the certificate changes only when it is about to expire. *)
PairKept == [][PairMatches']_tlsVars /\ CertificateStable
=============================================================================
