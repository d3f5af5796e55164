---------------------------- MODULE DumpMonitor ----------------------------
(***************************************************************************)
(* The snapshots of a dump daemon (monitorState in ciscodump/runtime.go):  *)
(* every iteration looks at the Cisco processes, the sockets and the       *)
(* network configuration, and writes a snapshot of what has changed since  *)
(* the last one, by a digest that leaves volatile columns out.             *)
(***************************************************************************)
EXTENDS Naturals, FiniteSets

CONSTANTS Proc,       \* Cisco processes that may run
          Sock,       \* sockets: records [pid, loopback]; pid 0 is nobody's that is tracked
          Net,        \* network configurations (resolvers, proxies, routes)
          Faults      \* BOOLEAN: the write of a snapshot may fail

DumpMonitorAssumption ==
  /\ Faults \in BOOLEAN
  /\ Sock \subseteq [pid : Proc \cup {0}, loopback : BOOLEAN]

Stream == {"processes", "sockets", "network"}
Never == [stream |-> "none"]   \* the empty digest of a new monitor

VARIABLES
  at,              \* the step of the iteration
  lines,           \* the process lines of this iteration: records [pid, etime]
  looked,          \* what each stream has looked at in this iteration
  last,            \* last<Stream>Digest
  file,            \* the last snapshot written, with the volatile columns in it
  missed,          \* streams whose last write has failed
  probes           \* host probes due for a network change that was written, 0 or 1

vars == <<at, lines, looked, last, file, missed, probes>>

\* A process line [pid, etime] and what a stream looks at: the column etime and the
\* descriptor, device and counter columns of a socket are volatile, 0 or 1.
Line == [pid : Proc, etime : {0, 1}]
Seen == {Never} \cup [stream : {"processes"}, lines : SUBSET Line]
        \cup [stream : {"sockets"}, lines : SUBSET Line, socks : SUBSET (Sock \X {0, 1})]
        \cup [stream : {"network"}, net : Net]

TypeOK ==
  /\ at \in {"idle", "processes", "sockets", "network", "probe"}
  /\ lines \subseteq Line
  /\ file \in [Stream -> Seen] /\ \A s \in Stream : file[s].stream \in {s, "none"}
  /\ missed \subseteq Stream /\ probes \in {0, 1}
  /\ probes = 1 => at = "probe"

NoSnapshot == [s \in Stream |-> Never]

Init ==
  /\ at = "idle" /\ lines = {} /\ missed = {} /\ probes = 0
  /\ looked = NoSnapshot /\ file = NoSnapshot
  /\ last = [s \in Stream |-> {}]

-----------------------------------------------------------------------------
(* Digests *)

\* normalizeProcessLineForDigest: every column but etime.
normalizeProcessLine(l) == l.pid

\* normalizeLsofSocketOutput, normalizeNetstatLines: the owner, the two ends and the state,
\* without the descriptor, device and counter columns (<<socket, volatile>>).
normalizeSocket(k) == k[1]

trackedSockets(seen) == {k \in seen.socks : k[1].pid \in {l.pid : l \in seen.lines}}
loopbackSockets(seen) == {k \in seen.socks : k[1].loopback}

processSnapshotDigest(seen) == {normalizeProcessLine(l) : l \in seen.lines}

\* Mutant: the loopback sockets of other processes are left out of the digest.
socketDigestTracked(seen) ==
  <<seen.lines, {normalizeSocket(k) : k \in trackedSockets(seen)}>>

\* buildSocketSnapshot: the tracked process lines as they are, the tracked sockets and the
\* loopback sockets of every process.
socketDigest(seen) ==
  <<seen.lines, {normalizeSocket(k) : k \in trackedSockets(seen)},
    {normalizeSocket(k) : k \in loopbackSockets(seen)}>>

\* buildNetworkSnapshot: scutil --dns and --proxy, /etc/resolver, the IPv4 routes.
networkDigest(seen) == <<seen.net>>

Digest(seen) ==
  CASE seen.stream = "processes" -> {<<processSnapshotDigest(seen)>>}
    [] seen.stream = "sockets" -> {socketDigest(seen)}
    [] seen.stream = "network" -> {networkDigest(seen)}

-----------------------------------------------------------------------------
\* The common part of snapshotProcesses, snapshotSockets and snapshotNetwork: nothing when
\* the digest is that of the last snapshot; else the digest is kept and the file written.
Snapshot(seen, changed) ==
  LET s == seen.stream
  IN /\ looked' = [looked EXCEPT ![s] = seen]
     /\ IF Digest(seen) = last[s]
        THEN changed = FALSE /\ UNCHANGED <<last, file, missed>>
        ELSE /\ last' = [last EXCEPT ![s] = Digest(seen)]
             /\ \/ /\ changed = TRUE
                   /\ file' = [file EXCEPT ![s] = seen] /\ missed' = missed \ {s}
                \/ /\ Faults /\ changed = FALSE
                   /\ missed' = missed \cup {s} /\ UNCHANGED file

(* The machine changes at any moment, also between ps and lsof: what a step *)
(* finds is chosen anew.                                                    *)

\* captureState and interestingProcessLines: ps first; when it fails nothing is looked at.
Begin ==
  /\ at = "idle"
  /\ \E ps \in SUBSET Proc, etime \in {0, 1} :
        /\ lines' = {[pid |-> p, etime |-> etime] : p \in ps}
        /\ at' = "processes"
  /\ UNCHANGED <<looked, last, file, missed, probes>>

SnapshotProcesses ==
  /\ at = "processes" /\ at' = "sockets"
  /\ \E changed \in BOOLEAN : Snapshot([stream |-> "processes", lines |-> lines], changed)
  /\ UNCHANGED <<lines, probes>>

SnapshotSockets ==
  /\ at = "sockets" /\ at' = "network"
  /\ lines' = {}
  /\ \E socks \in SUBSET Sock, volatile \in {0, 1}, changed \in BOOLEAN :
        Snapshot([stream |-> "sockets", lines |-> lines, socks |-> socks \X {volatile}], changed)
  /\ UNCHANGED probes

\* Mutant: the final iteration too asks for host probes.
SnapshotNetworkAlwaysProbes(final) ==
  /\ at = "network"
  /\ \E net \in Net, changed \in BOOLEAN :
        /\ Snapshot([stream |-> "network", net |-> net], changed)
        /\ at' = IF changed /\ ~final THEN "probe" ELSE "idle"
        /\ probes' = IF changed THEN 1 ELSE 0
  /\ UNCHANGED lines

\* The host probes follow a network change that was written; the final iteration of the
\* daemon has none (captureStateWithoutHostProbes).
SnapshotNetwork(final) ==
  /\ at = "network"
  /\ \E net \in Net, changed \in BOOLEAN :
        /\ Snapshot([stream |-> "network", net |-> net], changed)
        /\ at' = IF changed /\ ~final THEN "probe" ELSE "idle"
        /\ probes' = IF changed /\ ~final THEN 1 ELSE 0
  /\ UNCHANGED lines

SnapshotHostProbes ==
  /\ at = "probe" /\ at' = "idle" /\ probes' = 0
  /\ UNCHANGED <<lines, looked, last, file, missed>>

Next == \/ Begin \/ SnapshotProcesses \/ SnapshotSockets \/ SnapshotHostProbes
        \/ \E final \in BOOLEAN : SnapshotNetwork(final)

Spec == Init /\ [][Next]_vars

-----------------------------------------------------------------------------
\* What a reader of the artifacts takes from a snapshot of each stream.
Facts(seen) ==
  CASE seen.stream = "none" -> {}
    [] seen.stream = "processes" -> {l.pid : l \in seen.lines}
    [] seen.stream = "sockets" -> {k[1] : k \in trackedSockets(seen) \cup loopbackSockets(seen)}
    [] seen.stream = "network" -> {seen.net}

(* Between two iterations the last snapshot of a stream shows what the      *)
(* stream has looked at last, unless the write of the latest change failed: *)
(* the digest leaves out no process, socket or setting a reader looks for.  *)
SnapshotsFollow ==
  at = "idle" => \A s \in Stream \ missed : Facts(file[s]) = Facts(looked[s])

-----------------------------------------------------------------------------
(* What a document, a comment or an error message of the repository says   *)
(* and the model refutes: see "What the code does not keep" in README.md.  *)

(* A snapshot is only written when something but the volatile columns has   *)
(* changed: the elapsed time of the processes does not count.               *)
NoIdleSnapshots ==
  [][\A s \in Stream :
       file'[s] # file[s] /\ file[s] # Never /\ s \notin missed =>
         \/ Facts(file'[s]) # Facts(file[s])
         \/ s # "network" /\ processSnapshotDigest(file'[s]) # processSnapshotDigest(file[s])]_vars

=============================================================================
