-------------------------- MODULE SshProxySession --------------------------
(***************************************************************************)
(* The life of an ssh-proxy session (sshproxy/cli/app.go, session.go): the *)
(* commands setup, start and stop, the ssh they spawn in a session of its  *)
(* own, and the local SOCKS port that the profiles share.  A session is    *)
(* known by the pid in its profile's current-session.json and nothing else.*)
(***************************************************************************)
EXTENDS Naturals, FiniteSets

CONSTANTS Profile,    \* names under "servers" in config.json
          Client,     \* command invocations that may run at the same time
          Sess,       \* bound: one element per ssh ever launched
          Pid,        \* process identifiers
          Foreign,    \* BOOLEAN: another program may listen on the port
          Reuse,      \* BOOLEAN: another program may get a pid that was freed
          None

SshProxyAssumption ==
  /\ Foreign \in BOOLEAN /\ Reuse \in BOOLEAN
  /\ None \notin Sess \cup [id : Sess, pid : Pid] /\ "foreign" \notin Sess

VARIABLES
  config,     \* config.json: None or [current, servers]
  record,     \* current-session.json of each profile: None or [id, pid]
  ssh,        \* ssh[s].st \in Phase, ssh[s].pid
  port,       \* who accepts connections on the endpoint: None, a session, "foreign"
  stranger,   \* pids of unrelated programs
  pc, prof,   \* per command: its step and the profile it resolved
  cur, mine,  \* the record it loaded and the ssh it spawned
  termed,     \* sessions whose ssh was sent SIGTERM or SIGKILL
  adrift,     \* sessions whose start was interrupted before it could save them
  hit         \* pids of unrelated programs that were signalled

vars == <<config, record, ssh, port, stranger, pc, prof, cur, mine, termed, adrift, hit>>

Phase   == {"unused", "connecting", "listening", "zombie", "gone"}
Running == {"connecting", "listening"}
Ended   == {"idle", "failed", "started", "stopped"}
Step    == Ended \cup {"check", "port", "spawn", "wait", "save",
                       "stopCheck", "term", "exit", "kill", "killed", "remove"}

TypeOK ==
  /\ config \in [current : Profile \cup {None}, servers : SUBSET Profile] \cup {None}
  /\ record \in [Profile -> [id : Sess, pid : Pid] \cup {None}]
  /\ ssh \in [Sess -> [st : Phase, pid : Pid \cup {None}]]
  /\ port \in Sess \cup {None, "foreign"}
  /\ port \in Sess => ssh[port].st = "listening"
  /\ \A p \in Pid : Cardinality({s \in Sess : ssh[s].pid = p /\ ssh[s].st \in Running \cup {"zombie"}}) <= 1
  /\ stranger \subseteq Pid /\ hit \subseteq Pid
  /\ pc \in [Client -> Step] /\ prof \in [Client -> Profile \cup {None}]
  /\ cur \in [Client -> [id : Sess, pid : Pid] \cup {None}]
  /\ mine \in [Client -> Sess \cup {None}]
  /\ termed \subseteq Sess /\ adrift \subseteq Sess

Init ==
  /\ config = None
  /\ record = [p \in Profile |-> None]
  /\ ssh = [s \in Sess |-> [st |-> "unused", pid |-> None]]
  /\ port = None /\ stranger = {} /\ termed = {} /\ adrift = {} /\ hit = {}
  /\ pc = [c \in Client |-> "idle"]
  /\ prof = [c \in Client |-> None]
  /\ cur = [c \in Client |-> None]
  /\ mine = [c \in Client |-> None]

-----------------------------------------------------------------------------
(* Processes.  A process that has exited keeps its pid, as a zombie, until  *)
(* the command that spawned it ends: nobody calls Wait.                     *)

\* Mutant: a zombie is taken for a process that has given up its pid.
HoldsRunning(s, p) == ssh[s].pid = p /\ ssh[s].st \in Running

Holds(s, p) == ssh[s].pid = p /\ ssh[s].st \in Running \cup {"zombie"}
Free(p) == p \notin stranger /\ \A s \in Sess : ~Holds(s, p)

\* session.Alive: kill(pid, 0), which succeeds for a zombie and for anybody's process.
Alive(p) == ~Free(p)

\* The state of a process after it exits: a zombie of the command still running, or gone.
AfterExit(s) ==
  IF \E c \in Client : mine[c] = s /\ pc[c] \notin Ended THEN "zombie" ELSE "gone"

\* Mutant: the port of a process that exits stays taken.
ExitKeepsPort(s, st) ==
  /\ ssh' = [ssh EXCEPT ![s].st = st]
  /\ UNCHANGED port

Exit(s, st) ==
  /\ ssh' = [ssh EXCEPT ![s].st = st]
  /\ port' = IF port = s THEN None ELSE port

\* The command of c is over: its zombie is reaped by init.
Return(c, how) ==
  /\ pc' = [pc EXCEPT ![c] = how]
  /\ ssh' = [s \in Sess |-> IF mine[c] = s /\ ssh[s].st = "zombie"
                            THEN [ssh[s] EXCEPT !.st = "gone"] ELSE ssh[s]]

Goto(c, step) == pc' = [pc EXCEPT ![c] = step]

-----------------------------------------------------------------------------
(* Configuration *)

\* Config.Validate, with the fields of a server left out.
Validate(cfg) == cfg.servers # {} /\ (cfg.current # None => cfg.current \in cfg.servers)

\* Setup writes a configuration with the one profile it was given; without --force
\* only where there is no file yet.
Setup(p, force) ==
  /\ force \/ config = None
  /\ config' = [current |-> p, servers |-> {p}]
  /\ UNCHANGED <<record, ssh, port, stranger, pc, prof, cur, mine, termed, adrift, hit>>

\* The user edits the file (external); Load accepts what Validate accepts.
EditConfig ==
  /\ config # None
  /\ config' \in {cfg \in [current : Profile \cup {None}, servers : SUBSET Profile] : Validate(cfg)}
  /\ UNCHANGED <<record, ssh, port, stranger, pc, prof, cur, mine, termed, adrift, hit>>

\* Config.Resolve: the profiles that a command without or with --server may get; none
\* when the name is not configured or no profile is selected.
Resolve(arg) ==
  LET name == CASE arg # None -> {arg}
                [] arg = None /\ config.current # None -> {config.current}
                [] arg = None /\ config.current = None /\ Cardinality(config.servers) = 1
                     -> config.servers
                [] OTHER -> {}
  IN name \cap config.servers

\* loadServer and session.Load, the first steps of start and of stop.
LoadServer(c, p) ==
  /\ pc[c] \in Ended
  /\ config # None
  /\ \E arg \in Profile \cup {None} : p \in Resolve(arg)
  /\ prof' = [prof EXCEPT ![c] = p]
  /\ cur' = [cur EXCEPT ![c] = record[p]]
  /\ mine' = [mine EXCEPT ![c] = None]
  /\ UNCHANGED <<config, record, ssh, port, stranger, termed, adrift, hit>>

Drop(c) == record' = [record EXCEPT ![prof[c]] = None]

-----------------------------------------------------------------------------
(* ssh-proxy start: runStart *)

StartLoad(c, p) == LoadServer(c, p) /\ Goto(c, "check")

\* Mutant: start removes the record it finds without asking whether the pid is alive.
StartCheckBlind(c) ==
  /\ pc[c] = "check"
  /\ Drop(c)
  /\ Goto(c, "port")
  /\ UNCHANGED <<config, ssh, port, stranger, prof, cur, mine, termed, adrift, hit>>

\* A live pid refuses the start; a dead one has its record removed.
StartCheck(c) ==
  /\ pc[c] = "check"
  /\ \/ /\ cur[c] # None /\ Alive(cur[c].pid)
        /\ Goto(c, "failed")
        /\ UNCHANGED record
     \/ /\ cur[c] # None /\ ~Alive(cur[c].pid)
        /\ \/ Drop(c) /\ Goto(c, "port")
           \/ Goto(c, "failed") /\ UNCHANGED record
     \/ /\ cur[c] = None
        /\ Goto(c, "port")
        /\ UNCHANGED record
  /\ UNCHANGED <<config, ssh, port, stranger, prof, cur, mine, termed, adrift, hit>>

\* ensurePortAvailable: listen on the endpoint and close again.
EnsurePort(c) ==
  /\ pc[c] = "port"
  /\ Goto(c, IF port = None THEN "spawn" ELSE "failed")
  /\ UNCHANGED <<config, record, ssh, port, stranger, prof, cur, mine, termed, adrift, hit>>

\* cmd.Start with Setsid.
Spawn(c) ==
  /\ pc[c] = "spawn"
  /\ \E s \in Sess, p \in Pid :
        /\ ssh[s].st = "unused" /\ Free(p)
        /\ ssh' = [ssh EXCEPT ![s] = [st |-> "connecting", pid |-> p]]
        /\ mine' = [mine EXCEPT ![c] = s]
  /\ Goto(c, "wait")
  /\ UNCHANGED <<config, record, port, stranger, prof, cur, termed, adrift, hit>>

SpawnFails(c) ==
  /\ pc[c] = "spawn"
  /\ Goto(c, "failed")
  /\ UNCHANGED <<config, record, ssh, port, stranger, prof, cur, mine, termed, adrift, hit>>

\* waitForListener: the child's pid is alive and somebody accepts on the endpoint.
WaitReady(c) ==
  /\ pc[c] = "wait"
  /\ Alive(ssh[mine[c]].pid)
  /\ port # None
  /\ Goto(c, "save")
  /\ UNCHANGED <<config, record, ssh, port, stranger, prof, cur, mine, termed, adrift, hit>>

\* Mutant: start does not end an ssh that was not ready in time.
WaitFailsQuietly(c) ==
  /\ pc[c] = "wait"
  /\ Return(c, "failed")
  /\ UNCHANGED <<config, record, port, stranger, prof, cur, mine, termed, adrift, hit>>

\* waitForListener fails, at the deadline or because the pid is not alive: SIGTERM, no wait.
WaitFails(c) ==
  /\ pc[c] = "wait"
  /\ termed' = termed \cup {mine[c]}
  /\ Return(c, "failed")
  /\ UNCHANGED <<config, record, port, stranger, prof, cur, mine, adrift, hit>>

Save(c) ==
  /\ pc[c] = "save"
  /\ record' = [record EXCEPT ![prof[c]] = [id |-> mine[c], pid |-> ssh[mine[c]].pid]]
  /\ Return(c, "started")
  /\ UNCHANGED <<config, port, stranger, prof, cur, mine, termed, adrift, hit>>

SaveFails(c) ==
  /\ pc[c] = "save"
  /\ termed' = termed \cup {mine[c]}
  /\ Return(c, "failed")
  /\ UNCHANGED <<config, record, port, stranger, prof, cur, mine, adrift, hit>>

\* The user interrupts the command; the ssh it spawned is in a session of its own.
Interrupt(c) ==
  /\ pc[c] \notin Ended
  /\ adrift' = IF mine[c] # None THEN adrift \cup {mine[c]} ELSE adrift
  /\ Return(c, "failed")
  /\ UNCHANGED <<config, record, port, stranger, prof, cur, mine, termed, hit>>

-----------------------------------------------------------------------------
(* ssh-proxy stop: runStop *)

StopLoad(c, p) == LoadServer(c, p) /\ Goto(c, IF record[p] = None THEN "idle" ELSE "stopCheck")

StopCheck(c) ==
  /\ pc[c] = "stopCheck"
  /\ IF Alive(cur[c].pid)
     THEN Goto(c, "term") /\ UNCHANGED record
     ELSE \/ Drop(c) /\ Goto(c, "idle")
          \/ Goto(c, "failed") /\ UNCHANGED record
  /\ UNCHANGED <<config, ssh, port, stranger, prof, cur, mine, termed, adrift, hit>>

\* A signal reaches whoever has the pid.
Deliver(p) ==
  /\ termed' = termed \cup {s \in Sess : Holds(s, p)}
  /\ hit' = hit \cup ({p} \cap stranger)

Term(c) ==
  /\ pc[c] = "term"
  /\ IF Alive(cur[c].pid)
     THEN Deliver(cur[c].pid) /\ Goto(c, "exit")
     ELSE UNCHANGED <<termed, hit>> /\ Goto(c, "failed")
  /\ UNCHANGED <<config, record, ssh, port, stranger, prof, cur, mine, adrift>>

\* waitForExit, after SIGTERM and again after SIGKILL.
WaitExit(c) ==
  /\ pc[c] \in {"exit", "killed"}
  /\ ~Alive(cur[c].pid)
  /\ Goto(c, "remove")
  /\ UNCHANGED <<config, record, ssh, port, stranger, prof, cur, mine, termed, adrift, hit>>

\* Mutant: stop goes on to remove the record when the deadline has passed.
ExitTimeoutIgnored(c) ==
  /\ pc[c] \in {"exit", "killed"}
  /\ Goto(c, "remove")
  /\ UNCHANGED <<config, record, ssh, port, stranger, prof, cur, mine, termed, adrift, hit>>

\* Mutant: the wait after SIGTERM has no deadline.
ExitTimeoutNever(c) ==
  /\ pc[c] = "killed"
  /\ Goto(c, "failed")
  /\ UNCHANGED <<config, record, ssh, port, stranger, prof, cur, mine, termed, adrift, hit>>

\* The deadline passes: the stop fails, or goes on to SIGKILL with --force.
ExitTimeout(c) ==
  /\ pc[c] \in {"exit", "killed"}
  /\ \/ Goto(c, "failed")
     \/ pc[c] = "exit" /\ Goto(c, "kill")
  /\ UNCHANGED <<config, record, ssh, port, stranger, prof, cur, mine, termed, adrift, hit>>

Kill(c) ==
  /\ pc[c] = "kill"
  /\ IF Alive(cur[c].pid)
     THEN /\ Goto(c, "killed")
          /\ Deliver(cur[c].pid)
          /\ IF \E s \in Sess : ssh[s].pid = cur[c].pid /\ ssh[s].st \in Running
             THEN \E s \in Sess : /\ ssh[s].pid = cur[c].pid /\ ssh[s].st \in Running
                                  /\ Exit(s, AfterExit(s))
             ELSE UNCHANGED <<ssh, port>>
     ELSE Goto(c, "failed") /\ UNCHANGED <<ssh, port, termed, hit>>
  /\ UNCHANGED <<config, record, stranger, prof, cur, mine, adrift>>

Remove(c) ==
  /\ pc[c] = "remove"
  /\ \/ Drop(c) /\ Goto(c, "stopped")
     \/ Goto(c, "failed") /\ UNCHANGED record
  /\ UNCHANGED <<config, ssh, port, stranger, prof, cur, mine, termed, adrift, hit>>

-----------------------------------------------------------------------------
(* ssh itself and the other programs of the machine (external) *)

\* -D with ExitOnForwardFailure=yes: ssh listens, or exits when the port is taken.
Bind(s) ==
  /\ ssh[s].st = "connecting"
  /\ IF port = None
     THEN ssh' = [ssh EXCEPT ![s].st = "listening"] /\ port' = s
     ELSE Exit(s, AfterExit(s))
  /\ UNCHANGED <<config, record, stranger, pc, prof, cur, mine, termed, adrift, hit>>

\* Authentication or the connection fails, or a signal takes effect.
SshExit(s) ==
  /\ ssh[s].st \in Running
  /\ Exit(s, AfterExit(s))
  /\ UNCHANGED <<config, record, stranger, pc, prof, cur, mine, termed, adrift, hit>>

ForeignListener ==
  /\ Foreign
  /\ \/ port = None /\ port' = "foreign"
     \/ port = "foreign" /\ port' = None
  /\ UNCHANGED <<config, record, ssh, stranger, pc, prof, cur, mine, termed, adrift, hit>>

PidReused ==
  /\ Reuse
  /\ \E p \in Pid : Free(p) /\ stranger' = stranger \cup {p}
  /\ UNCHANGED <<config, record, ssh, port, pc, prof, cur, mine, termed, adrift, hit>>

StartStep(c) == StartCheck(c) \/ EnsurePort(c) \/ Spawn(c) \/ SpawnFails(c)
                \/ WaitReady(c) \/ WaitFails(c) \/ Save(c) \/ SaveFails(c)
StopStep(c) == StopCheck(c) \/ Term(c) \/ WaitExit(c) \/ ExitTimeout(c) \/ Kill(c) \/ Remove(c)

Next ==
  \/ \E c \in Client : Interrupt(c) \/ StartStep(c) \/ StopStep(c)
  \/ \E c \in Client, p \in Profile : StartLoad(c, p) \/ StopLoad(c, p)
  \/ \E p \in Profile, force \in BOOLEAN : Setup(p, force)
  \/ EditConfig
  \/ \E s \in Sess : Bind(s) \/ SshExit(s)
  \/ ForeignListener \/ PidReused

\* A command goes on: every wait of it has a deadline.
Fairness == \A c \in Client : WF_vars(StartStep(c) \/ StopStep(c))

Spec == Init /\ [][Next]_vars /\ Fairness

-----------------------------------------------------------------------------
(* An ssh that runs is the recorded one, or a command is still starting it, *)
(* or it has been told to exit, or its start was interrupted before Save:   *)
(* no error path of start and no path of stop leaves one behind.            *)
NothingUntracked ==
  \A s \in Sess :
    ssh[s].st \in Running =>
      \/ \E p \in Profile : record[p] # None /\ record[p].id = s
      \/ s \in termed \/ s \in adrift
      \/ \E c \in Client : mine[c] = s /\ pc[c] \in {"wait", "save"}

(* A stop that reports "stopped" has seen the recorded ssh exit, whatever   *)
(* other commands did meanwhile (runStop, waitForExit).                     *)
StopHonest ==
  \A c \in Client : pc[c] \in {"remove", "stopped"} => ssh[cur[c].id].st \notin Running

(* A profile's record is dropped only when the ssh it names does not run any more:  *)
(* neither a start that finds a stale record nor a stop removes the record  *)
(* of a live ssh.                                                           *)
DropsEnded ==
  \A p \in Profile :
    record[p] # None /\ record'[p] # record[p] => ssh[record[p].id].st \notin Running
RecordOutlivesSsh == [][DropsEnded]_vars

(* start and stop always end: the waits for the listener and for the exit   *)
(* have deadlines.                                                          *)
CommandsEnd == \A c \in Client : pc[c] \notin Ended ~> pc[c] \in Ended

-----------------------------------------------------------------------------
(* What a document, a comment or an error message of the repository says   *)
(* and the model refutes: see "What the code does not keep" in README.md.  *)

(* A start that reports success has recorded an ssh that had become ready,  *)
(* not one that had exited: the readiness probe of waitForListener is about *)
(* the ssh it has started.                                                  *)
ReadyMeansOurs ==
  [][\A c \in Client : pc[c] = "wait" /\ pc'[c] = "save" => port = mine[c]]_vars

(* stop never signals a process that is not an ssh of ssh-proxy.            *)
StrangersSpared == hit = {}

(* A second start for the profile does not take the record from a live ssh  *)
(* that an earlier start has recorded.                                      *)
SecondStartHarmless ==
  [][\A c \in Client : Save(c) => \/ record[prof[c]] = None
                                 \/ ssh[record[prof[c]].id].st \notin Running]_vars

=============================================================================
