------------------------- MODULE VlessSessionProofs -------------------------
(***************************************************************************)
(* Proofs about VlessSession, for any number of sessions and pids, any      *)
(* launch modes and engines.  What Stop reports and what a failed start     *)
(* signals is proved for any number of commands, what is never lost for     *)
(* commands that run one after the other.                                   *)
(***************************************************************************)
EXTENDS VlessSession, TLAPS

\* Start before its sidecar, before its sing-box, with a sing-box it may have to undo, and
\* once the identity was read; Stop once it has a session, and once sing-box, the sidecar
\* and the resolver entry are gone.
BeforeSide  == {"orphans", "orphan", "sidecar"}
BeforeSpawn == BeforeSide \cup {"reorphans", "reorphan", "sideWait", "spawn"}
Identified  == {"metadata", "stable", "dns", "ready", "save"}
Spawned     == Identified \cup {"identify", "undoDNS", "undoKill"}
MainGone    == {"side", "sideTerm", "sidePoll", "sideKill", "restore", "clear", "stopped"}
SideGone    == {"restore", "clear", "stopped"}
DnsGone     == {"clear", "stopped"}

\* The processes of a session, zombies included.
Of(k, s) == {p \in Pid : proc[p].kind = k /\ proc[p].sess = s}
Running  == {p \in Pid : proc[p].st = "running"}

\* A process of a session is where its record says, or not yet recorded.
ProcInv ==
  /\ \A p \in Pid : proc[p].st = "free" => proc[p] = FreePid
  /\ \A p \in Pid : proc[p].kind = "main" =>
       proc[p].sess \in used /\ info[proc[p].sess].main \in {p, None}
  /\ \A p \in Pid : proc[p].kind = "side" =>
       proc[p].sess \in used /\ info[proc[p].sess].side = p
  /\ \A s \in scutil : s \in used /\ (info[s].dns = "scutil" \/ s \in lost)

\* The recorded identity is that of sing-box, or sing-box is gone.
Faithful(s) == info[s].main # None /\ (info[s].ident = s \/ Of("main", s) = {})

\* What a Start knows of its session.
StartInv ==
  \A c \in Client :
    /\ mine[c] # None => mine[c] \in used /\ \A d \in Client : mine[d] = mine[c] => d = c
    /\ pc[c] \in StartStep => mine[c] # None
    /\ pc[c] \in BeforeSide => Of("side", mine[c]) = {}
    /\ pc[c] \in BeforeSpawn => info[mine[c]].main = None /\ Of("main", mine[c]) = {}
    /\ pc[c] \in Spawned =>
         /\ info[mine[c]].main # None
         /\ info[mine[c]].mode = "helper" \/ (/\ info[mine[c]].main \in Of("main", mine[c])
                                              /\ proc[info[mine[c]].main].parent = c)
    /\ pc[c] \in Identified => Faithful(mine[c])

\* No Start is at work on the session, nor will be.
Settled(s) == s \in used /\ \A c \in Client : mine[c] = s => pc[c] \notin StartStep

RecordInv ==
  /\ record \in Sess => Settled(record) /\ Faithful(record)
  /\ \A c \in Client : cur[c] # None => Settled(cur[c]) /\ Faithful(cur[c])

\* What a Stop knows of its session.
StopInv ==
  \A c \in Client :
    /\ pc[c] \in StopStep \ {"load"} => cur[c] # None
    /\ cur[c] # None =>
         /\ pc[c] \in MainGone => Of("main", cur[c]) \cap Running = {}
         /\ pc[c] \in SideGone => Of("side", cur[c]) \cap Running = {}
         /\ pc[c] \in DnsGone => cur[c] \notin scutil \ lost

IInv == TypeOK /\ ProcInv /\ StartInv /\ RecordInv /\ StopInv /\ StartupSignalsItsOwn

-----------------------------------------------------------------------------
\* Processes and records of every kind are well formed.
LEMMA Values ==
  /\ NoInfo \in Info /\ FreePid \in Process
  /\ \A k \in {"main", "side", "stranger"}, s \in Sess \cup {None}, c \in Client \cup {None} :
       Child(k, s, c) \in Process
  BY SessionAssumption DEF NoInfo, Info, FreePid, Process, Child

\* The fields of a new process.
LEMMA ChildFields ==
  /\ FreePid.st = "free" /\ FreePid.kind = "none" /\ FreePid.parent = None
  /\ \A k, s, c : Child(k, s, c).st = "running" /\ Child(k, s, c).kind = k /\ Child(k, s, c).sess = s
                 /\ Child(k, s, c).parent = c
  BY DEF FreePid, Child

\* What the assignment of the pid of sing-box gives, and leaves alone.
LEMMA SetMain ==
  ASSUME NEW r \in Info, NEW v \in Pid \cup {None}
  PROVE  LET x == [r EXCEPT !.main = v] IN
           /\ x \in Info
           /\ x.mode = r.mode /\ x.engine = r.engine /\ x.main = v /\ x.side = r.side
           /\ x.ident = r.ident /\ x.dns = r.dns /\ x.restore = r.restore
<1>1. [r EXCEPT !.main = v] =
        [mode |-> r.mode, engine |-> r.engine, main |-> v, side |-> r.side,
         ident |-> r.ident, dns |-> r.dns, restore |-> r.restore, clear |-> r.clear]
  BY DEF Info
<1> QED
  BY <1>1 DEF Info

\* The same of the pid of the sidecar.
LEMMA SetSide ==
  ASSUME NEW r \in Info, NEW v \in Pid \cup {None}
  PROVE  LET x == [r EXCEPT !.side = v] IN
           /\ x \in Info
           /\ x.mode = r.mode /\ x.engine = r.engine /\ x.main = r.main /\ x.side = v
           /\ x.ident = r.ident /\ x.dns = r.dns /\ x.restore = r.restore
<1>1. [r EXCEPT !.side = v] =
        [mode |-> r.mode, engine |-> r.engine, main |-> r.main, side |-> v,
         ident |-> r.ident, dns |-> r.dns, restore |-> r.restore, clear |-> r.clear]
  BY DEF Info
<1> QED
  BY <1>1 DEF Info

\* The same of the identity.
LEMMA SetIdent ==
  ASSUME NEW r \in Info, NEW v \in Sess \cup {None}
  PROVE  LET x == [r EXCEPT !.ident = v] IN
           /\ x \in Info
           /\ x.mode = r.mode /\ x.engine = r.engine /\ x.main = r.main /\ x.side = r.side
           /\ x.ident = v /\ x.dns = r.dns /\ x.restore = r.restore
<1>1. [r EXCEPT !.ident = v] =
        [mode |-> r.mode, engine |-> r.engine, main |-> r.main, side |-> r.side,
         ident |-> v, dns |-> r.dns, restore |-> r.restore, clear |-> r.clear]
  BY DEF Info
<1> QED
  BY <1>1 DEF Info

\* The same of the choice to clear.
LEMMA SetClear ==
  ASSUME NEW r \in Info, NEW v \in BOOLEAN
  PROVE  LET x == [r EXCEPT !.clear = v] IN
           /\ x \in Info
           /\ x.mode = r.mode /\ x.engine = r.engine /\ x.main = r.main /\ x.side = r.side
           /\ x.ident = r.ident /\ x.dns = r.dns /\ x.restore = r.restore
<1>1. [r EXCEPT !.clear = v] =
        [mode |-> r.mode, engine |-> r.engine, main |-> r.main, side |-> r.side,
         ident |-> r.ident, dns |-> r.dns, restore |-> r.restore, clear |-> v]
  BY DEF Info
<1> QED
  BY <1>1 DEF Info

\* The same of the DNS hand-off.
LEMMA SetDns ==
  ASSUME NEW r \in Info, NEW d \in {"none", "scutil", "service"}, NEW v \in {"own", "proxy"}
  PROVE  /\ [r EXCEPT !.dns = d] \in Info
         /\ [[r EXCEPT !.dns = d] EXCEPT !.restore = v] \in Info
         /\ [r EXCEPT !.dns = d] =
              [mode |-> r.mode, engine |-> r.engine, main |-> r.main, side |-> r.side,
               ident |-> r.ident, dns |-> d, restore |-> r.restore, clear |-> r.clear]
         /\ [[r EXCEPT !.dns = d] EXCEPT !.restore = v] =
              [mode |-> r.mode, engine |-> r.engine, main |-> r.main, side |-> r.side,
               ident |-> r.ident, dns |-> d, restore |-> v, clear |-> r.clear]
<1>1. [r EXCEPT !.dns = d] =
        [mode |-> r.mode, engine |-> r.engine, main |-> r.main, side |-> r.side,
         ident |-> r.ident, dns |-> d, restore |-> r.restore, clear |-> r.clear]
  BY DEF Info
<1>2. [[mode |-> r.mode, engine |-> r.engine, main |-> r.main, side |-> r.side,
         ident |-> r.ident, dns |-> d, restore |-> r.restore, clear |-> r.clear] EXCEPT !.restore = v] =
        [mode |-> r.mode, engine |-> r.engine, main |-> r.main, side |-> r.side,
         ident |-> r.ident, dns |-> d, restore |-> v, clear |-> r.clear]
  OBVIOUS
<1> QED
  BY <1>1, <1>2 DEF Info

\* The record of a session that begins.
LEMMA Fresh ==
  ASSUME NEW m \in {"helper", "direct"}, NEW e \in {"singbox", "xray"}
  PROVE  LET x == [NoInfo EXCEPT !.mode = m, !.engine = e] IN
           /\ x \in Info
           /\ x.mode = m /\ x.engine = e /\ x.main = None /\ x.side = None /\ x.dns = "none" /\ x.restore = "own"
  BY SessionAssumption DEF NoInfo, Info

\* A process that ends, and a process table without a command, are as before but for that.
LEMMA EndsType ==
  ASSUME TypeOK
  PROVE  /\ \A p \in Pid \cup {None} : Ends(p) \in [Pid -> Process]
         /\ \A c \in Client : Reparented(c) \in [Pid -> Process]
<1>1. \A x \in Process : [x EXCEPT !.st = "zombie"] \in Process /\ [x EXCEPT !.parent = None] \in Process
  BY DEF Process
<1> QED
  BY <1>1, Values DEF TypeOK, Ends, Ended, Reparented

\* No session runs at first.
LEMMA InitIInv == Init => IInv
<1> SUFFICES ASSUME Init PROVE IInv
  OBVIOUS
<1> USE SessionAssumption, Values DEF Init
<1>1. TypeOK
  BY DEF TypeOK, Step, Command
<1>2. ProcInv /\ StartInv /\ RecordInv /\ StopInv /\ StartupSignalsItsOwn
  BY DEF ProcInv, StartInv, RecordInv, StopInv, StartupSignalsItsOwn, FreePid, StartStep, StopStep,
         BeforeSide, BeforeSpawn, Spawned, Identified, MainGone, SideGone, DnsGone
<1> QED
  BY <1>1, <1>2 DEF IInv

-----------------------------------------------------------------------------
(* Types, variable by variable *)

\* The commands that change the process table, and those that change a session record.
Signals(c)  == Term(c) \/ Kill(c) \/ SideTerm(c) \/ SideKill(c) \/ KillOrphan(c) \/ UndoKill(c) \/ UndoSide(c)
Spawns(c)   == StartSidecar(c) \/ Spawn(c) \/ SpawnFails(c)
Ending(c)   == Leave(c) \/ Interrupt(c)
Records(c)  == Guard(c) \/ StartSidecar(c) \/ Spawn(c) \/ Identify(c) \/ SaveMetadata(c) \/ Stable(c)
                 \/ HandOffDNS(c) \/ Ready(c) \/ SaveCurrent(c)

\* No other step of a command changes them.
LEMMA Unchanging ==
  ASSUME NEW c \in Client, CommandStep(c)
  PROVE  /\ Signals(c) \/ Spawns(c) \/ Ending(c) \/ proc' = proc
         /\ Records(c) \/ info' = info
<1>1. Signals(c) \/ Spawns(c) \/ Ending(c) \/ proc' = proc
  BY DEF CommandStep, Signals, Spawns, Ending, Run, Check, Prepare, Recheck, Load, Observe, Poll,
     PollTimeout, Side, SidePoll, Restore, Clear, Guard, Orphans, OrphansDone, SidecarStarted, Identify,
     SaveMetadata, Stable, HandOffDNS, Ready, SaveCurrent, UndoDNS, UndoClear, osVars, cmdVars
<1>2. Records(c) \/ info' = info
  BY DEF CommandStep, Records, Run, Check, Prepare, Recheck, Load, Observe, Term, Poll, PollTimeout, Kill,
     Side, SideTerm, SidePoll, SideKill, Restore, Clear, Orphans, KillOrphan, OrphansDone, SidecarStarted,
     SpawnFails, UndoDNS, UndoKill, UndoSide, UndoClear, Leave, Interrupt, osVars, cmdVars
<1> QED
  BY <1>1, <1>2

\* A signal ends the process that has the pid, or nothing.
LEMMA SignalEnds ==
  ASSUME IInv, NEW c \in Client, Signals(c)
  PROVE  \E p \in Pid \cup {None} : proc' \in {proc, Ends(p)}
<1>1. TypeOK /\ StartInv /\ StopInv
  BY DEF IInv
<1>2. \A s \in Sess : info[s].main \in Pid \cup {None} /\ info[s].side \in Pid \cup {None}
  BY <1>1 DEF TypeOK, Info
<1>3. CASE Term(c) \/ Kill(c) \/ SideTerm(c) \/ SideKill(c)
  <2>1. cur[c] \in Sess
    BY <1>1, <1>3 DEF StopInv, StopStep, TypeOK, Term, Kill, SideTerm, SideKill
  <2> QED
    BY <1>2, <1>3, <2>1 DEF Term, Kill, SideTerm, SideKill, SignalMain, SignalGroup
<1>4. CASE UndoKill(c) \/ UndoSide(c)
  <2>1. mine[c] \in Sess
    BY <1>1, <1>4 DEF StartInv, StartStep, TypeOK, UndoKill, UndoSide
  <2> QED
    BY <1>2, <1>4, <2>1 DEF UndoKill, UndoSide, SignalMain, SignalGroup
<1>5. CASE KillOrphan(c)
  BY <1>1, <1>5 DEF KillOrphan, TypeOK
<1> QED
  BY <1>3, <1>4, <1>5 DEF Signals

\* The process table.
LEMMA ProcType == IInv /\ [Next]_vars => proc' \in [Pid -> Process]
<1> SUFFICES ASSUME IInv, [Next]_vars PROVE proc' \in [Pid -> Process]
  OBVIOUS
<1>0. TypeOK /\ StartInv
  BY DEF IInv
<1>1. proc \in [Pid -> Process] /\ mine \in [Client -> Sess \cup {None}]
  BY <1>0 DEF TypeOK
<1>2. ASSUME NEW c \in Client, Signals(c)
      PROVE  proc' \in [Pid -> Process]
  BY <1>0, <1>1, <1>2, SignalEnds, EndsType
<1>3. ASSUME NEW c \in Client, Spawns(c)
      PROVE  proc' \in [Pid -> Process]
  BY <1>1, <1>3, Values DEF Spawns, StartSidecar, Spawn, SpawnFails
<1>4. ASSUME NEW c \in Client, Ending(c)
      PROVE  proc' \in [Pid -> Process]
  BY <1>0, <1>4, EndsType DEF Ending, Leave, Interrupt
<1>5. ASSUME NEW p \in Pid, Exit(p) \/ ReusePid(p)
      PROVE  proc' \in [Pid -> Process]
  <2>1. Ends(p) \in [Pid -> Process] /\ Child("stranger", None, None) \in Process
    BY <1>0, EndsType, Values
  <2> QED
    BY <1>1, <1>5, <2>1 DEF Exit, ReusePid
<1>6. UNCHANGED vars => proc' = proc
  BY DEF vars, osVars
<1> QED
  BY <1>1, <1>2, <1>3, <1>4, <1>5, <1>6, Unchanging DEF Next

\* What of a session record a step leaves alone.
KeepsPlan(s)  == info'[s].mode = info[s].mode /\ info'[s].engine = info[s].engine
KeepsMain(s)  == info'[s].main = info[s].main
KeepsSide(s)  == info'[s].side = info[s].side
KeepsIdent(s) == info'[s].ident = info[s].ident
KeepsDns(s)   == info'[s].dns = info[s].dns /\ info'[s].restore = info[s].restore
Keeps(s)      == KeepsPlan(s) /\ KeepsMain(s) /\ KeepsSide(s) /\ KeepsIdent(s) /\ KeepsDns(s)

\* A failure that is to be undone changes nothing of the record but how it ends.
LEMMA UndoKeeps ==
  ASSUME TypeOK, NEW c \in Client, mine[c] \in Sess, NEW b \in BOOLEAN, Undo(c, b)
  PROVE  info' \in [Sess -> Info] /\ \A s \in Sess : Keeps(s)
<1>1. info \in [Sess -> Info] /\ info' = [info EXCEPT ![mine[c]] = [info[mine[c]] EXCEPT !.clear = b]]
  BY DEF TypeOK, Undo
<1>2. [info[mine[c]] EXCEPT !.clear = b] \in Info
  BY <1>1, SetClear
<1>3. info'[mine[c]] = [info[mine[c]] EXCEPT !.clear = b] /\ \A s \in Sess : s # mine[c] => info'[s] = info[s]
  BY <1>1
<1>4. Keeps(mine[c])
  BY <1>1, <1>3, SetClear DEF Keeps, KeepsPlan, KeepsMain, KeepsSide, KeepsIdent, KeepsDns
<1> QED
  BY <1>1, <1>2, <1>3, <1>4 DEF Keeps, KeepsPlan, KeepsMain, KeepsSide, KeepsIdent, KeepsDns

\* What Start does to the record of a session, and that nobody else does anything to it.
InfoMove(s) ==
  \/ Keeps(s)
  \/ \E c \in Client :
       /\ Guard(c) /\ s \notin used /\ mine' = [mine EXCEPT ![c] = s] /\ used' = used \cup {s}
       /\ info'[s].main = None /\ info'[s].dns = "none" /\ info'[s].restore = "own"
       /\ pc'[c] = IF info'[s].engine = "xray" THEN "orphans" ELSE "spawn"
  \/ \E c \in Client :
       /\ mine[c] = s
       /\ \/ StartSidecar(c) /\ KeepsPlan(s) /\ KeepsMain(s) /\ KeepsIdent(s) /\ KeepsDns(s)
             /\ info'[s].side \in Pid /\ proc' = [proc EXCEPT ![info'[s].side] = Child("side", s, c)]
          \/ Spawn(c) /\ KeepsPlan(s) /\ KeepsSide(s) /\ KeepsIdent(s) /\ KeepsDns(s) /\ info'[s].main \in Pid
             /\ proc' = [proc EXCEPT ![info'[s].main] = Child("main", s, IF info[s].mode = "helper" THEN None ELSE c)]
          \/ Identify(c) /\ KeepsPlan(s) /\ KeepsMain(s) /\ KeepsSide(s) /\ KeepsDns(s)
             /\ info'[s].ident =
                  IF proc[info[s].main].kind = "main" THEN proc[info[s].main].sess ELSE None
          \/ HandOffDNS(c) /\ KeepsPlan(s) /\ KeepsMain(s) /\ KeepsSide(s) /\ KeepsIdent(s)
             /\ \/ info'[s].dns = "scutil" /\ info'[s].restore = info[s].restore
                \/ info'[s].dns = "service" /\ info'[s].restore = servers

\* Session records change as described.
LEMMA InfoMoves ==
  ASSUME IInv, [Next]_vars
  PROVE  info' \in [Sess -> Info] /\ \A s \in Sess : InfoMove(s)
<1>0. TypeOK /\ StartInv
  BY DEF IInv
<1>1. info \in [Sess -> Info] /\ mine \in [Client -> Sess \cup {None}] /\ pc \in [Client -> Step]
      /\ proc \in [Pid -> Process] /\ servers \in {"own", "proxy"}
  BY <1>0 DEF TypeOK
<1> USE DEF KeepsPlan, KeepsMain, KeepsSide, KeepsIdent, KeepsDns, Keeps
<1>2. info' = info => info' \in [Sess -> Info] /\ \A s \in Sess : Keeps(s)
  BY <1>1
<1>3. ASSUME NEW c \in Client, Guard(c)
      PROVE  info' \in [Sess -> Info] /\ \A s \in Sess : InfoMove(s)
  <2>1. ASSUME NEW s \in Sess \ used, NEW m \in Mode, NEW e \in Engine,
               used' = used \cup {s}, mine' = [mine EXCEPT ![c] = s],
               info' = [info EXCEPT ![s] = [NoInfo EXCEPT !.mode = m, !.engine = e]],
               Goto(c, IF e = "xray" THEN "orphans" ELSE "spawn")
        PROVE  info' \in [Sess -> Info] /\ \A t \in Sess : InfoMove(t)
    <3> DEFINE x == [NoInfo EXCEPT !.mode = m, !.engine = e]
    <3>1. x \in Info /\ x.engine = e /\ x.main = None /\ x.dns = "none" /\ x.restore = "own"
      BY Fresh, SessionAssumption
    <3> HIDE DEF x
    <3>2. info'[s] = x /\ info' \in [Sess -> Info] /\ \A t \in Sess : t # s => info'[t] = info[t]
      BY <1>1, <2>1, <3>1 DEF x
    <3>3. pc'[c] = IF e = "xray" THEN "orphans" ELSE "spawn"
      BY <1>1, <2>1 DEF Goto
    <3>4. InfoMove(s)
      BY <1>3, <2>1, <3>1, <3>2, <3>3 DEF InfoMove
    <3> QED
      BY <3>2, <3>4 DEF InfoMove
  <2> QED
    BY <1>2, <1>3, <2>1, ZenonT(60) DEF Guard, InfoMove
<1>4. ASSUME NEW c \in Client, StartSidecar(c)
      PROVE  info' \in [Sess -> Info] /\ \A s \in Sess : InfoMove(s)
  <2>1. mine[c] \in Sess
    BY <1>0, <1>1, <1>4 DEF StartSidecar, StartInv, StartStep
  <2>2. ASSUME NEW p \in Pid, proc' = [proc EXCEPT ![p] = Child("side", mine[c], c)],
               info' = [info EXCEPT ![mine[c]].side = p]
        PROVE  info' \in [Sess -> Info] /\ \A t \in Sess : InfoMove(t)
    <3> DEFINE x == [info[mine[c]] EXCEPT !.side = p]
    <3>1. x \in Info /\ x.side = p /\ x.mode = info[mine[c]].mode /\ x.engine = info[mine[c]].engine
          /\ x.main = info[mine[c]].main /\ x.ident = info[mine[c]].ident /\ x.dns = info[mine[c]].dns
          /\ x.restore = info[mine[c]].restore
      BY <1>1, <2>1, SetSide
    <3> HIDE DEF x
    <3>2. info'[mine[c]] = x /\ info' \in [Sess -> Info] /\ \A t \in Sess : t # mine[c] => info'[t] = info[t]
      BY <1>1, <2>1, <2>2, <3>1 DEF x
    <3>3. InfoMove(mine[c])
      BY <1>4, <2>2, <3>1, <3>2 DEF InfoMove
    <3> QED
      BY <3>2, <3>3, SMTT(60) DEF InfoMove
  <2> QED
    BY <1>2, <1>4, <2>2 DEF StartSidecar, InfoMove
<1>5. ASSUME NEW c \in Client, Spawn(c)
      PROVE  info' \in [Sess -> Info] /\ \A s \in Sess : InfoMove(s)
  <2>1. mine[c] \in Sess
    BY <1>0, <1>1, <1>5 DEF Spawn, StartInv, StartStep
  <2>2. PICK p \in Pid :
          /\ proc' = [proc EXCEPT ![p] = Child("main", mine[c], IF info[mine[c]].mode = "helper" THEN None ELSE c)]
          /\ info' = [info EXCEPT ![mine[c]].main = p]
    BY <1>5 DEF Spawn
  <2> DEFINE x == [info[mine[c]] EXCEPT !.main = p]
  <2>3. x \in Info /\ x.main = p /\ x.mode = info[mine[c]].mode /\ x.engine = info[mine[c]].engine
        /\ x.side = info[mine[c]].side /\ x.ident = info[mine[c]].ident /\ x.dns = info[mine[c]].dns
        /\ x.restore = info[mine[c]].restore
    BY <1>1, <2>1, SetMain
  <2> HIDE DEF x
  <2>4. info'[mine[c]] = x /\ info' \in [Sess -> Info] /\ \A t \in Sess : t # mine[c] => info'[t] = info[t]
    BY <1>1, <2>1, <2>2, <2>3 DEF x
  <2>5. InfoMove(mine[c])
    BY <1>5, <2>2, <2>3, <2>4 DEF InfoMove
  <2> QED
    BY <2>4, <2>5, SMTT(60) DEF InfoMove
<1>6. ASSUME NEW c \in Client, Identify(c)
      PROVE  info' \in [Sess -> Info] /\ \A s \in Sess : InfoMove(s)
  <2>1. mine[c] \in Sess /\ info[mine[c]].main \in Pid
    BY <1>0, <1>1, <1>6 DEF Identify, StartInv, StartStep, Spawned, Info
  <2>2. CASE Undo(c, FALSE)
    BY <1>0, <2>1, <2>2, UndoKeeps DEF InfoMove
  <2> DEFINE i == IF proc[info[mine[c]].main].kind = "main" THEN proc[info[mine[c]].main].sess ELSE None
  <2>3. CASE info' = [info EXCEPT ![mine[c]].ident = i]
    <3>1. i \in Sess \cup {None}
      BY <1>1, <2>1 DEF Process
    <3> HIDE DEF i
    <3> DEFINE x == [info[mine[c]] EXCEPT !.ident = i]
    <3>2. x \in Info /\ x.ident = i /\ x.mode = info[mine[c]].mode /\ x.engine = info[mine[c]].engine
          /\ x.main = info[mine[c]].main /\ x.side = info[mine[c]].side /\ x.dns = info[mine[c]].dns
          /\ x.restore = info[mine[c]].restore
      BY <1>1, <2>1, <3>1, SetIdent
    <3> HIDE DEF x
    <3>3. info'[mine[c]] = x /\ info' \in [Sess -> Info] /\ \A t \in Sess : t # mine[c] => info'[t] = info[t]
      BY <1>1, <2>1, <2>3, <3>2 DEF x
    <3>4. InfoMove(mine[c])
      BY <1>6, <3>2, <3>3 DEF InfoMove, i
    <3> QED
      BY <3>3, <3>4, SMTT(60) DEF InfoMove
  <2> QED
    BY <1>6, <2>2, <2>3 DEF Identify
<1>7. ASSUME NEW c \in Client, SaveMetadata(c) \/ Ready(c) \/ Stable(c) \/ SaveCurrent(c)
      PROVE  info' \in [Sess -> Info] /\ \A s \in Sess : InfoMove(s)
  <2>1. mine[c] \in Sess
    BY <1>0, <1>1, <1>7 DEF SaveMetadata, Ready, Stable, SaveCurrent, StartInv, StartStep
  <2>2. info' = info \/ \E b \in BOOLEAN : Undo(c, b)
    BY <1>7 DEF SaveMetadata, Ready, Stable, SaveCurrent
  <2> QED
    BY <1>0, <1>2, <2>1, <2>2, UndoKeeps DEF InfoMove
<1>8. ASSUME NEW c \in Client, HandOffDNS(c)
      PROVE  info' \in [Sess -> Info] /\ \A s \in Sess : InfoMove(s)
  <2>1. mine[c] \in Sess
    BY <1>0, <1>1, <1>8 DEF HandOffDNS, StartInv, StartStep
  <2>2. ASSUME NEW d \in {"scutil", "service"}, NEW v \in {"own", "proxy"},
               v = IF d = "scutil" THEN info[mine[c]].restore ELSE servers,
               info'[mine[c]] = [mode |-> info[mine[c]].mode, engine |-> info[mine[c]].engine,
                                 main |-> info[mine[c]].main, side |-> info[mine[c]].side,
                                 ident |-> info[mine[c]].ident, dns |-> d, restore |-> v,
                                 clear |-> info[mine[c]].clear],
               \A t \in Sess : t # mine[c] => info'[t] = info[t],
               info' \in [Sess -> Info]
        PROVE  \A s \in Sess : InfoMove(s)
    <3>1. InfoMove(mine[c])
      BY <1>8, <2>2 DEF InfoMove
    <3>2. \A t \in Sess : t # mine[c] => InfoMove(t)
      BY <2>2 DEF InfoMove
    <3> QED
      BY <3>1, <3>2
  <2>3. CASE info' = [info EXCEPT ![mine[c]].dns = "scutil"]
    <3>1. info[mine[c]].restore \in {"own", "proxy"}
      BY <1>1, <2>1 DEF Info
    <3>2. info'[mine[c]] = [info[mine[c]] EXCEPT !.dns = "scutil"]
          /\ \A t \in Sess : t # mine[c] => info'[t] = info[t]
      BY <1>1, <2>1, <2>3
    <3>3. info' \in [Sess -> Info]
      BY <1>1, <2>1, <2>3, <3>1, SetDns
    <3> QED
      BY <1>1, <2>1, <2>2, <3>1, <3>2, <3>3, SetDns, ZenonT(60)
  <2>4. CASE info' = [info EXCEPT ![mine[c]].dns = "service", ![mine[c]].restore = servers]
    <3>1. info'[mine[c]] = [[info[mine[c]] EXCEPT !.dns = "service"] EXCEPT !.restore = servers]
          /\ \A t \in Sess : t # mine[c] => info'[t] = info[t]
      BY <1>1, <2>1, <2>4
    <3>2. info' \in [Sess -> Info]
      <4>1. [[info[mine[c]] EXCEPT !.dns = "service"] EXCEPT !.restore = servers] \in Info
        BY <1>1, <2>1, SetDns
      <4> QED
        BY <1>1, <2>1, <2>4, <4>1
    <3> QED
      BY <1>1, <2>1, <2>2, <3>1, <3>2, SetDns
  <2>5. info' = info \/ Undo(c, TRUE) \/ info' = [info EXCEPT ![mine[c]].dns = "scutil"]
        \/ info' = [info EXCEPT ![mine[c]].dns = "service", ![mine[c]].restore = servers]
    BY <1>8 DEF HandOffDNS
  <2> QED
    BY <1>0, <1>2, <2>1, <2>3, <2>4, <2>5, UndoKeeps DEF InfoMove
<1>9. (\E p \in Pid : Exit(p) \/ ReusePid(p)) \/ UNCHANGED vars => info' = info
  BY DEF Exit, ReusePid, vars
<1> QED
  BY <1>2, <1>3, <1>4, <1>5, <1>6, <1>7, <1>8, <1>9, Unchanging DEF Next, Records, InfoMove

\* A command goes to one of its steps, or stays.
LEMMA PcMoves ==
  ASSUME TypeOK, NEW c \in Client, CommandStep(c)
  PROVE  \E x \in Step : pc' = [pc EXCEPT ![c] = x]
<1>0. pc \in [Client -> Step]
  BY DEF TypeOK
<1> USE <1>0 DEF Goto, Step, StopStep, StartStep
<1>1. CASE Run(c) \/ Check(c) \/ Prepare(c) \/ Recheck(c) \/ Load(c) \/ Observe(c) \/ Term(c) \/ Poll(c)
             \/ PollTimeout(c) \/ Kill(c)
  BY <1>1 DEF Run, Check, Prepare, Recheck, Load, Observe, Term, Poll, PollTimeout, Kill, Follow, Stopped
<1>2. CASE Side(c) \/ SideTerm(c) \/ SidePoll(c) \/ SideKill(c) \/ Restore(c) \/ Clear(c) \/ Guard(c) \/ Orphans(c)
             \/ OrphansDone(c) \/ StartSidecar(c) \/ SidecarStarted(c)
  BY <1>2 DEF Side, SideTerm, SidePoll, SideKill, Restore, Clear, Guard, Orphans, OrphansDone,
              StartSidecar, SidecarStarted, Follow, Stopped
<1>3. CASE KillOrphan(c)
  <2>1. pc = [pc EXCEPT ![c] = pc[c]] /\ pc[c] \in Step
    BY <1>0
  <2> QED
    BY <1>3, <2>1 DEF KillOrphan
<1>4. CASE Spawn(c) \/ SpawnFails(c) \/ Identify(c) \/ SaveMetadata(c) \/ Stable(c) \/ HandOffDNS(c) \/ Ready(c)
             \/ SaveCurrent(c) \/ UndoDNS(c) \/ UndoKill(c) \/ UndoSide(c) \/ UndoClear(c) \/ Leave(c) \/ Interrupt(c)
  BY <1>4 DEF Spawn, SpawnFails, Identify, SaveMetadata, Stable, HandOffDNS, Ready, SaveCurrent, UndoDNS,
              UndoKill, UndoSide, UndoClear, Leave, Interrupt, Undo
<1> QED
  BY <1>1, <1>2, <1>3, <1>4 DEF CommandStep

\* Every step keeps the types.
LEMMA TypeStep == IInv /\ [Next]_vars => TypeOK'
<1> SUFFICES ASSUME IInv, [Next]_vars PROVE TypeOK'
  OBVIOUS
<1>0. TypeOK /\ StartInv /\ StopInv
  BY DEF IInv
<1>1. proc' \in [Pid -> Process] /\ info' \in [Sess -> Info]
  BY ProcType, InfoMoves
<1>2. pc' \in [Client -> Step]
  <2>1. pc \in [Client -> Step]
    BY <1>0 DEF TypeOK
  <2>2. (\E p \in Pid : Exit(p) \/ ReusePid(p)) \/ UNCHANGED vars => pc' = pc
    BY DEF Exit, ReusePid, vars
  <2> QED
    BY <1>0, <2>1, <2>2, PcMoves DEF Next
<1>3. cmd' \in [Client -> Command]
  <2>1. cmd \in [Client -> Command]
    BY <1>0 DEF TypeOK
  <2>2. ASSUME NEW c \in Client, Run(c)
        PROVE  cmd' \in [Client -> Command]
    BY <2>1, <2>2 DEF Run, Given
  <2>3. ASSUME NEW c \in Client, Recheck(c)
        PROVE  cmd' \in [Client -> Command]
    <3>1. ASSUME NEW r \in Command, NEW v \in BOOLEAN
          PROVE  [r EXCEPT !.force = v] \in Command
      <4>1. [r EXCEPT !.force = v] = [name |-> r.name, force |-> v]
        BY DEF Command
      <4> QED
        BY <4>1 DEF Command
    <3> QED
      BY <2>1, <2>3, <3>1 DEF Recheck
  <2>4. ASSUME NEW c \in Client, CommandStep(c), ~Run(c), ~Recheck(c)
        PROVE  cmd' = cmd
    BY <2>4, ZenonT(60) DEF CommandStep, Check, Prepare, Load, Observe, Term, Poll, PollTimeout, Kill,
       Side, SideTerm, SidePoll, SideKill, Restore, Clear, Guard, Orphans, KillOrphan, OrphansDone,
       StartSidecar, SidecarStarted, Spawn, SpawnFails, Identify, SaveMetadata, Stable, HandOffDNS, Ready,
       SaveCurrent, UndoDNS, UndoKill, UndoSide, UndoClear, Leave, Interrupt, cmdVars
  <2>5. (\E p \in Pid : Exit(p) \/ ReusePid(p)) \/ UNCHANGED vars => cmd' = cmd
    BY DEF Exit, ReusePid, vars, cmdVars
  <2> QED
    BY <2>1, <2>2, <2>3, <2>4, <2>5 DEF Next
<1>4. /\ cur' \in [Client -> Sess \cup {None}] /\ mine' \in [Client -> Sess \cup {None}]
      /\ targets' \in [Client -> SUBSET Pid] /\ used' \subseteq Sess
  <2>1. /\ cur \in [Client -> Sess \cup {None}] /\ mine \in [Client -> Sess \cup {None}]
        /\ targets \in [Client -> SUBSET Pid] /\ used \subseteq Sess
    BY <1>0 DEF TypeOK
  <2>2. ASSUME NEW c \in Client, CommandStep(c)
        PROVE  /\ cur' \in [Client -> Sess \cup {None}] /\ mine' \in [Client -> Sess \cup {None}]
               /\ targets' \in [Client -> SUBSET Pid] /\ used' \subseteq Sess
    BY <2>1, <2>2, ZenonT(60) DEF CommandStep, Run, Check, Prepare, Recheck, Load, Observe, Term, Poll,
       PollTimeout, Kill, Side, SideTerm, SidePoll, SideKill, Restore, Clear, Guard, Orphans, KillOrphan,
       OrphansDone, StartSidecar, SidecarStarted, Spawn, SpawnFails, Identify, SaveMetadata, Stable,
       HandOffDNS, Ready, SaveCurrent, UndoDNS, UndoKill, UndoSide, UndoClear, Leave, Interrupt, cmdVars
  <2>3. (\E p \in Pid : Exit(p) \/ ReusePid(p)) \/ UNCHANGED vars => UNCHANGED <<cur, mine, targets, used>>
    BY DEF Exit, ReusePid, vars, cmdVars
  <2> QED
    BY <2>1, <2>2, <2>3 DEF Next
<1>5. /\ record' \in Sess \cup {None, "corrupt"} /\ scutil' \subseteq Sess /\ servers' \in {"own", "proxy"}
      /\ lost' \subseteq Sess
  <2>1. /\ record \in Sess \cup {None, "corrupt"} /\ scutil \subseteq Sess /\ servers \in {"own", "proxy"}
        /\ lost \subseteq Sess /\ \A s \in Sess : info[s].restore \in {"own", "proxy"}
    BY <1>0 DEF TypeOK, Info
  <2>2. \A c \in Client : pc[c] \in StartStep => mine[c] \in Sess
    BY <1>0 DEF StartInv, TypeOK
  <2>3. \A c \in Client : pc[c] \in StopStep \ {"load"} => cur[c] \in Sess
    BY <1>0 DEF StopInv, TypeOK
  <2>4. ASSUME NEW c \in Client, Restore(c) \/ UndoDNS(c)
        PROVE  record' = record /\ scutil' \subseteq Sess /\ servers' \in {"own", "proxy"} /\ lost' \subseteq Sess
    BY <2>1, <2>2, <2>3, <2>4 DEF Restore, UndoDNS, RestoreDNS, StartStep, StopStep
  <2>5. ASSUME NEW c \in Client, CommandStep(c), ~Restore(c), ~UndoDNS(c)
        PROVE  record' \in Sess \cup {None, "corrupt"} /\ scutil' \subseteq Sess /\ servers' \in {"own", "proxy"}
               /\ lost' \subseteq Sess
    BY <2>1, <2>2, <2>5, ZenonT(60) DEF CommandStep, Run, Check, Prepare, Recheck, Load, Observe, Term, Poll,
       PollTimeout, Kill, Side, SideTerm, SidePoll, SideKill, Clear, Guard, Orphans, KillOrphan,
       OrphansDone, StartSidecar, SidecarStarted, Spawn, SpawnFails, Identify, SaveMetadata, Stable,
       HandOffDNS, Ready, SaveCurrent, UndoKill, UndoSide, UndoClear, Leave, Interrupt, SaveFails,
       StartStep, osVars
  <2>6. (\E p \in Pid : Exit(p) \/ ReusePid(p)) \/ UNCHANGED vars => UNCHANGED <<record, scutil, servers, lost>>
    BY DEF Exit, ReusePid, vars, osVars
  <2> QED
    BY <2>1, <2>4, <2>5, <2>6 DEF Next
<1>6. stray' \in BOOLEAN
  <2>1. ASSUME NEW c \in Client, CommandStep(c)
        PROVE  stray' \in BOOLEAN \/ stray' = stray
    BY <2>1, ZenonT(60) DEF CommandStep, Run, Check, Prepare, Recheck, Load, Observe, Term, Poll,
       PollTimeout, Kill, Side, SideTerm, SidePoll, SideKill, Restore, Clear, Guard, Orphans, KillOrphan,
       OrphansDone, StartSidecar, SidecarStarted, Spawn, SpawnFails, Identify, SaveMetadata, Stable,
       HandOffDNS, Ready, SaveCurrent, UndoDNS, UndoKill, UndoSide, UndoClear, Leave, Interrupt
  <2>2. (\E p \in Pid : Exit(p) \/ ReusePid(p)) \/ UNCHANGED vars => stray' = stray
    BY DEF Exit, ReusePid, vars
  <2>3. stray \in BOOLEAN
    BY <1>0 DEF TypeOK
  <2> QED
    BY <2>1, <2>2, <2>3 DEF Next
<1> QED
  BY <1>1, <1>2, <1>3, <1>4, <1>5, <1>6 DEF TypeOK

-----------------------------------------------------------------------------
(* What a step does to a process, and to the session of a command *)

\* A process that goes on, or has become a zombie.
Stays(q) ==
  /\ proc'[q].kind = proc[q].kind /\ proc'[q].sess = proc[q].sess
  /\ proc'[q].st = "running" => proc[q].st = "running"
  /\ proc'[q].st = "free" => proc[q].st = "free"

\* A process that ends is freed, or kept as a zombie for its parent.
LEMMA EndsIs ==
  ASSUME TypeOK, ProcInv, NEW p \in Pid \cup {None}, NEW q \in Pid, proc' \in {proc, Ends(p)}
  PROVE  \/ proc'[q] = FreePid /\ proc[q].parent = None
         \/ Stays(q) /\ proc'[q].parent = proc[q].parent
<1>1. proc \in [Pid -> Process] /\ (proc[q].st = "free" => proc[q] = FreePid)
  BY DEF TypeOK, ProcInv
<1>2. CASE proc'[q] = proc[q]
  BY <1>2 DEF Stays
<1>3. CASE proc'[q] # proc[q]
  <2>1. p = q /\ proc'[q] = Ended(proc[q]) /\ proc[q].st # "free"
    BY <1>1, <1>3, SessionAssumption DEF Ends
  <2>2. CASE proc[q].parent = None
    BY <2>1, <2>2 DEF Ended
  <2>3. CASE proc[q].parent # None
    <3>1. proc'[q] = [proc[q] EXCEPT !.st = "zombie"]
      BY <2>1, <2>3 DEF Ended
    <3>2. proc'[q] = [st |-> "zombie", kind |-> proc[q].kind, sess |-> proc[q].sess, parent |-> proc[q].parent]
      BY <1>1, <3>1 DEF Process
    <3> QED
      BY <3>2 DEF Stays
  <2> QED
    BY <2>2, <2>3
<1> QED
  BY <1>2, <1>3

\* The children of a command that ends are freed or let go.
LEMMA ReparentedIs ==
  ASSUME TypeOK, NEW c \in Client, NEW q \in Pid, proc' = Reparented(c)
  PROVE  \/ proc'[q] = FreePid /\ proc[q].parent = c
         \/ Stays(q) /\ (proc'[q].parent = proc[q].parent \/ proc[q].parent = c)
<1>1. proc \in [Pid -> Process]
  BY DEF TypeOK
<1>2. CASE proc'[q] = proc[q]
  BY <1>2 DEF Stays
<1>3. CASE proc[q].parent = c /\ proc'[q] = [proc[q] EXCEPT !.parent = None]
  <2>1. proc'[q] = [st |-> proc[q].st, kind |-> proc[q].kind, sess |-> proc[q].sess, parent |-> None]
    BY <1>1, <1>3 DEF Process
  <2> QED
    BY <1>3, <2>1 DEF Stays
<1> QED
  BY <1>1, <1>2, <1>3 DEF Reparented

\* The process q in the next state: freed, going on, a stranger, or started by a command.
ProcMove(q) ==
  \/ proc'[q] = FreePid /\ (proc[q].parent = None \/ \E c \in Client : Ending(c) /\ proc[q].parent = c)
  \/ Stays(q) /\ (proc'[q].parent = proc[q].parent \/ \E c \in Client : Ending(c) /\ proc[q].parent = c)
  \/ proc[q].st = "free" /\ proc'[q] = Child("stranger", None, None)
  \/ \E c \in Client :
       /\ proc[q].st = "free" /\ mine[c] \in Sess
       /\ \/ StartSidecar(c) /\ info'[mine[c]].side = q /\ proc'[q] = Child("side", mine[c], c)
          \/ Spawn(c) /\ info'[mine[c]].main = q
             /\ proc'[q] = Child("main", mine[c], IF info[mine[c]].mode = "helper" THEN None ELSE c)
          \/ SpawnFails(c) /\ info[mine[c]].mode = "helper" /\ mine[c] \in lost'
             /\ proc'[q] = Child("main", mine[c], None)

\* Processes change as described.
LEMMA ProcMoves ==
  ASSUME IInv, [Next]_vars, NEW q \in Pid
  PROVE  ProcMove(q)
<1>0. TypeOK /\ ProcInv /\ StartInv
  BY DEF IInv
<1>1. ASSUME NEW c \in Client, Signals(c)
      PROVE  ProcMove(q)
  <2>1. PICK p \in Pid \cup {None} : proc' \in {proc, Ends(p)}
    BY <1>1, SignalEnds
  <2> QED
    BY <1>0, <2>1, EndsIs DEF ProcMove
<1>2. ASSUME NEW c \in Client, Ending(c)
      PROVE  ProcMove(q)
  <2>1. proc' = Reparented(c)
    BY <1>2 DEF Ending, Leave, Interrupt
  <2> QED
    BY <1>0, <1>2, <2>1, ReparentedIs DEF ProcMove
<1>3. proc' = proc => ProcMove(q)
  BY DEF ProcMove, Stays
<1>4. ASSUME NEW c \in Client, Spawns(c)
      PROVE  ProcMove(q)
  <2>0. mine[c] \in Sess /\ info \in [Sess -> Info] /\ proc \in [Pid -> Process]
    BY <1>0, <1>4 DEF Spawns, StartSidecar, Spawn, SpawnFails, StartInv, StartStep, TypeOK
  <2>1. CASE proc'[q] = proc[q]
    BY <2>1 DEF ProcMove, Stays
  <2>2. CASE proc'[q] # proc[q]
    <3>1. CASE StartSidecar(c)
      <4>1. PICK p \in Pid : proc[p].st = "free" /\ proc' = [proc EXCEPT ![p] = Child("side", mine[c], c)]
                             /\ info' = [info EXCEPT ![mine[c]].side = p]
        BY <2>2, <3>1 DEF StartSidecar
      <4>2. q = p /\ info'[mine[c]].side = p
        BY <2>0, <2>2, <4>1 DEF Info
      <4> QED
        BY <2>0, <3>1, <4>1, <4>2 DEF ProcMove
    <3>2. CASE Spawn(c)
      <4>1. PICK p \in Pid :
              /\ proc[p].st = "free"
              /\ proc' = [proc EXCEPT ![p] =
                            Child("main", mine[c], IF info[mine[c]].mode = "helper" THEN None ELSE c)]
              /\ info' = [info EXCEPT ![mine[c]].main = p]
        BY <3>2 DEF Spawn
      <4>2. q = p /\ info'[mine[c]].main = p
        BY <2>0, <2>2, <4>1 DEF Info
      <4> QED
        BY <2>0, <3>2, <4>1, <4>2 DEF ProcMove
    <3>3. CASE SpawnFails(c)
      BY <2>0, <2>2, <3>3 DEF SpawnFails, ProcMove
    <3> QED
      BY <1>4, <3>1, <3>2, <3>3 DEF Spawns
  <2> QED
    BY <2>1, <2>2
<1>5. ASSUME NEW p \in Pid, Exit(p)
      PROVE  ProcMove(q)
  BY <1>0, <1>5, EndsIs DEF Exit, ProcMove
<1>6. ASSUME NEW p \in Pid, ReusePid(p)
      PROVE  ProcMove(q)
  BY <1>0, <1>3, <1>6 DEF ReusePid, ProcMove, Stays, TypeOK
<1>7. UNCHANGED vars => proc' = proc
  BY DEF vars, osVars
<1> QED
  BY <1>1, <1>2, <1>3, <1>4, <1>5, <1>6, <1>7, Unchanging DEF Next

\* A command works on a session only after it has drawn a fresh one.
LEMMA MineMoves ==
  ASSUME IInv, [Next]_vars, NEW c \in Client
  PROVE  /\ \/ mine'[c] \in {mine[c], None}
            \/ Guard(c) /\ mine'[c] \in Sess \ used /\ used' = used \cup {mine'[c]}
         /\ pc'[c] \in StartStep =>
              \/ pc[c] \in StartStep /\ mine'[c] = mine[c]
              \/ Guard(c) /\ mine'[c] \in Sess \ used /\ used' = used \cup {mine'[c]}
<1>0. mine \in [Client -> Sess \cup {None}] /\ pc \in [Client -> Step]
  BY DEF IInv, TypeOK
<1>1. ASSUME NEW d \in Client, CommandStep(d), d # c
      PROVE  mine'[c] = mine[c] /\ pc'[c] = pc[c]
  BY <1>0, <1>1, ZenonT(60) DEF CommandStep, Run, Check, Prepare, Recheck, Load, Observe, Term, Poll,
     PollTimeout, Kill, Side, SideTerm, SidePoll, SideKill, Restore, Clear, Guard, Orphans, KillOrphan,
     OrphansDone, StartSidecar, SidecarStarted, Spawn, SpawnFails, Identify, SaveMetadata, Stable,
     HandOffDNS, Ready, SaveCurrent, UndoDNS, UndoKill, UndoSide, UndoClear, Leave, Interrupt, cmdVars,
     Goto, Undo, Follow
<1>2. ASSUME CommandStep(c), ~Guard(c)
      PROVE  /\ mine'[c] \in {mine[c], None}
             /\ pc'[c] \in StartStep => pc[c] \in StartStep /\ mine'[c] = mine[c]
  BY <1>0, <1>2, ZenonT(60) DEF CommandStep, Run, Check, Prepare, Recheck, Load, Observe, Term, Poll,
     PollTimeout, Kill, Side, SideTerm, SidePoll, SideKill, Restore, Clear, Orphans, KillOrphan,
     OrphansDone, StartSidecar, SidecarStarted, Spawn, SpawnFails, Identify, SaveMetadata, Stable,
     HandOffDNS, Ready, SaveCurrent, UndoDNS, UndoKill, UndoSide, UndoClear, Leave, Interrupt, cmdVars,
     Goto, Undo, Follow, Stopped, StartStep
<1>3. CASE Guard(c)
  BY <1>0, <1>3 DEF Guard, Goto, StartStep
<1>4. (\E p \in Pid : Exit(p) \/ ReusePid(p)) \/ UNCHANGED vars => UNCHANGED <<mine, pc>>
  BY DEF Exit, ReusePid, vars, cmdVars
<1> QED
  BY <1>1, <1>2, <1>3, <1>4 DEF Next

\* A session id is drawn once.
LEMMA UsedGrows == [Next]_vars => used \subseteq used'
<1>1. ASSUME NEW c \in Client, CommandStep(c)
      PROVE  used \subseteq used'
  BY <1>1, ZenonT(60) DEF CommandStep, Run, Check, Prepare, Recheck, Load, Observe, Term, Poll,
     PollTimeout, Kill, Side, SideTerm, SidePoll, SideKill, Restore, Clear, Guard, Orphans, KillOrphan,
     OrphansDone, StartSidecar, SidecarStarted, Spawn, SpawnFails, Identify, SaveMetadata, Stable,
     HandOffDNS, Ready, SaveCurrent, UndoDNS, UndoKill, UndoSide, UndoClear, Leave, Interrupt
<1>2. (\E p \in Pid : Exit(p) \/ ReusePid(p)) \/ UNCHANGED vars => used' = used
  BY DEF Exit, ReusePid, vars
<1> QED
  BY <1>1, <1>2 DEF Next

\* The resolver entries are those set by a hand-off, and what was lost stays lost.
LEMMA DnsMoves ==
  ASSUME IInv, [Next]_vars
  PROVE  /\ lost \subseteq lost'
         /\ \A s \in scutil' : s \in scutil \/ \E c \in Client : HandOffDNS(c) /\ mine[c] = s
<1>1. ASSUME NEW c \in Client, CommandStep(c)
      PROVE  lost \subseteq lost' /\ \A s \in scutil' : s \in scutil \/ (HandOffDNS(c) /\ mine[c] = s)
  <2>1. CASE HandOffDNS(c)
    BY <2>1 DEF HandOffDNS
  <2>2. CASE ~HandOffDNS(c)
    BY <1>1, <2>2, ZenonT(60) DEF CommandStep, Run, Check, Prepare, Recheck, Load, Observe, Term, Poll,
       PollTimeout, Kill, Side, SideTerm, SidePoll, SideKill, Restore, Clear, Guard, Orphans, KillOrphan,
       OrphansDone, StartSidecar, SidecarStarted, Spawn, SpawnFails, Identify, SaveMetadata, Stable,
       Ready, SaveCurrent, UndoDNS, UndoKill, UndoSide, UndoClear, Leave, Interrupt, RestoreDNS, osVars
  <2> QED
    BY <2>1, <2>2
<1>2. (\E p \in Pid : Exit(p) \/ ReusePid(p)) \/ UNCHANGED vars => UNCHANGED <<scutil, lost>>
  BY DEF Exit, ReusePid, vars, osVars
<1> QED
  BY <1>1, <1>2 DEF Next

\* Only the Start of a session starts its processes; others that run have run before.
LEMMA OfMoves ==
  ASSUME IInv, [Next]_vars, NEW s \in Sess
  PROVE  /\ \/ \E c \in Client : mine[c] = s /\ (Spawn(c) \/ SpawnFails(c))
            \/ \A q \in Of("main", s)' : q \in Of("main", s) /\ (q \in Running' => q \in Running)
         /\ \/ \E c \in Client : mine[c] = s /\ StartSidecar(c)
            \/ \A q \in Of("side", s)' : q \in Of("side", s) /\ (q \in Running' => q \in Running)
<1>1. \A q \in Pid : ProcMove(q)
  BY ProcMoves
<1>2. ASSUME NEW q \in Pid, NEW k \in {"main", "side"}, proc'[q].kind = k, proc'[q].sess = s
      PROVE  \/ proc[q].kind = k /\ proc[q].sess = s /\ (proc'[q].st = "running" => proc[q].st = "running")
             \/ k = "main" /\ \E c \in Client : mine[c] = s /\ (Spawn(c) \/ SpawnFails(c))
             \/ k = "side" /\ \E c \in Client : mine[c] = s /\ StartSidecar(c)
  <2>1. CASE Stays(q)
    BY <1>2, <2>1 DEF Stays
  <2>2. FreePid.kind = "none" /\ Child("stranger", None, None).kind = "stranger"
    BY DEF FreePid, Child
  <2>3. \A c \in Client, d \in Client \cup {None} :
          /\ Child("main", mine[c], d).kind = "main" /\ Child("main", mine[c], d).sess = mine[c]
          /\ Child("side", mine[c], d).kind = "side" /\ Child("side", mine[c], d).sess = mine[c]
    BY DEF Child
  <2>4. CASE \E c \in Client :
               \/ StartSidecar(c) /\ proc'[q] = Child("side", mine[c], c)
               \/ Spawn(c) /\ proc'[q] = Child("main", mine[c], IF info[mine[c]].mode = "helper" THEN None ELSE c)
               \/ SpawnFails(c) /\ proc'[q] = Child("main", mine[c], None)
    BY <1>2, <2>3, <2>4
  <2> QED
    BY <1>1, <1>2, <2>1, <2>2, <2>4 DEF ProcMove
<1> QED
  BY <1>2 DEF Of, Running

\* The steps of Start in order.
LEMMA StartPc ==
  ASSUME IInv, [Next]_vars, NEW c \in Client
  PROVE  /\ pc'[c] \in BeforeSide => pc[c] \in BeforeSide \/ Guard(c)
         /\ pc'[c] \in BeforeSpawn => pc[c] \in BeforeSpawn \/ Guard(c)
         /\ pc'[c] \in Spawned => pc[c] \in Spawned \/ Spawn(c)
         /\ pc'[c] \in Identified =>
              \/ pc[c] \in Identified
              \/ Identify(c) /\ info' = [info EXCEPT ![mine[c]].ident =
                                  IF proc[info[mine[c]].main].kind = "main" THEN proc[info[mine[c]].main].sess
                                  ELSE None]
         /\ StartSidecar(c) => pc[c] \in BeforeSide /\ pc'[c] \notin BeforeSide
         /\ Spawn(c) \/ SpawnFails(c) => pc[c] \in BeforeSpawn /\ pc'[c] \notin BeforeSpawn
         /\ Ending(c) => pc'[c] = "idle"
<1>0. pc \in [Client -> Step]
  BY DEF IInv, TypeOK
<1> USE DEF BeforeSide, BeforeSpawn, Spawned, Identified, Goto
<1>1. ASSUME NEW d \in Client, CommandStep(d), d # c
      PROVE  pc'[c] = pc[c]
  BY <1>0, <1>1, ZenonT(60) DEF CommandStep, Run, Check, Prepare, Recheck, Load, Observe, Term, Poll,
     PollTimeout, Kill, Side, SideTerm, SidePoll, SideKill, Restore, Clear, Guard, Orphans, KillOrphan,
     OrphansDone, StartSidecar, SidecarStarted, Spawn, SpawnFails, Identify, SaveMetadata, Stable,
     HandOffDNS, Ready, SaveCurrent, UndoDNS, UndoKill, UndoSide, UndoClear, Leave, Interrupt, Undo,
     Follow
<1>2. ASSUME CommandStep(c), ~Identify(c)
      PROVE  /\ pc'[c] \in BeforeSide => pc[c] \in BeforeSide \/ Guard(c)
             /\ pc'[c] \in BeforeSpawn => pc[c] \in BeforeSpawn \/ Guard(c)
             /\ pc'[c] \in Spawned => pc[c] \in Spawned \/ Spawn(c)
             /\ pc'[c] \in Identified => pc[c] \in Identified
  BY <1>0, <1>2, ZenonT(60) DEF CommandStep, Guard, Run, Check, Prepare, Recheck, Load, Observe, Term,
     Poll, PollTimeout, Kill, Side, SideTerm, SidePoll, SideKill, Restore, Clear, Orphans, KillOrphan,
     OrphansDone, StartSidecar, SidecarStarted, Spawn, SpawnFails, SaveMetadata, Stable, HandOffDNS,
     Ready, SaveCurrent, UndoDNS, UndoKill, UndoSide, UndoClear, Leave, Interrupt, Undo, Follow, Stopped
<1>3. Identify(c) =>
        /\ pc[c] \in Spawned /\ pc'[c] \notin BeforeSpawn
        /\ pc'[c] \in Identified =>
             info' = [info EXCEPT ![mine[c]].ident =
               IF proc[info[mine[c]].main].kind = "main" THEN proc[info[mine[c]].main].sess ELSE None]
  BY <1>0 DEF Identify, Undo
<1>4. (\E p \in Pid : Exit(p) \/ ReusePid(p)) \/ UNCHANGED vars => pc' = pc
  BY DEF Exit, ReusePid, vars
<1>5. /\ StartSidecar(c) => pc[c] \in BeforeSide /\ pc'[c] \notin BeforeSide
      /\ Spawn(c) \/ SpawnFails(c) => pc[c] \in BeforeSpawn /\ pc'[c] \notin BeforeSpawn
      /\ Ending(c) => pc'[c] = "idle"
  BY <1>0 DEF StartSidecar, Spawn, SpawnFails, Ending, Leave, Interrupt
<1> QED
  BY <1>1, <1>2, <1>3, <1>4, <1>5 DEF Next

\* A session that no Start is at work on keeps its record, and gets no process any more.
LEMMA SettledStep ==
  ASSUME IInv, [Next]_vars, NEW s \in Sess, Settled(s)
  PROVE  /\ Settled(s)' /\ Keeps(s)
         /\ \A k \in {"main", "side"} : \A q \in Of(k, s)' : q \in Of(k, s) /\ (q \in Running' => q \in Running)
         /\ s \in scutil' \ lost' => s \in scutil \ lost
<1>1. \A c \in Client :
        mine[c] = s => ~StartSidecar(c) /\ ~Spawn(c) /\ ~SpawnFails(c) /\ ~HandOffDNS(c) /\ ~Identify(c)
  BY DEF Settled, StartSidecar, Spawn, SpawnFails, HandOffDNS, Identify, StartStep
<1>2. Settled(s)'
  <2>1. ASSUME NEW c \in Client, mine'[c] = s, pc'[c] \in StartStep
        PROVE  FALSE
    <3>1. \/ pc[c] \in StartStep /\ mine'[c] = mine[c]
          \/ mine'[c] \in Sess \ used
      BY <2>1, MineMoves
    <3> QED
      BY <2>1, <3>1 DEF Settled
  <2>2. used \subseteq used'
    BY UsedGrows
  <2> QED
    BY <2>1, <2>2 DEF Settled
<1>3. Keeps(s)
  <2>1. InfoMove(s)
    BY InfoMoves
  <2> QED
    BY <1>1, <2>1 DEF InfoMove, Settled
<1>4. \A q \in Of("main", s)' : q \in Of("main", s) /\ (q \in Running' => q \in Running)
  BY <1>1, OfMoves
<1>5. \A q \in Of("side", s)' : q \in Of("side", s) /\ (q \in Running' => q \in Running)
  BY <1>1, OfMoves
<1>6. s \in scutil' \ lost' => s \in scutil \ lost
  BY <1>1, DnsMoves
<1> QED
  BY <1>2, <1>3, <1>4, <1>5, <1>6

-----------------------------------------------------------------------------
(* The invariant, part by part *)

\* Processes stay where the records have them.
LEMMA ProcStep == IInv /\ [Next]_vars => ProcInv'
<1> SUFFICES ASSUME IInv, [Next]_vars PROVE ProcInv'
  OBVIOUS
<1>0. TypeOK /\ ProcInv /\ StartInv /\ TypeOK'
  BY TypeStep DEF IInv
<1>1. used \subseteq used' /\ used \subseteq Sess
  BY <1>0, UsedGrows DEF TypeOK
<1>2. ASSUME NEW q \in Pid
      PROVE  proc'[q].st = "free" => proc'[q] = FreePid
  <2>1. CASE Stays(q)
    <3>1. ASSUME proc'[q].st = "free"
          PROVE  proc'[q] = FreePid
      <4>1. proc[q] = FreePid
        BY <1>0, <2>1, <3>1 DEF Stays, ProcInv
      <4>2. proc[q].parent = None /\ ~\E c \in Client : proc[q].parent = c
        BY <4>1, SessionAssumption DEF FreePid
      <4>3. proc'[q].parent = None
        BY <2>1, <3>1, <4>1, <4>2, ProcMoves, ChildFields DEF ProcMove
      <4> QED
        BY <1>0, <2>1, <3>1, <4>1, <4>3 DEF Stays, FreePid, TypeOK, Process
    <3> QED
      BY <3>1
  <2>2. CASE ~Stays(q)
    <3>1. \A k, s, c : Child(k, s, c).st = "running"
      BY DEF Child
    <3> QED
      BY <2>2, <3>1, ProcMoves DEF ProcMove
  <2> QED
    BY <2>1, <2>2
<1>3. ASSUME NEW q \in Pid, proc'[q].kind = "main"
      PROVE  proc'[q].sess \in used' /\ info'[proc'[q].sess].main \in {q, None}
  <2>1. CASE Stays(q)
    <3> DEFINE s == proc[q].sess
    <3>1. proc'[q].sess = s /\ s \in used /\ info[s].main \in {q, None} /\ q \in Of("main", s)
      BY <1>0, <1>3, <2>1 DEF Stays, ProcInv, Of
    <3>2. ~\E c \in Client : mine[c] = s /\ Spawn(c)
      BY <1>0, <3>1 DEF StartInv, Spawn, BeforeSpawn
    <3>3. info'[s].main = info[s].main
      BY <1>1, <3>1, <3>2, InfoMoves DEF InfoMove, Keeps, KeepsMain
    <3> QED
      BY <1>1, <3>1, <3>3
  <2>2. CASE \E c \in Client : mine[c] \in Sess /\ Spawn(c) /\ info'[mine[c]].main = q /\ proc'[q].sess = mine[c]
    BY <1>0, <1>1, <2>2 DEF StartInv, Spawn, StartStep
  <2>3. CASE \E c \in Client : mine[c] \in Sess /\ SpawnFails(c) /\ proc'[q].sess = mine[c]
    BY <1>0, <1>1, <2>3 DEF StartInv, SpawnFails, StartStep, BeforeSpawn
  <2> QED
    BY <1>3, <2>1, <2>2, <2>3, ProcMoves, ChildFields DEF ProcMove
<1>4. ASSUME NEW q \in Pid, proc'[q].kind = "side"
      PROVE  proc'[q].sess \in used' /\ info'[proc'[q].sess].side = q
  <2>1. CASE Stays(q)
    <3> DEFINE s == proc[q].sess
    <3>1. proc'[q].sess = s /\ s \in used /\ info[s].side = q /\ q \in Of("side", s)
      BY <1>0, <1>4, <2>1 DEF Stays, ProcInv, Of
    <3>2. ~\E c \in Client : mine[c] = s /\ StartSidecar(c)
      BY <1>0, <3>1 DEF StartInv, StartSidecar, BeforeSide
    <3>3. info'[s].side = info[s].side
      BY <1>1, <3>1, <3>2, InfoMoves DEF InfoMove, Keeps, KeepsSide
    <3> QED
      BY <1>1, <3>1, <3>3
  <2>2. CASE \E c \in Client :
               mine[c] \in Sess /\ StartSidecar(c) /\ info'[mine[c]].side = q /\ proc'[q].sess = mine[c]
    BY <1>0, <1>1, <2>2 DEF StartInv, StartSidecar, StartStep
  <2> QED
    BY <1>4, <2>1, <2>2, ProcMoves, ChildFields DEF ProcMove
<1>5. ASSUME NEW s \in scutil'
      PROVE  s \in used' /\ (info'[s].dns = "scutil" \/ s \in lost')
  <2>0. s \in Sess
    BY <1>0, <1>5 DEF TypeOK
  <2>1. CASE \E c \in Client : HandOffDNS(c) /\ mine[c] = s
    <3>1. PICK c \in Client : HandOffDNS(c) /\ mine[c] = s
      BY <2>1
    <3>2. s \in used
      BY <1>0, <2>0, <3>1, SessionAssumption DEF StartInv
    <3>3. CASE scutil' = scutil /\ info' = info /\ lost' = lost
      BY <1>0, <1>1, <1>5, <3>2, <3>3 DEF ProcInv
    <3>4. CASE info' = [info EXCEPT ![s].dns = "scutil"]
      BY <1>0, <1>1, <2>0, <3>2, <3>4 DEF TypeOK, Info
    <3>5. CASE s \in lost'
      BY <1>1, <3>2, <3>5
    <3> QED
      BY <1>5, <3>1, <3>3, <3>4, <3>5 DEF HandOffDNS
  <2>2. CASE s \in scutil /\ ~\E c \in Client : HandOffDNS(c) /\ mine[c] = s
    <3>1. s \in used /\ (info[s].dns = "scutil" \/ s \in lost)
      BY <1>0, <2>2 DEF ProcInv
    <3>2. info'[s].dns = info[s].dns
      BY <2>0, <2>2, <3>1, InfoMoves DEF InfoMove, Keeps, KeepsDns
    <3> QED
      BY <1>1, <3>1, <3>2, DnsMoves
  <2> QED
    BY <1>5, <2>1, <2>2, DnsMoves
<1> QED
  BY <1>2, <1>3, <1>4, <1>5 DEF ProcInv

\* A Start keeps its session, and the sing-box it has started, to itself.
LEMMA StartInvStep == IInv /\ [Next]_vars => StartInv'
<1> SUFFICES ASSUME IInv, [Next]_vars PROVE StartInv'
  OBVIOUS
<1>0. TypeOK /\ ProcInv /\ StartInv /\ TypeOK'
  BY TypeStep DEF IInv
<1>1. used \subseteq used' /\ used \subseteq Sess
  BY <1>0, UsedGrows DEF TypeOK
<1>2. ASSUME NEW c \in Client, mine'[c] # None
      PROVE  mine'[c] \in used' /\ \A d \in Client : mine'[d] = mine'[c] => d = c
  <2>1. \A d \in Client : \/ mine'[d] \in {mine[d], None}
                          \/ Guard(d) /\ mine'[d] \in Sess \ used /\ used' = used \cup {mine'[d]}
    BY MineMoves
  <2>2. \A d, e \in Client : Guard(d) /\ d # e => mine'[e] = mine[e]
    BY <1>0 DEF Guard, TypeOK
  <2> QED
    BY <1>0, <1>1, <1>2, <2>1, <2>2 DEF StartInv
<1>3. ASSUME NEW c \in Client, pc'[c] \in StartStep
      PROVE  mine'[c] # None
  BY <1>0, <1>3, MineMoves, SessionAssumption DEF StartInv
<1>g. ASSUME NEW c \in Client, NEW s \in Sess, mine'[c] = s, Guard(c), pc'[c] \in StartStep
      PROVE  Of("side", s)' = {} /\ Of("main", s)' = {} /\ info'[s].main = None
  <2>1. s \notin used /\ proc' = proc
    BY <1>g, MineMoves DEF Guard, StartStep, osVars
  <2>2. Of("side", s)' = {} /\ Of("main", s)' = {}
    BY <1>0, <2>1 DEF Of, ProcInv
  <2>3. InfoMove(s) /\ mine[c] # s
    BY <1>0, <1>1, <2>1, InfoMoves, SessionAssumption DEF StartInv
  <2>4. PICK t \in Sess, m \in Mode, e \in Engine :
          mine' = [mine EXCEPT ![c] = t] /\ info' = [info EXCEPT ![t] = [NoInfo EXCEPT !.mode = m, !.engine = e]]
    BY <1>g, <2>3 DEF Guard
  <2>5. t = s /\ info'[s] = [NoInfo EXCEPT !.mode = m, !.engine = e]
    BY <1>0, <1>g, <2>4 DEF TypeOK
  <2>6. info'[s].main = None
    BY <2>5, Fresh, SessionAssumption
  <2> QED
    BY <2>2, <2>6
<1>w. ASSUME NEW c \in Client, pc[c] \in StartStep
      PROVE  mine[c] \in Sess /\ mine[c] \in used /\ \A d \in Client : mine[d] = mine[c] => d = c
  BY <1>0, <1>1, <1>w DEF StartInv
<1>4. ASSUME NEW c \in Client, NEW s \in Sess, mine'[c] = s, pc'[c] \in BeforeSide
      PROVE  Of("side", s)' = {}
  <2>1. CASE pc[c] \in BeforeSide
    <3>1. pc[c] \in StartStep /\ pc'[c] \in StartStep /\ ~Guard(c)
      BY <1>4, <2>1 DEF BeforeSide, StartStep, Guard
    <3>2. mine[c] = s /\ Of("side", s) = {}
      BY <1>0, <1>4, <2>1, <3>1, MineMoves DEF StartInv
    <3>3. ~\E d \in Client : mine[d] = s /\ StartSidecar(d)
      BY <1>4, <1>w, <3>1, <3>2, StartPc
    <3>4. \A q \in Of("side", s)' : q \in Of("side", s)
      BY <3>3, OfMoves
    <3> QED
      BY <3>2, <3>4
  <2>2. CASE Guard(c)
    BY <1>4, <1>g, <2>2 DEF BeforeSide, StartStep
  <2> QED
    BY <1>4, <2>1, <2>2, StartPc
<1>5. ASSUME NEW c \in Client, NEW s \in Sess, mine'[c] = s, pc'[c] \in BeforeSpawn
      PROVE  info'[s].main = None /\ Of("main", s)' = {}
  <2>1. CASE pc[c] \in BeforeSpawn
    <3>1. pc[c] \in StartStep /\ pc'[c] \in StartStep /\ ~Guard(c)
      BY <1>5, <2>1 DEF BeforeSide, BeforeSpawn, StartStep, Guard
    <3>2. mine[c] = s /\ Of("main", s) = {} /\ info[s].main = None
      BY <1>0, <1>5, <2>1, <3>1, MineMoves DEF StartInv
    <3>3. ~\E d \in Client : mine[d] = s /\ (Spawn(d) \/ SpawnFails(d))
      BY <1>5, <1>w, <3>1, <3>2, StartPc
    <3>4. info'[s].main = None
      BY <1>w, <3>1, <3>2, <3>3, InfoMoves DEF InfoMove, Keeps, KeepsMain
    <3>5. \A q \in Of("main", s)' : q \in Of("main", s)
      BY <3>3, OfMoves
    <3> QED
      BY <3>2, <3>4, <3>5
  <2>2. CASE Guard(c)
    BY <1>5, <1>g, <2>2 DEF BeforeSpawn, BeforeSide, StartStep
  <2> QED
    BY <1>5, <2>1, <2>2, StartPc
<1>6. ASSUME NEW c \in Client, NEW s \in Sess, mine'[c] = s, pc'[c] \in Spawned
      PROVE  /\ info'[s].main # None
             /\ info'[s].mode = "helper" \/ (info'[s].main \in Of("main", s)' /\ proc'[info'[s].main].parent = c)
  <2>1. CASE pc[c] \in Spawned
    <3>1. pc[c] \in StartStep /\ pc'[c] \in StartStep /\ ~Guard(c) /\ pc'[c] # "idle"
      BY <1>6, <2>1 DEF Spawned, Identified, StartStep, Guard
    <3>2. mine[c] = s /\ s \in used
      BY <1>6, <1>w, <3>1, MineMoves
    <3>3. info[s].main # None
          /\ (info[s].mode = "helper" \/ (info[s].main \in Of("main", s) /\ proc[info[s].main].parent = c))
      BY <1>0, <2>1, <3>2 DEF StartInv
    <3>4. ~\E d \in Client : mine[d] = s /\ Spawn(d)
      BY <1>w, <2>1, <3>1, <3>2 DEF Spawn, Spawned, Identified
    <3>5. info'[s].main = info[s].main /\ info'[s].mode = info[s].mode
      BY <1>w, <3>1, <3>2, <3>4, InfoMoves DEF InfoMove, Keeps, KeepsMain, KeepsPlan
    <3>6. ASSUME NEW q \in Of("main", s), proc[q].parent = c
          PROVE  q \in Of("main", s)' /\ proc'[q].parent = c
      <4>1. q \in Pid /\ proc[q].st # "free" /\ proc[q].kind = "main" /\ proc[q].sess = s
        BY <1>0, <3>6, ChildFields DEF Of, ProcInv
      <4>2. \A d \in Client : Ending(d) => d # c
        BY <3>1, StartPc
      <4>3. Stays(q) /\ proc'[q].parent = c
        BY <3>6, <4>1, <4>2, ProcMoves, SessionAssumption DEF ProcMove
      <4> QED
        BY <4>1, <4>3 DEF Of, Stays
    <3> QED
      BY <3>3, <3>5, <3>6
  <2>2. CASE Spawn(c)
    <3>1. pc[c] \in StartStep /\ mine[c] = s
      BY <1>6, <2>2 DEF Spawn, StartStep, cmdVars
    <3>2. PICK p \in Pid :
            /\ proc' = [proc EXCEPT ![p] = Child("main", s, IF info[s].mode = "helper" THEN None ELSE c)]
            /\ info' = [info EXCEPT ![s].main = p]
      BY <2>2, <3>1 DEF Spawn
    <3>3. info'[s].main = p /\ info'[s].mode = info[s].mode
      BY <1>0, <3>2, SetMain DEF TypeOK
    <3>4. proc'[p].kind = "main" /\ proc'[p].sess = s /\ (info[s].mode # "helper" => proc'[p].parent = c)
      BY <1>0, <3>2, ChildFields DEF TypeOK
    <3>5. p \in Of("main", s)'
      BY <3>4 DEF Of
    <3> QED
      BY <3>2, <3>3, <3>4, <3>5, SessionAssumption
  <2> QED
    BY <1>6, <2>1, <2>2, StartPc
<1>7. ASSUME NEW c \in Client, NEW s \in Sess, mine'[c] = s, pc'[c] \in Identified
      PROVE  Faithful(s)'
  <2>0. pc[c] \in Spawned /\ pc[c] \in StartStep
    BY <1>7, StartPc DEF Identified, Spawned, Identify, StartStep
  <2>1. pc'[c] \in StartStep /\ ~Guard(c)
    BY <1>7, <2>0 DEF Identified, Spawned, StartStep, Guard
  <2>2. mine[c] = s /\ s \in used
    BY <1>7, <1>w, <2>0, <2>1, MineMoves
  <2>3. ~\E d \in Client : mine[d] = s /\ (Spawn(d) \/ SpawnFails(d))
    BY <1>w, <2>0, <2>2 DEF Spawned, Identified, Spawn, SpawnFails
  <2>4. Of("main", s)' \subseteq Of("main", s)
    BY <2>3, OfMoves
  <2>5. info'[s].main = info[s].main /\ info[s].main # None
    BY <1>0, <2>0, <2>2, <2>3, InfoMoves DEF InfoMove, Keeps, KeepsMain, StartInv
  <2>6. CASE pc[c] \in Identified
    <3>1. ~\E d \in Client : mine[d] = s /\ Identify(d)
      BY <1>w, <2>0, <2>2, <2>6 DEF Identified, Identify
    <3>2. info'[s].ident = info[s].ident
      BY <2>2, <2>3, <3>1, InfoMoves DEF InfoMove, Keeps, KeepsIdent
    <3>3. info[s].ident = s \/ Of("main", s) = {}
      BY <1>0, <2>2, <2>6 DEF StartInv, Faithful
    <3> QED
      BY <2>4, <2>5, <3>2, <3>3 DEF Faithful
  <2>7. CASE info' = [info EXCEPT ![s].ident =
               IF proc[info[s].main].kind = "main" THEN proc[info[s].main].sess ELSE None]
    <3>1. info[s].main \in Pid /\ proc[info[s].main].sess \in Sess \cup {None}
      BY <1>0, <2>5 DEF TypeOK, Info, Process
    <3>2. info'[s].ident = IF proc[info[s].main].kind = "main" THEN proc[info[s].main].sess ELSE None
      BY <1>0, <2>7, <3>1, SetIdent DEF TypeOK
    <3>3. \A p \in Of("main", s) : p = info[s].main
      BY <1>0, <2>5 DEF Of, ProcInv
    <3>4. Of("main", s) # {} => proc[info[s].main].kind = "main" /\ proc[info[s].main].sess = s
      BY <3>3 DEF Of
    <3> QED
      BY <2>4, <2>5, <3>2, <3>4 DEF Faithful
  <2> QED
    BY <1>7, <2>2, <2>6, <2>7, StartPc
<1>8. \A c \in Client : pc'[c] \in BeforeSide \cup BeforeSpawn \cup Spawned \cup Identified =>
        mine'[c] \in Sess /\ pc'[c] \in StartStep
  BY <1>0, <1>3 DEF TypeOK, BeforeSide, BeforeSpawn, Spawned, Identified, StartStep
<1> QED
  BY <1>2, <1>3, <1>4, <1>5, <1>6, <1>7, <1>8 DEF StartInv


\* The record is written by the Start that has come to the end of its session.
LEMMA RecordMoves ==
  ASSUME IInv, [Next]_vars
  PROVE  \/ record' \in {record, None, "corrupt"}
         \/ \E c \in Client : record' = mine[c] /\ pc[c] \in {"stable", "save"} /\ pc'[c] \notin StartStep
<1>0. pc \in [Client -> Step]
  BY DEF IInv, TypeOK
<1>1. ASSUME NEW c \in Client, CommandStep(c)
      PROVE  \/ record' \in {record, None, "corrupt"}
             \/ record' = mine[c] /\ pc[c] \in {"stable", "save"} /\ pc'[c] \notin StartStep
  BY <1>0, <1>1, ZenonT(60) DEF CommandStep, Run, Check, Prepare, Recheck, Load, Observe, Term, Poll,
     PollTimeout, Kill, Side, SideTerm, SidePoll, SideKill, Restore, Clear, Guard, Orphans, KillOrphan,
     OrphansDone, StartSidecar, SidecarStarted, Spawn, SpawnFails, Identify, SaveMetadata, Stable,
     HandOffDNS, Ready, SaveCurrent, UndoDNS, UndoKill, UndoSide, UndoClear, Leave, Interrupt, SaveFails,
     Goto, StartStep
<1>2. (\E p \in Pid : Exit(p) \/ ReusePid(p)) \/ UNCHANGED vars => record' = record
  BY DEF Exit, ReusePid, vars
<1> QED
  BY <1>1, <1>2 DEF Next

\* Stop takes its session from the record.
LEMMA CurMoves ==
  ASSUME IInv, [Next]_vars, NEW c \in Client
  PROVE  cur'[c] \in {cur[c], None} \/ (record \in Sess /\ cur'[c] = record /\ pc'[c] = "alive?")
<1>0. cur \in [Client -> Sess \cup {None}] /\ pc \in [Client -> Step]
  BY DEF IInv, TypeOK
<1>1. ASSUME NEW d \in Client, CommandStep(d)
      PROVE  cur'[c] \in {cur[c], None} \/ (record \in Sess /\ cur'[c] = record /\ pc'[c] = "alive?")
  BY <1>0, <1>1, ZenonT(60) DEF CommandStep, Run, Check, Prepare, Recheck, Load, Observe, Term, Poll,
     PollTimeout, Kill, Side, SideTerm, SidePoll, SideKill, Restore, Clear, Guard, Orphans, KillOrphan,
     OrphansDone, StartSidecar, SidecarStarted, Spawn, SpawnFails, Identify, SaveMetadata, Stable,
     HandOffDNS, Ready, SaveCurrent, UndoDNS, UndoKill, UndoSide, UndoClear, Leave, Interrupt, Goto,
     cmdVars
<1>2. (\E p \in Pid : Exit(p) \/ ReusePid(p)) \/ UNCHANGED vars => cur' = cur
  BY DEF Exit, ReusePid, vars, cmdVars
<1> QED
  BY <1>1, <1>2 DEF Next

\* The recorded session, and the one a Stop is at, have an identity to go by.
LEMMA RecordStep == IInv /\ [Next]_vars => RecordInv'
<1> SUFFICES ASSUME IInv, [Next]_vars PROVE RecordInv'
  OBVIOUS
<1>0. TypeOK /\ StartInv /\ RecordInv /\ TypeOK' /\ StartInv'
  BY TypeStep, StartInvStep DEF IInv
<1>1. ASSUME NEW s \in Sess, Settled(s), Faithful(s)
      PROVE  Settled(s)' /\ Faithful(s)'
  <2>1. Settled(s)' /\ Keeps(s) /\ Of("main", s)' \subseteq Of("main", s)
    BY <1>1, SettledStep
  <2> QED
    BY <1>1, <2>1 DEF Faithful, Keeps, KeepsMain, KeepsIdent
<1>2. ASSUME record' \in Sess
      PROVE  Settled(record)' /\ Faithful(record)'
  <2>1. CASE record' = record
    <3>1. record \in Sess /\ Settled(record) /\ Faithful(record)
      BY <1>0, <1>2, <2>1 DEF RecordInv
    <3>2. \A s \in Sess : Settled(s) /\ Faithful(s) => Settled(s)' /\ Faithful(s)'
      BY <1>1
    <3> QED
      BY <1>2, <2>1, <3>1, <3>2 DEF Settled, Faithful, Of
  <2>2. ASSUME NEW c \in Client, NEW s \in Sess, record' = s, s = mine[c],
               pc[c] \in {"stable", "save"}, pc'[c] \notin StartStep
        PROVE  Settled(s)' /\ Faithful(s)'
    <3>1. s \in used /\ s \in used' /\ \A d \in Client : mine[d] = s => d = c
      BY <1>0, <2>2, UsedGrows, SessionAssumption DEF StartInv
    <3>2. Faithful(s)
      BY <1>0, <2>2 DEF StartInv, Identified
    <3>3. \A d \in Client : mine'[d] = s => mine[d] = s
      BY <2>2, <3>1, MineMoves, SessionAssumption
    <3>4. Settled(s)'
      BY <2>2, <3>1, <3>3 DEF Settled
    <3>5. ~\E d \in Client : mine[d] = s /\ (Spawn(d) \/ SpawnFails(d) \/ Identify(d) \/ Guard(d))
      BY <2>2, <3>1 DEF Spawn, SpawnFails, Identify, Guard
    <3>6. Of("main", s)' \subseteq Of("main", s)
      BY <3>5, OfMoves
    <3>7. info'[s].main = info[s].main /\ info'[s].ident = info[s].ident
      BY <3>1, <3>5, InfoMoves DEF InfoMove, Keeps, KeepsMain, KeepsIdent
    <3> QED
      BY <3>2, <3>4, <3>6, <3>7 DEF Faithful
  <2>3. record' \notin {None, "corrupt"}
    BY <1>2, SessionAssumption
  <2> QED
    BY <1>2, <2>1, <2>2, <2>3, RecordMoves DEF Settled, Faithful, Of
<1>3. ASSUME NEW c \in Client, NEW s \in Sess, cur'[c] = s
      PROVE  Settled(s)' /\ Faithful(s)'
  <2>1. s \in {cur[c], record} /\ s # None
    BY <1>3, CurMoves, SessionAssumption
  <2>2. Settled(s) /\ Faithful(s)
    BY <1>0, <2>1 DEF RecordInv
  <2> QED
    BY <1>1, <2>2
<1>4. \A c \in Client : cur'[c] # None => cur'[c] \in Sess
  BY <1>0 DEF TypeOK
<1> QED
  BY <1>2, <1>3, <1>4 DEF RecordInv

\* The answers of an observation, and what "dead" means of a process whose identity is known.
LEMMA SeenIs ==
  /\ \A p, k, s : Seen(p, k, s) \subseteq {"alive", "dead", "unknown"}
  /\ \A s : SessionAlive(s) \subseteq {"alive", "dead", "unknown"}
  /\ \A s : SidecarAlive(s) \subseteq {"alive", "dead", "unknown"}
  BY DEF Seen, SessionAlive, SidecarAlive

\* A process that is found dead does not run.
LEMMA DeadIs ==
  ASSUME IInv, NEW s \in Sess
  PROVE  /\ Faithful(s) /\ "dead" \in SessionAlive(s) => Of("main", s) \cap Running = {}
         /\ "dead" \in SidecarAlive(s) => Of("side", s) \cap Running = {}
<1>0. TypeOK /\ ProcInv
  BY DEF IInv
<1>1. ASSUME NEW k \in {"main", "side"}, NEW p \in Pid \cup {None}, "dead" \in Seen(p, k, s)
      PROVE  p \notin Of(k, s) \cap Running
  BY <1>1, SessionAssumption DEF Seen, Of, Running
<1>2. info[s].main \in Pid \cup {None} /\ info[s].side \in Pid \cup {None}
  BY <1>0 DEF TypeOK, Info
<1>3. \A p \in Of("main", s) : info[s].main # None => p = info[s].main
  BY <1>0 DEF ProcInv, Of
<1>4. \A p \in Of("side", s) : p = info[s].side
  BY <1>0 DEF ProcInv, Of
<1> QED
  BY <1>1, <1>2, <1>3, <1>4 DEF Faithful, SessionAlive, SidecarAlive

\* The steps of Stop in order, and what it has seen or done when it goes on.
LEMMA StopPc ==
  ASSUME IInv, [Next]_vars, NEW c \in Client
  PROVE  /\ pc'[c] \in StopStep \ {"load"} => cur'[c] # None
         /\ cur'[c] # None /\ pc'[c] \in MainGone =>
              cur'[c] = cur[c] /\ (pc[c] \in MainGone \/ (proc' = proc /\ "dead" \in SessionAlive(cur[c])))
         /\ cur'[c] # None /\ pc'[c] \in SideGone =>
              \/ pc[c] \in SideGone
              \/ proc' = proc /\ "dead" \in SidecarAlive(cur[c])
              \/ proc' = Ends(info[cur[c]].side)
         /\ cur'[c] # None /\ pc'[c] \in DnsGone => pc[c] \in DnsGone \/ (RestoreDNS(cur[c]) /\ lost' = lost)
<1>0. pc \in [Client -> Step] /\ cur \in [Client -> Sess \cup {None}] /\ StopInv
  BY DEF IInv, TypeOK
<1>1. ASSUME NEW d \in Client, CommandStep(d), d # c
      PROVE  pc'[c] = pc[c] /\ cur'[c] = cur[c]
  BY <1>0, <1>1, ZenonT(60) DEF CommandStep, Run, Check, Prepare, Recheck, Load, Observe, Term, Poll,
     PollTimeout, Kill, Side, SideTerm, SidePoll, SideKill, Restore, Clear, Guard, Orphans, KillOrphan,
     OrphansDone, StartSidecar, SidecarStarted, Spawn, SpawnFails, Identify, SaveMetadata, Stable,
     HandOffDNS, Ready, SaveCurrent, UndoDNS, UndoKill, UndoSide, UndoClear, Leave, Interrupt, Undo,
     Follow, Goto, cmdVars
<1>2. ASSUME CommandStep(c)
      PROVE  /\ pc'[c] \in StopStep \ {"load"} =>
                  \/ pc[c] \in StopStep \ {"load"} /\ cur'[c] = cur[c]
                  \/ cur'[c] \in Sess
             /\ cur'[c] # None /\ pc'[c] \in MainGone =>
                  cur'[c] = cur[c] /\ (pc[c] \in MainGone \/ (proc' = proc /\ "dead" \in SessionAlive(cur[c])))
  BY <1>0, <1>2, SeenIs, ZenonT(60) DEF CommandStep, Run, Check, Prepare, Recheck, Load, Observe, Term,
     Poll, PollTimeout, Kill, Side, SideTerm, SidePoll, SideKill, Restore, Clear, Guard, Orphans,
     KillOrphan, OrphansDone, StartSidecar, SidecarStarted, Spawn, SpawnFails, Identify, SaveMetadata,
     Stable, HandOffDNS, Ready, SaveCurrent, UndoDNS, UndoKill, UndoSide, UndoClear, Leave, Interrupt,
     Undo, Follow, Stopped, Goto, cmdVars, osVars, MainGone, StopStep
<1>3. ASSUME CommandStep(c)
      PROVE  /\ cur'[c] # None /\ pc'[c] \in SideGone =>
                  \/ pc[c] \in SideGone
                  \/ proc' = proc /\ "dead" \in SidecarAlive(cur[c])
                  \/ proc' = Ends(info[cur[c]].side)
             /\ cur'[c] # None /\ pc'[c] \in DnsGone => pc[c] \in DnsGone \/ (RestoreDNS(cur[c]) /\ lost' = lost)
  BY <1>0, <1>3, SeenIs, ZenonT(60) DEF CommandStep, Run, Check, Prepare, Recheck, Load, Observe, Term,
     Poll, PollTimeout, Kill, Side, SideTerm, SidePoll, SideKill, Restore, Clear, Guard, Orphans,
     KillOrphan, OrphansDone, StartSidecar, SidecarStarted, Spawn, SpawnFails, Identify, SaveMetadata,
     Stable, HandOffDNS, Ready, SaveCurrent, UndoDNS, UndoKill, UndoSide, UndoClear, Leave, Interrupt,
     Undo, Follow, Stopped, SignalGroup, Goto, cmdVars, osVars, SideGone, DnsGone
<1>4. (\E p \in Pid : Exit(p) \/ ReusePid(p)) \/ UNCHANGED vars => pc' = pc /\ cur' = cur
  BY DEF Exit, ReusePid, vars, cmdVars
<1>5. pc'[c] = pc[c] /\ cur'[c] = cur[c] =>
      /\ pc'[c] \in StopStep \ {"load"} => cur'[c] # None
      /\ cur'[c] # None /\ pc'[c] \in MainGone =>
           cur'[c] = cur[c] /\ (pc[c] \in MainGone \/ (proc' = proc /\ "dead" \in SessionAlive(cur[c])))
      /\ cur'[c] # None /\ pc'[c] \in SideGone =>
           \/ pc[c] \in SideGone
           \/ proc' = proc /\ "dead" \in SidecarAlive(cur[c])
           \/ proc' = Ends(info[cur[c]].side)
      /\ cur'[c] # None /\ pc'[c] \in DnsGone => pc[c] \in DnsGone \/ (RestoreDNS(cur[c]) /\ lost' = lost)
  BY <1>0 DEF StopInv, SideGone, DnsGone, MainGone, StopStep
<1>6. CASE CommandStep(c)
  BY <1>0, <1>2, <1>3, <1>6, SessionAssumption DEF StopInv
<1> QED
  BY <1>1, <1>4, <1>5, <1>6 DEF Next

\* What Stop has found gone stays gone.
LEMMA StopInvStep == IInv /\ [Next]_vars => StopInv'
<1> SUFFICES ASSUME IInv, [Next]_vars PROVE StopInv'
  OBVIOUS
<1>0. TypeOK /\ ProcInv /\ RecordInv /\ StopInv /\ TypeOK'
  BY TypeStep DEF IInv
<1>1. ASSUME NEW c \in Client, NEW s \in Sess, cur'[c] = s, pc'[c] \in MainGone
      PROVE  /\ Of("main", s)' \cap Running' = {}
             /\ pc'[c] \in SideGone => Of("side", s)' \cap Running' = {}
             /\ pc'[c] \in DnsGone => s \notin scutil' \ lost'
  <2>0. s # None /\ cur[c] = s /\ Settled(s) /\ Faithful(s)
    BY <1>0, <1>1, StopPc, SessionAssumption DEF RecordInv
  <2>1. \A k \in {"main", "side"} : \A q \in Of(k, s)' : q \in Of(k, s) /\ (q \in Running' => q \in Running)
    BY <2>0, SettledStep
  <2>2. Of("main", s) \cap Running = {} \/ "dead" \in SessionAlive(s)
    BY <1>0, <1>1, <2>0, StopPc DEF StopInv
  <2>3. "dead" \in SessionAlive(s) => Of("main", s) \cap Running = {}
    BY <1>0, <2>0, DeadIs DEF SessionAlive
  <2>4. ASSUME pc'[c] \in SideGone
        PROVE  Of("side", s)' \cap Running' = {}
    <3>1. \/ Of("side", s) \cap Running = {}
          \/ "dead" \in SidecarAlive(s)
          \/ proc' = Ends(info[s].side)
      BY <1>0, <1>1, <2>0, <2>4, StopPc DEF StopInv
    <3>2. "dead" \in SidecarAlive(s) => Of("side", s) \cap Running = {}
      BY <2>0, DeadIs
    <3>3. ASSUME proc' = Ends(info[s].side), NEW q \in Of("side", s)'
          PROVE  q \notin Running'
      <4>1. q \in Of("side", s) /\ q \in Pid /\ info[s].side = q
        BY <1>0, <2>1, <3>3 DEF Of, ProcInv
      <4>2. proc'[q].st # "running"
        BY <1>0, <3>3, <4>1, EndsIs DEF TypeOK, Ends, Ended, FreePid, Process
      <4> QED
        BY <4>2 DEF Running
    <3> QED
      BY <2>1, <3>1, <3>2, <3>3
  <2>5. ASSUME pc'[c] \in DnsGone
        PROVE  s \notin scutil' \ lost'
    <3>1. s \notin scutil \ lost \/ (RestoreDNS(s) /\ lost' = lost)
      BY <1>0, <1>1, <2>0, <2>5, StopPc DEF StopInv
    <3>2. RestoreDNS(s) /\ lost' = lost => s \notin scutil' \ lost'
      BY <1>0 DEF RestoreDNS, ProcInv
    <3> QED
      BY <2>0, <3>1, <3>2, SettledStep
  <2> QED
    BY <2>1, <2>2, <2>3, <2>4, <2>5
<1>2. \A c \in Client : pc'[c] \in SideGone \cup DnsGone => pc'[c] \in MainGone
  BY DEF SideGone, DnsGone, MainGone
<1>3. \A c \in Client : cur'[c] # None => cur'[c] \in Sess
  BY <1>0 DEF TypeOK
<1>4. \A c \in Client : pc'[c] \in StopStep \ {"load"} => cur'[c] # None
  BY StopPc
<1> QED
  BY <1>1, <1>2, <1>3, <1>4 DEF StopInv

\* Ending a process of a session ends no other.
LEMMA EndsOwn ==
  ASSUME TypeOK, NEW k \in {"main", "side"}, NEW s \in Sess, NEW p \in Of(k, s), proc' \in {proc, Ends(p)}
  PROVE  ~Stray(s, k)
<1>1. ASSUME NEW q \in Pid, proc'[q].st # proc[q].st
      PROVE  proc[q].kind = k /\ proc[q].sess = s
  <2>1. q = p
    BY <1>1 DEF TypeOK, Ends, Of
  <2> QED
    BY <2>1 DEF Of
<1> QED
  BY <1>1 DEF Stray

\* A failed start that undoes itself signals its own processes.
LEMMA StrayStep == IInv /\ [Next]_vars => StartupSignalsItsOwn'
<1> SUFFICES ASSUME IInv, [Next]_vars PROVE StartupSignalsItsOwn'
  OBVIOUS
<1>0. TypeOK /\ ProcInv /\ StartInv /\ StartupSignalsItsOwn
  BY DEF IInv
<1>1. ASSUME NEW c \in Client, UndoKill(c)
      PROVE  ~stray'
  <2> DEFINE s == mine[c]
  <2>1. s \in Sess /\ info[s].main # None
        /\ (info[s].mode = "helper" \/ info[s].main \in Of("main", s))
    BY <1>0, <1>1 DEF UndoKill, StartInv, StartStep, Spawned, TypeOK
  <2>2. CASE SignalMain(s, TRUE)
    <3>1. info[s].main \in Of("main", s)
      <4>1. CASE Runs("main", s)
        <5>1. PICK p \in Pid : proc[p].kind = "main" /\ proc[p].sess = s
          BY <4>1 DEF Runs
        <5>2. info[s].main = p
          BY <1>0, <2>1, <5>1 DEF ProcInv
        <5> QED
          BY <5>1, <5>2 DEF Of
      <4> QED
        BY <2>1, <2>2, <4>1 DEF SignalMain
    <3>2. proc' \in {proc, Ends(info[s].main)}
      BY <2>2 DEF SignalMain, SignalGroup
    <3>3. ~Stray(s, "main")
      BY <1>0, <2>1, <3>1, <3>2, EndsOwn
    <3> QED
      BY <1>0, <1>1, <3>3 DEF UndoKill, StartupSignalsItsOwn
  <2>3. CASE proc' = proc
    BY <1>0, <1>1, <2>3 DEF UndoKill, Stray, StartupSignalsItsOwn
  <2> QED
    BY <1>1, <2>2, <2>3 DEF UndoKill
<1>2. ASSUME NEW c \in Client, UndoSide(c)
      PROVE  ~stray'
  <2> DEFINE s == mine[c]
  <2>1. s \in Sess /\ s # None /\ info[s].side \in Pid \cup {None}
    BY <1>0, <1>2, SessionAssumption DEF UndoSide, StartInv, StartStep, TypeOK, Info
  <2>2. CASE "alive" \in SidecarAlive(s) /\ SignalGroup(info[s].side, TRUE)
    <3>1. info[s].side \in Of("side", s)
      BY <2>1, <2>2 DEF SidecarAlive, Seen, Of
    <3>2. proc' \in {proc, Ends(info[s].side)}
      BY <2>2 DEF SignalGroup
    <3>3. ~Stray(s, "side")
      BY <1>0, <2>1, <3>1, <3>2, EndsOwn
    <3> QED
      BY <1>0, <1>2, <3>3 DEF UndoSide, StartupSignalsItsOwn
  <2>3. CASE proc' = proc
    BY <1>0, <1>2, <2>3 DEF UndoSide, Stray, StartupSignalsItsOwn
  <2> QED
    BY <1>2, <2>2, <2>3 DEF UndoSide
<1>3. ASSUME NEW c \in Client, CommandStep(c), ~UndoKill(c), ~UndoSide(c)
      PROVE  stray' = stray
  BY <1>3, ZenonT(60) DEF CommandStep, Run, Check, Prepare, Recheck, Load, Observe, Term, Poll,
     PollTimeout, Kill, Side, SideTerm, SidePoll, SideKill, Restore, Clear, Guard, Orphans, KillOrphan,
     OrphansDone, StartSidecar, SidecarStarted, Spawn, SpawnFails, Identify, SaveMetadata, Stable,
     HandOffDNS, Ready, SaveCurrent, UndoDNS, UndoClear, Leave, Interrupt
<1>4. (\E p \in Pid : Exit(p) \/ ReusePid(p)) \/ UNCHANGED vars => stray' = stray
  BY DEF Exit, ReusePid, vars
<1> QED
  BY <1>0, <1>1, <1>2, <1>3, <1>4 DEF Next, StartupSignalsItsOwn

-----------------------------------------------------------------------------
(* What holds of any number of commands *)

\* Every step keeps the invariant.
LEMMA Inductive == IInv /\ [Next]_vars => IInv'
  BY TypeStep, ProcStep, StartInvStep, RecordStep, StopInvStep, StrayStep DEF IInv

\* The invariant holds of every behaviour of the commands.
THEOREM InvariantHolds == Spec => []IInv
  BY InitIInv, Inductive, PTL DEF Spec

\* Every variable of the model keeps its type.
THEOREM TypeCorrect == Spec => []TypeOK
<1>1. IInv => TypeOK
  BY DEF IInv
<1> QED
  BY <1>1, InvariantHolds, PTL

\* A stop that reports "stopped", "stale" or "killed" for a session has ended its sing-box
\* and its sidecar and withdrawn its resolver entry, whatever other commands do meanwhile.
THEOREM StopReportsHonestly == Spec => []StopHonest
<1>1. IInv => StopHonest
  <2> SUFFICES ASSUME IInv, NEW c \in Client, pc[c] = "stopped", cur[c] # None
               PROVE  /\ ~Runs("main", cur[c])
                      /\ ~Runs("side", cur[c])
                      /\ cur[c] \in scutil => cur[c] \in lost
    BY DEF StopHonest
  <2>1. /\ Of("main", cur[c]) \cap Running = {}
        /\ Of("side", cur[c]) \cap Running = {}
        /\ cur[c] \notin scutil \ lost
    BY DEF IInv, StopInv, MainGone, SideGone, DnsGone
  <2> QED
    BY <2>1 DEF Runs, Of, Running
<1> QED
  BY <1>1, InvariantHolds, PTL

\* The clean-up of a failed start signals nothing but the processes this start spawned,
\* although pids are reused, the command does not wait for its children and other commands
\* run meanwhile.
THEOREM FailedStartSignalsItsOwn == Spec => []StartupSignalsItsOwn
<1>1. IInv => StartupSignalsItsOwn
  BY DEF IInv
<1> QED
  BY <1>1, InvariantHolds, PTL

-----------------------------------------------------------------------------
(* What holds of commands that run one after the other.  A second command   *)
(* may replace the record under the first: see RunningRecordKept.           *)

OneCommand == \A c, d \in Client : c = d

\* Start before the DNS hand-off, once it has cleaned up orphans, and once it has undone
\* the hand-off and the sing-box.
BeforeDns    == BeforeSpawn \cup {"identify", "metadata", "stable", "dns"}
AfterOrphans == {"sidecar", "sideWait", "spawn", "identify", "started"} \cup Identified
DnsUndone    == {"undoKill", "undoSide", "undoClear"}
MainUndone   == {"undoSide", "undoClear"}

\* A Start drops no record but one it has given up, and a Stop is at the recorded session.
SoloRecord ==
  \A c \in Client :
    /\ pc[c] \in StartStep \cup {"guard"} /\ record \in Sess => record \in lost
    /\ pc[c] \in StopStep \ {"load"} => record = cur[c]

\* What a failed Start leaves behind is lost or undone.
SoloUndo ==
  \A c \in Client :
    /\ pc[c] \in MainUndone => mine[c] \in lost \/ Of("main", mine[c]) \cap Running = {}
    /\ pc[c] \in DnsUndone => mine[c] \notin scutil \ lost
    /\ pc[c] \in BeforeDns => info[mine[c]].dns = "none"

\* The servers of the proxy are restored before the session goes.
SoloServers ==
  /\ \A c \in Client : pc[c] \in DnsUndone \cup {"clear"} /\ servers = "proxy" => lost # {}
  /\ \A s \in Sess : info[s].restore = "proxy" => lost # {}

\* Orphan sidecars are found before the sidecar starts.
SoloSide ==
  \A c \in Client :
    /\ pc[c] = "started" => mine[c] # None
    /\ pc[c] = "orphan" => \A p \in Running : proc[p].kind = "side" => p \in targets[c]
    /\ pc[c] \in AfterOrphans /\ info[mine[c]].engine = "xray" =>
         \A s \in Sess \ {mine[c]} : Of("side", s) \cap Running = {}

SoloInv == SoloRecord /\ SoloUndo /\ SoloServers /\ SoloSide /\ NothingLost /\ DnsRestorable

\* The command and its environment: nothing else takes a step.
LEMMA SoloStep ==
  ASSUME OneCommand, [Next]_vars, NEW c \in Client
  PROVE  CommandStep(c) \/ UNCHANGED <<record, info, used, scutil, servers, pc, cmdVars, lost>>
<1>1. (\E p \in Pid : Exit(p) \/ ReusePid(p)) \/ UNCHANGED vars =>
        UNCHANGED <<record, info, used, scutil, servers, pc, cmdVars, lost>>
  BY DEF Exit, ReusePid, vars, osVars, cmdVars
<1> QED
  BY <1>1 DEF Next, OneCommand

\* The steps of the command in order.
LEMMA SoloPc ==
  ASSUME OneCommand, IInv, [Next]_vars, NEW c \in Client
  PROVE  /\ pc'[c] \in MainUndone => pc[c] \in MainUndone \/ UndoKill(c) \/ SpawnFails(c)
         /\ pc'[c] \in DnsUndone => pc[c] \in DnsUndone \/ UndoDNS(c) \/ SpawnFails(c)
         /\ pc'[c] \in BeforeDns => (pc[c] \in BeforeDns /\ ~HandOffDNS(c)) \/ Guard(c)
         /\ pc'[c] = "clear" => pc[c] = "clear" \/ (Restore(c) /\ RestoreDNS(cur[c]))
         /\ pc'[c] = "orphan" => pc[c] = "orphan" \/ Orphans(c)
         /\ pc'[c] \in AfterOrphans => pc[c] \in AfterOrphans \/ OrphansDone(c) \/ Guard(c)
         /\ pc'[c] = "started" => pc[c] \in StartStep \cup {"started"} /\ mine'[c] = mine[c]
         /\ pc[c] \in StartStep /\ pc'[c] \notin StartStep =>
              pc[c] \in BeforeSpawn \cup {"undoClear"} \/ record' = mine[c] \/ mine[c] \in lost'
         /\ record' = record \/ pc[c] \in StartStep \cup {"clear"}
<1>0. pc \in [Client -> Step] /\ mine \in [Client -> Sess \cup {None}]
  BY DEF IInv, TypeOK
<1> USE DEF MainUndone, DnsUndone, BeforeDns, BeforeSpawn, BeforeSide, AfterOrphans, Identified, StartStep
<1>1. CommandStep(c) =>
        /\ pc'[c] \in MainUndone => pc[c] \in MainUndone \/ UndoKill(c) \/ SpawnFails(c)
        /\ pc'[c] \in DnsUndone => pc[c] \in DnsUndone \/ UndoDNS(c) \/ SpawnFails(c)
        /\ pc'[c] \in BeforeDns => (pc[c] \in BeforeDns /\ ~HandOffDNS(c)) \/ Guard(c)
  BY <1>0, ZenonT(60) DEF CommandStep, Run, Check, Prepare, Recheck, Load, Observe, Term, Poll,
     PollTimeout, Kill, Side, SideTerm, SidePoll, SideKill, Restore, Clear, Guard, Orphans, KillOrphan,
     OrphansDone, StartSidecar, SidecarStarted, Spawn, SpawnFails, Identify, SaveMetadata, Stable,
     HandOffDNS, Ready, SaveCurrent, UndoDNS, UndoKill, UndoSide, UndoClear, Leave, Interrupt, Undo,
     Follow, Stopped, SaveFails, Goto, cmdVars
<1>2. CommandStep(c) =>
        /\ pc'[c] = "clear" => pc[c] = "clear" \/ (Restore(c) /\ RestoreDNS(cur[c]))
        /\ pc'[c] = "orphan" => pc[c] = "orphan" \/ Orphans(c)
        /\ pc'[c] \in AfterOrphans => pc[c] \in AfterOrphans \/ OrphansDone(c) \/ Guard(c)
        /\ pc'[c] = "started" => pc[c] \in StartStep \cup {"started"} /\ mine'[c] = mine[c]
  BY <1>0, ZenonT(60) DEF CommandStep, Run, Check, Prepare, Recheck, Load, Observe, Term, Poll,
     PollTimeout, Kill, Side, SideTerm, SidePoll, SideKill, Restore, Clear, Guard, Orphans, KillOrphan,
     OrphansDone, StartSidecar, SidecarStarted, Spawn, SpawnFails, Identify, SaveMetadata, Stable,
     HandOffDNS, Ready, SaveCurrent, UndoDNS, UndoKill, UndoSide, UndoClear, Leave, Interrupt, Undo,
     Follow, Stopped, SaveFails, Goto, cmdVars
<1>3. CommandStep(c) =>
        /\ pc[c] \in StartStep /\ pc'[c] \notin StartStep =>
             pc[c] \in BeforeSpawn \cup {"undoClear"} \/ record' = mine[c] \/ mine[c] \in lost'
        /\ record' = record \/ pc[c] \in StartStep \cup {"clear"}
  BY <1>0, ZenonT(60) DEF CommandStep, Run, Check, Prepare, Recheck, Load, Observe, Term, Poll,
     PollTimeout, Kill, Side, SideTerm, SidePoll, SideKill, Restore, Clear, Guard, Orphans, KillOrphan,
     OrphansDone, StartSidecar, SidecarStarted, Spawn, SpawnFails, Identify, SaveMetadata, Stable,
     HandOffDNS, Ready, SaveCurrent, UndoDNS, UndoKill, UndoSide, UndoClear, Leave, Interrupt, Undo,
     Follow, Stopped, SaveFails, Goto, cmdVars
<1>4. UNCHANGED <<record, info, used, scutil, servers, pc, cmdVars, lost>> =>
        /\ pc'[c] \in MainUndone => pc[c] \in MainUndone \/ UndoKill(c) \/ SpawnFails(c)
        /\ pc'[c] \in DnsUndone => pc[c] \in DnsUndone \/ UndoDNS(c) \/ SpawnFails(c)
        /\ pc'[c] \in BeforeDns => (pc[c] \in BeforeDns /\ ~HandOffDNS(c)) \/ Guard(c)
        /\ pc'[c] = "clear" => pc[c] = "clear" \/ (Restore(c) /\ RestoreDNS(cur[c]))
        /\ pc'[c] = "orphan" => pc[c] = "orphan" \/ Orphans(c)
        /\ pc'[c] \in AfterOrphans => pc[c] \in AfterOrphans \/ OrphansDone(c) \/ Guard(c)
        /\ pc'[c] = "started" => pc[c] \in StartStep \cup {"started"} /\ mine'[c] = mine[c]
        /\ pc[c] \in StartStep /\ pc'[c] \notin StartStep =>
             pc[c] \in BeforeSpawn \cup {"undoClear"} \/ record' = mine[c] \/ mine[c] \in lost'
        /\ record' = record \/ pc[c] \in StartStep \cup {"clear"}
  BY <1>0 DEF cmdVars, HandOffDNS, Undo, Goto
<1> QED
  BY <1>1, <1>2, <1>3, <1>4, SoloStep

\* What is answered for stays so, but for the session whose record is cleared and the one
\* whose start ends before its sing-box or after it was undone.
LEMMA AnsweredStep ==
  ASSUME OneCommand, IInv, SoloInv, [Next]_vars, NEW s \in Sess, Answered(s)
  PROVE  \/ Answered(s)' \/ s \in lost
         \/ \E c \in Client : \/ record = s /\ pc[c] = "clear"
                              \/ mine[c] = s /\ pc[c] \in BeforeSpawn \cup {"undoClear"}
<1>0. lost \subseteq lost'
  BY DnsMoves
<1>1. CASE record = s
  <2>1. CASE record' = record
    BY <1>1, <2>1 DEF Answered
  <2>2. CASE record' # record
    <3>1. CASE \E c \in Client : pc[c] \in StartStep \cup {"clear"}
      BY <1>1, <3>1 DEF SoloInv, SoloRecord
    <3>2. CASE Client = {}
      BY <2>2, <3>2 DEF Next, Exit, ReusePid, vars
    <3> QED
      BY <2>2, <3>1, <3>2, SoloPc
  <2> QED
    BY <2>1, <2>2
<1>2. ASSUME NEW c \in Client, mine[c] = s, pc[c] \in StartStep
      PROVE  Answered(s)' \/ pc[c] \in BeforeSpawn \cup {"undoClear"}
  <2>1. CASE pc'[c] \in StartStep
    <3>1. mine'[c] = s
      BY <1>2, <2>1, MineMoves DEF Guard, StartStep
    <3> QED
      BY <2>1, <3>1 DEF Answered
  <2>2. CASE pc'[c] \notin StartStep
    BY <1>2, <2>2, SoloPc DEF Answered
  <2> QED
    BY <2>1, <2>2
<1> QED
  BY <1>1, <1>2 DEF Answered

\* The record belongs to the command that is at work.
LEMMA SoloRecordStep == OneCommand /\ IInv /\ SoloInv /\ [Next]_vars => SoloRecord'
<1> SUFFICES ASSUME OneCommand, IInv, SoloInv, [Next]_vars, NEW c \in Client
             PROVE  /\ pc'[c] \in StartStep \cup {"guard"} /\ record' \in Sess => record' \in lost'
                    /\ pc'[c] \in StopStep \ {"load"} => record' = cur'[c]
  BY DEF SoloRecord
<1>0. /\ pc \in [Client -> Step] /\ cur \in [Client -> Sess \cup {None}]
      /\ pc[c] \in StartStep \cup {"guard"} /\ record \in Sess => record \in lost
      /\ pc[c] \in StopStep \ {"load"} => record = cur[c]
  BY DEF IInv, TypeOK, SoloInv, SoloRecord
<1>n. "none" \in CurrentState => record \notin Sess
  BY SeenIs, SessionAssumption DEF CurrentState
<1>r. Recheck(c) => (pc'[c] \in StartStep \cup {"guard"} /\ record' \in Sess => record' \in lost')
  BY <1>0, <1>n DEF Recheck, Goto, StartStep
<1>s. CommandStep(c) /\ ~Recheck(c) /\ pc'[c] \in StartStep \cup {"guard"} =>
        pc[c] \in StartStep \cup {"guard"} \/ record' = None
  BY <1>0, ZenonT(60) DEF CommandStep, Run, Check, Prepare, Load, Observe, Term, Poll, PollTimeout, Kill,
     Side, SideTerm, SidePoll, SideKill, Restore, Clear, Guard, Orphans, KillOrphan, OrphansDone,
     StartSidecar, SidecarStarted, Spawn, SpawnFails, Identify, SaveMetadata, Stable, HandOffDNS, Ready,
     SaveCurrent, UndoDNS, UndoKill, UndoSide, UndoClear, Leave, Interrupt, Undo, Follow, Stopped, Goto,
     StartStep
<1>t. CommandStep(c) /\ pc'[c] \in StartStep \cup {"guard"} => record' \in {record, None, "corrupt"}
  BY <1>0, ZenonT(60) DEF CommandStep, Run, Check, Prepare, Recheck, Load, Observe, Term, Poll,
     PollTimeout, Kill, Side, SideTerm, SidePoll, SideKill, Restore, Clear, Guard, Orphans, KillOrphan,
     OrphansDone, StartSidecar, SidecarStarted, Spawn, SpawnFails, Identify, SaveMetadata, Stable,
     HandOffDNS, Ready, SaveCurrent, UndoDNS, UndoKill, UndoSide, UndoClear, Leave, Interrupt, SaveFails,
     Goto, StartStep
<1>1. CommandStep(c) => (pc'[c] \in StartStep \cup {"guard"} /\ record' \in Sess => record' \in lost')
  BY <1>0, <1>r, <1>s, <1>t, DnsMoves, SessionAssumption
<1>2. CommandStep(c) => (pc'[c] \in StopStep \ {"load"} => record' = cur'[c])
  BY <1>0, ZenonT(60) DEF CommandStep, Run, Check, Prepare, Recheck, Load, Observe, Term, Poll,
     PollTimeout, Kill, Side, SideTerm, SidePoll, SideKill, Restore, Clear, Guard, Orphans, KillOrphan,
     OrphansDone, StartSidecar, SidecarStarted, Spawn, SpawnFails, Identify, SaveMetadata, Stable,
     HandOffDNS, Ready, SaveCurrent, UndoDNS, UndoKill, UndoSide, UndoClear, Leave, Interrupt, Undo,
     Follow, Stopped, Goto, StopStep, cmdVars
<1>3. UNCHANGED <<record, pc, cmdVars, lost>> =>
        /\ pc'[c] \in StartStep \cup {"guard"} /\ record' \in Sess => record' \in lost'
        /\ pc'[c] \in StopStep \ {"load"} => record' = cur'[c]
  BY <1>0 DEF cmdVars
<1> QED
  BY <1>1, <1>2, <1>3, SoloStep

\* A start that is undone leaves nothing that is not lost.
LEMMA SoloUndoStep == OneCommand /\ IInv /\ SoloInv /\ [Next]_vars => SoloUndo'
<1> SUFFICES ASSUME OneCommand, IInv, SoloInv, [Next]_vars PROVE SoloUndo'
  OBVIOUS
<1>0. TypeOK /\ ProcInv /\ StartInv /\ SoloUndo /\ TypeOK' /\ StartInv'
  BY TypeStep, StartInvStep DEF IInv, SoloInv
<1>1. ASSUME NEW c \in Client, NEW s \in Sess, mine[c] = s, pc[c] \in BeforeDns
      PROVE  s \notin scutil \ lost
  BY <1>0, <1>1 DEF SoloUndo, ProcInv
<1>2. ASSUME NEW c \in Client, NEW s \in Sess, mine'[c] = s, pc'[c] \in MainUndone
      PROVE  s \in lost' \/ Of("main", s)' \cap Running' = {}
  <2>0. pc'[c] \in StartStep /\ (pc[c] \in StartStep => mine[c] = s)
    BY <1>2, MineMoves DEF MainUndone, StartStep, Guard
  <2>1. CASE pc[c] \in MainUndone
    <3>1. mine[c] = s /\ (s \in lost \/ Of("main", s) \cap Running = {})
      BY <1>0, <2>0, <2>1 DEF SoloUndo, MainUndone, StartStep
    <3>2. ~\E d \in Client : mine[d] = s /\ (Spawn(d) \/ SpawnFails(d))
      BY <2>1 DEF OneCommand, MainUndone, Spawn, SpawnFails
    <3> QED
      BY <3>1, <3>2, OfMoves, DnsMoves
  <2>2. CASE UndoKill(c)
    <3>1. mine[c] = s /\ info[s].main # None
      BY <1>0, <2>0, <2>2 DEF UndoKill, StartStep, StartInv, Spawned
    <3>2. CASE s \in lost'
      BY <3>2
    <3>3. CASE SignalMain(s, TRUE)
      <4>1. proc' = Ends(info[s].main)
        BY <3>3 DEF SignalMain, SignalGroup
      <4>2. ~\E d \in Client : mine[d] = s /\ (Spawn(d) \/ SpawnFails(d))
        BY <2>2 DEF OneCommand, UndoKill, Spawn, SpawnFails
      <4>3. ASSUME NEW q \in Of("main", s)'
            PROVE  q \notin Running'
        <5>1. q \in Of("main", s) /\ q \in Pid
          BY <4>2, <4>3, OfMoves DEF Of
        <5>2. info[s].main = q
          BY <1>0, <3>1, <5>1 DEF ProcInv, Of
        <5>3. proc'[q].st # "running"
          BY <1>0, <4>1, <5>1, <5>2 DEF TypeOK, Ends, Ended, FreePid, Process
        <5> QED
          BY <5>3 DEF Running
      <4> QED
        BY <4>3
    <3> QED
      BY <2>2, <3>1, <3>2, <3>3 DEF UndoKill
  <2>3. CASE SpawnFails(c)
    <3>1. mine[c] = s /\ Of("main", s) = {}
      BY <1>0, <2>0, <2>3 DEF SpawnFails, StartStep, StartInv, BeforeSpawn
    <3>2. proc' = proc \/ s \in lost'
      BY <2>3, <3>1 DEF SpawnFails
    <3> QED
      BY <3>1, <3>2 DEF Of
  <2> QED
    BY <1>2, <2>1, <2>2, <2>3, SoloPc
<1>3. ASSUME NEW c \in Client, NEW s \in Sess, mine'[c] = s, pc'[c] \in DnsUndone
      PROVE  s \notin scutil' \ lost'
  <2>0. pc'[c] \in StartStep /\ (pc[c] \in StartStep => mine[c] = s)
    BY <1>3, MineMoves DEF DnsUndone, StartStep, Guard
  <2>1. CASE pc[c] \in DnsUndone \/ SpawnFails(c)
    <3>1. mine[c] = s /\ s \notin scutil \ lost
      BY <1>0, <1>1, <2>0, <2>1 DEF SoloUndo, DnsUndone, StartStep, SpawnFails, BeforeDns, BeforeSpawn
    <3>2. ~\E d \in Client : mine[d] = s /\ HandOffDNS(d)
      BY <2>1 DEF OneCommand, DnsUndone, HandOffDNS, SpawnFails
    <3> QED
      BY <3>1, <3>2, DnsMoves
  <2>2. CASE UndoDNS(c)
    <3>1. mine[c] = s /\ (s \in scutil => info[s].dns = "scutil" \/ s \in lost)
      BY <1>0, <2>0, <2>2 DEF UndoDNS, StartStep, ProcInv
    <3> QED
      BY <2>2, <3>1 DEF UndoDNS, RestoreDNS
  <2> QED
    BY <1>3, <2>1, <2>2, SoloPc
<1>4. ASSUME NEW c \in Client, NEW s \in Sess, mine'[c] = s, pc'[c] \in BeforeDns
      PROVE  info'[s].dns = "none"
  <2>1. CASE pc[c] \in BeforeDns /\ ~HandOffDNS(c)
    <3>0. pc[c] \in StartStep /\ pc'[c] \in StartStep /\ ~Guard(c)
      BY <1>4, <2>1 DEF BeforeDns, BeforeSpawn, BeforeSide, StartStep, Guard
    <3>1. mine[c] = s /\ info[s].dns = "none" /\ s \in used
      BY <1>0, <1>4, <2>1, <3>0, MineMoves DEF SoloUndo, StartInv
    <3>2. ~\E d \in Client : HandOffDNS(d)
      BY <2>1 DEF OneCommand
    <3> QED
      BY <3>1, <3>2, InfoMoves DEF InfoMove, Keeps, KeepsDns
  <2>2. CASE Guard(c)
    <3>0. pc'[c] \in StartStep
      BY <1>4 DEF BeforeDns, BeforeSpawn, BeforeSide, StartStep
    <3>1. s \notin used
      BY <1>4, <2>2, <3>0, MineMoves DEF Guard, StartStep
    <3>a. mine[c] # s
      BY <1>0, <3>1, SessionAssumption DEF StartInv
    <3>2. PICK u \in Sess, m \in Mode, e \in Engine :
            mine' = [mine EXCEPT ![c] = u] /\ info' = [info EXCEPT ![u] = [NoInfo EXCEPT !.mode = m, !.engine = e]]
      BY <1>4, <2>2, <3>a DEF Guard
    <3>3. u = s /\ info'[s] = [NoInfo EXCEPT !.mode = m, !.engine = e]
      BY <1>0, <1>4, <3>2 DEF TypeOK
    <3> QED
      BY <3>3, Fresh, SessionAssumption
  <2> QED
    BY <1>4, <2>1, <2>2, SoloPc
<1>5. \A c \in Client : pc'[c] \in MainUndone \cup DnsUndone \cup BeforeDns => mine'[c] \in Sess
  BY <1>0 DEF TypeOK, StartInv, MainUndone, DnsUndone, BeforeDns, BeforeSpawn, BeforeSide, StartStep
<1> QED
  BY <1>2, <1>3, <1>4, <1>5 DEF SoloUndo

\* A running sing-box is still answered for.
LEMMA NothingLostStep == OneCommand /\ IInv /\ SoloInv /\ [Next]_vars => NothingLost'
<1> SUFFICES ASSUME OneCommand, IInv, SoloInv, [Next]_vars, NEW s \in Sess, NEW q \in Of("main", s)', q \in Running'
             PROVE  Answered(s)'
  BY DEF NothingLost, Runs, Of, Running
<1>0. TypeOK /\ StartInv /\ StopInv /\ NothingLost /\ SoloUndo /\ SoloRecord
  BY DEF IInv, SoloInv
<1>1. CASE \E c \in Client : mine[c] = s /\ (Spawn(c) \/ SpawnFails(c))
  <2>1. PICK c \in Client : mine[c] = s /\ (Spawn(c) \/ SpawnFails(c))
    BY <1>1
  <2>2. pc'[c] \in StartStep /\ mine'[c] = s
    BY <1>0, <2>1 DEF Spawn, SpawnFails, cmdVars, Goto, StartStep, TypeOK
  <2> QED
    BY <2>2 DEF Answered
<1>2. CASE ~\E c \in Client : mine[c] = s /\ (Spawn(c) \/ SpawnFails(c))
  <2>1. q \in Of("main", s) /\ q \in Running
    BY <1>2, OfMoves
  <2>2. Answered(s)
    BY <1>0, <2>1 DEF NothingLost, Runs, Of, Running
  <2>3. ASSUME NEW c \in Client, record = s, pc[c] = "clear"
        PROVE  FALSE
    BY <1>0, <2>1, <2>3, SessionAssumption DEF SoloRecord, StopStep, StopInv, MainGone
  <2>4. ASSUME NEW c \in Client, mine[c] = s, pc[c] \in BeforeSpawn
        PROVE  FALSE
    BY <1>0, <2>1, <2>4 DEF StartInv
  <2>5. ASSUME NEW c \in Client, mine[c] = s, pc[c] = "undoClear"
        PROVE  s \in lost
    BY <1>0, <2>1, <2>5 DEF SoloUndo, MainUndone
  <2>6. s \in lost => Answered(s)'
    BY DnsMoves DEF Answered
  <2> QED
    BY <2>2, <2>3, <2>4, <2>5, <2>6, AnsweredStep
<1> QED
  BY <1>1, <1>2

\* While nothing is lost, the servers of the proxy are the doing of the session at work.
LEMMA ServersOf ==
  ASSUME OneCommand, IInv, SoloInv, servers = "proxy", lost = {}, NEW c \in Client
  PROVE  /\ pc[c] \in StartStep => info[mine[c]].dns = "service"
         /\ pc[c] \in StopStep \ {"load"} => info[cur[c]].dns = "service"
<1>1. PICK t \in Sess : info[t].dns = "service" /\ Answered(t)
  BY DEF SoloInv, DnsRestorable
<1>2. \A d \in Client : d = c
  BY DEF OneCommand
<1>3. record = t \/ (mine[c] = t /\ pc[c] \in StartStep)
  BY <1>1, <1>2 DEF Answered
<1>4. StopStep \cap StartStep = {}
  BY DEF StopStep, StartStep
<1> QED
  BY <1>1, <1>3, <1>4 DEF SoloInv, SoloRecord

\* Who changes the servers.
LEMMA ServersMoves ==
  ASSUME OneCommand, IInv, SoloInv, [Next]_vars, NEW c \in Client
  PROVE  \/ servers' = servers
         \/ HandOffDNS(c) /\ (lost' # {} \/ info'[mine[c]].dns = "service")
         \/ Restore(c) /\ RestoreDNS(cur[c])
         \/ UndoDNS(c) /\ RestoreDNS(mine[c])
<1>0. TypeOK /\ StartInv /\ SoloUndo
  BY DEF IInv, SoloInv
<1>1. CommandStep(c) => \/ servers' = servers \/ HandOffDNS(c)
                        \/ Restore(c) /\ RestoreDNS(cur[c])
                        \/ UndoDNS(c) /\ RestoreDNS(mine[c])
  BY ZenonT(60) DEF CommandStep, Run, Check, Prepare, Recheck, Load, Observe, Term, Poll, PollTimeout,
     Kill, Side, SideTerm, SidePoll, SideKill, Restore, Clear, Guard, Orphans, KillOrphan, OrphansDone,
     StartSidecar, SidecarStarted, Spawn, SpawnFails, Identify, SaveMetadata, Stable, Ready, SaveCurrent,
     UndoDNS, UndoKill, UndoSide, UndoClear, Leave, Interrupt, osVars
<1>2. ASSUME HandOffDNS(c), servers' # servers
      PROVE  lost' # {} \/ info'[mine[c]].dns = "service"
  <2>1. mine[c] \in Sess /\ info[mine[c]].dns = "none"
    BY <1>0, <1>2 DEF HandOffDNS, StartInv, StartStep, TypeOK, SoloUndo, BeforeDns
  <2>2. CASE \E b \in BOOLEAN : Undo(c, b)
    <3>1. info'[mine[c]].dns = "none"
      BY <1>0, <2>1, <2>2, UndoKeeps DEF Keeps, KeepsDns
    <3> QED
      BY <1>2, <3>1 DEF HandOffDNS
  <2>3. CASE info' = [info EXCEPT ![mine[c]].dns = "service", ![mine[c]].restore = servers]
    <3>1. info \in [Sess -> Info] /\ servers \in {"own", "proxy"}
      BY <1>0 DEF TypeOK
    <3>2. info'[mine[c]] = [[info[mine[c]] EXCEPT !.dns = "service"] EXCEPT !.restore = servers]
      BY <2>1, <2>3, <3>1
    <3> DEFINE r == info[mine[c]]
    <3>3. r \in Info
      BY <2>1, <3>1
    <3> HIDE DEF r
    <3>4. [[r EXCEPT !.dns = "service"] EXCEPT !.restore = servers] =
            [mode |-> r.mode, engine |-> r.engine, main |-> r.main, side |-> r.side,
             ident |-> r.ident, dns |-> "service", restore |-> servers, clear |-> r.clear]
      BY <3>1, <3>3, SetDns
    <3> QED
      BY <3>2, <3>4 DEF r
  <2> QED
    BY <1>2, <2>2, <2>3 DEF HandOffDNS
<1> QED
  BY <1>1, <1>2, SoloStep

\* The proxy's servers are handed back.
LEMMA SoloServersStep == OneCommand /\ IInv /\ SoloInv /\ [Next]_vars => SoloServers'
<1> SUFFICES ASSUME OneCommand, IInv, SoloInv, [Next]_vars, lost' = {}
             PROVE  /\ \A c \in Client : pc'[c] \in DnsUndone \cup {"clear"} => servers' # "proxy"
                    /\ \A s \in Sess : info'[s].restore # "proxy"
  BY DEF SoloServers
<1>0. TypeOK /\ StartInv /\ StopInv /\ SoloUndo /\ SoloServers /\ lost = {}
  BY DnsMoves DEF IInv, SoloInv
<1>1. ASSUME NEW c \in Client, pc'[c] \in DnsUndone \cup {"clear"}, servers' = "proxy"
      PROVE  FALSE
  <2>1. ASSUME NEW s \in Sess, RestoreDNS(s), info[s].dns = "service" \/ servers # "proxy"
        PROVE  FALSE
    BY <1>0, <1>1, <2>1 DEF RestoreDNS, SoloServers
  <2>2. CASE pc[c] \in DnsUndone \cup {"clear"}
    <3>1. ~HandOffDNS(c) /\ ~Restore(c) /\ ~UndoDNS(c)
      BY <2>2 DEF DnsUndone, HandOffDNS, Restore, UndoDNS
    <3>2. servers' = servers
      BY <3>1, ServersMoves
    <3> QED
      BY <1>0, <1>1, <2>2, <3>2 DEF SoloServers
  <2>3. CASE UndoDNS(c)
    <3>1. mine[c] \in Sess /\ pc[c] \in StartStep /\ RestoreDNS(mine[c])
      BY <1>0, <2>3 DEF UndoDNS, StartInv, StartStep, TypeOK
    <3> QED
      BY <1>0, <2>1, <3>1, ServersOf
  <2>4. CASE Restore(c) /\ RestoreDNS(cur[c])
    <3>1. cur[c] \in Sess /\ pc[c] \in StopStep \ {"load"}
      BY <1>0, <2>4 DEF Restore, StopInv, StopStep, TypeOK
    <3> QED
      BY <1>0, <2>1, <2>4, <3>1, ServersOf
  <2>5. CASE SpawnFails(c)
    <3>1. pc[c] \in StartStep /\ info[mine[c]].dns = "none" /\ servers' = servers
      BY <1>0, <2>5 DEF SpawnFails, StartStep, SoloUndo, BeforeDns, BeforeSpawn
    <3> QED
      BY <1>0, <1>1, <3>1, ServersOf
  <2> QED
    BY <1>1, <2>2, <2>3, <2>4, <2>5, SoloPc
<1>2. ASSUME NEW s \in Sess, info'[s].restore = "proxy"
      PROVE  FALSE
  <2>1. CASE info'[s].restore = info[s].restore
    BY <1>0, <1>2, <2>1 DEF SoloServers
  <2>2. ASSUME NEW c \in Client, HandOffDNS(c), info'[s].restore = servers
        PROVE  FALSE
    <3>1. pc[c] \in StartStep /\ info[mine[c]].dns = "none"
      BY <1>0, <2>2 DEF HandOffDNS, StartStep, SoloUndo, BeforeDns
    <3> QED
      BY <1>0, <1>2, <2>2, <3>1, ServersOf
  <2> QED
    BY <1>2, <2>1, <2>2, InfoMoves DEF InfoMove, Keeps, KeepsDns
<1> QED
  BY <1>1, <1>2

\* The DNS settings a session replaced are still answered for.
LEMMA DnsRestorableStep == OneCommand /\ IInv /\ SoloInv /\ [Next]_vars => DnsRestorable'
<1> SUFFICES ASSUME OneCommand, IInv, SoloInv, [Next]_vars PROVE DnsRestorable'
  OBVIOUS
<1>0. TypeOK /\ TypeOK' /\ ProcInv /\ StartInv /\ RecordInv /\ StopInv /\ DnsRestorable /\ SoloUndo /\ SoloRecord
      /\ SoloServers
  BY TypeStep DEF IInv, SoloInv
<1>h. ASSUME NEW c \in Client, HandOffDNS(c), NEW s \in Sess, mine[c] = s
      PROVE  Answered(s)' /\ info[s].dns = "none"
  <2>1. info[s].dns = "none"
    BY <1>0, <1>h DEF HandOffDNS, SoloUndo, BeforeDns
  <2>2. pc'[c] \in StartStep /\ mine'[c] = s
    BY <1>0, <1>h DEF HandOffDNS, Undo, cmdVars, Goto, StartStep, TypeOK
  <2> QED
    BY <2>1, <2>2 DEF Answered
<1>1. ASSUME NEW s \in scutil'
      PROVE  Answered(s)'
  <2>0. s \in Sess
    BY <1>0, <1>1 DEF TypeOK
  <2>1. CASE \E c \in Client : HandOffDNS(c) /\ mine[c] = s
    BY <1>h, <2>0, <2>1
  <2>2. CASE ~\E c \in Client : HandOffDNS(c) /\ mine[c] = s
    <3>1. s \in scutil /\ Answered(s)
      BY <1>0, <1>1, <2>2, DnsMoves DEF DnsRestorable
    <3>2. s \in lost => Answered(s)'
      BY DnsMoves DEF Answered
    <3>3. ASSUME NEW c \in Client, record = s, pc[c] = "clear"
          PROVE  s \in lost
      BY <1>0, <2>0, <3>1, <3>3, SessionAssumption DEF SoloRecord, StopStep, StopInv, DnsGone
    <3>4. ASSUME NEW c \in Client, mine[c] = s, pc[c] \in BeforeSpawn \cup {"undoClear"}
          PROVE  s \in lost
      BY <1>0, <3>1, <3>4 DEF SoloUndo, ProcInv, BeforeDns, DnsUndone
    <3> QED
      BY <2>0, <3>1, <3>2, <3>3, <3>4, AnsweredStep
  <2> QED
    BY <2>1, <2>2
<1>2. ASSUME servers' = "proxy", lost' = {}
      PROVE  \E s \in Sess : info'[s].dns = "service" /\ Answered(s)'
  <2>0. lost = {}
    BY <1>2, DnsMoves
  <2>1. CASE servers = "proxy"
    <3>1. PICK s \in Sess : info[s].dns = "service" /\ Answered(s)
      BY <1>0, <2>0, <2>1 DEF DnsRestorable
    <3>2. s \in used
      BY <1>0, <2>0, <3>1, SessionAssumption DEF Answered, RecordInv, Settled, StartInv
    <3>3. ~\E c \in Client : HandOffDNS(c) /\ mine[c] = s
      BY <1>h, <3>1
    <3>4. info'[s].dns = "service"
      BY <3>1, <3>2, <3>3, InfoMoves DEF InfoMove, Keeps, KeepsDns
    <3>5. ~\E c \in Client : pc[c] = "clear"
      BY <1>0, <2>0, <2>1 DEF SoloServers
    <3>6. ~\E c \in Client : mine[c] = s /\ pc[c] \in BeforeSpawn \cup {"undoClear"}
      BY <1>0, <2>0, <2>1, <3>1 DEF SoloServers, SoloUndo, BeforeDns, DnsUndone
    <3> QED
      BY <2>0, <3>1, <3>4, <3>5, <3>6, AnsweredStep
  <2>2. CASE servers' # servers
    <3>0. \A s \in Sess : ~(info[s].restore = "proxy")
      BY <1>0, <2>0 DEF SoloServers
    <3>1. \A s \in Sess : RestoreDNS(s) => FALSE
      BY <1>2, <2>2, <3>0 DEF RestoreDNS
    <3>2. CASE Client = {}
      BY <2>2, <3>2 DEF Next, Exit, ReusePid, vars, osVars
    <3>3. ASSUME NEW c \in Client
          PROVE  HandOffDNS(c) /\ mine[c] \in Sess /\ info'[mine[c]].dns = "service"
      <4>1. Restore(c) => cur[c] \in Sess
        BY <1>0 DEF Restore, StopInv, StopStep, TypeOK
      <4>2. UndoDNS(c) => mine[c] \in Sess
        BY <1>0 DEF UndoDNS, StartInv, StartStep, TypeOK
      <4>3. HandOffDNS(c) => mine[c] \in Sess
        BY <1>0 DEF HandOffDNS, StartInv, StartStep, TypeOK
      <4> QED
        BY <1>2, <2>2, <3>1, <4>1, <4>2, <4>3, ServersMoves
    <3> QED
      BY <1>h, <3>2, <3>3
  <2> QED
    BY <1>2, <2>1, <2>2
<1> QED
  BY <1>1, <1>2 DEF DnsRestorable

\* No sidecar of another session is left beside the one that starts.
LEMMA SoloSideStep == OneCommand /\ IInv /\ SoloInv /\ [Next]_vars => SoloSide'
<1> SUFFICES ASSUME OneCommand, IInv, SoloInv, [Next]_vars PROVE SoloSide'
  OBVIOUS
<1>0. TypeOK /\ TypeOK' /\ StartInv /\ StartInv' /\ SoloSide
  BY TypeStep, StartInvStep DEF IInv, SoloInv
<1>1. ASSUME NEW c \in Client, pc'[c] = "started"
      PROVE  mine'[c] # None
  <2>1. pc[c] \in StartStep \cup {"started"} /\ mine'[c] = mine[c]
    BY <1>1, SoloPc
  <2> QED
    BY <1>0, <2>1 DEF StartInv, SoloSide
<1>2. ASSUME NEW c \in Client, pc[c] = "orphan" \/ Orphans(c), NEW q \in Running', proc'[q].kind = "side"
      PROVE  q \in Running /\ proc[q].kind = "side"
  <2>1. q \in Pid /\ ProcMove(q) /\ proc'[q].st = "running"
    BY <1>2, ProcMoves DEF Running
  <2>2. ~\E d \in Client : StartSidecar(d)
    BY <1>2 DEF OneCommand, StartSidecar, Orphans
  <2>3. Stays(q)
    BY <1>2, <2>1, <2>2, ChildFields DEF ProcMove
  <2> QED
    BY <1>2, <2>1, <2>3 DEF Stays, Running
<1>3. ASSUME NEW c \in Client, pc'[c] = "orphan", NEW q \in Running', proc'[q].kind = "side"
      PROVE  q \in targets'[c]
  <2>1. CASE Orphans(c)
    <3>1. q \in Running /\ proc[q].kind = "side"
      BY <1>2, <1>3, <2>1
    <3>2. targets' = [targets EXCEPT ![c] = {p \in Pid : proc[p].st = "running" /\ proc[p].kind = "side"}]
      BY <1>0, <1>3, <2>1 DEF Orphans, Goto, TypeOK
    <3> QED
      BY <1>0, <3>1, <3>2 DEF Running, TypeOK
  <2>2. CASE pc[c] = "orphan"
    <3>1. q \in targets[c]
      BY <1>0, <1>2, <1>3, <2>2 DEF SoloSide
    <3>2. CASE targets' = targets
      BY <3>1, <3>2
    <3>3. CASE KillOrphan(c) /\ targets' # targets
      <4>1. PICK p \in targets[c] : proc'[p].st = "free" /\ targets' = [targets EXCEPT ![c] = @ \ {p}]
        BY <3>3 DEF KillOrphan
      <4>2. q # p
        BY <1>3, <4>1 DEF Running
      <4> QED
        BY <1>0, <3>1, <4>1, <4>2 DEF TypeOK
    <3>4. CommandStep(c) => targets' = targets \/ KillOrphan(c)
      BY <1>0, <1>3, <2>2 DEF CommandStep, Run, Check, Prepare, Recheck, Load, Observe, Term, Poll,
         PollTimeout, Kill, Side, SideTerm, SidePoll, SideKill, Restore, Clear, Guard, Orphans, OrphansDone,
         StartSidecar, SidecarStarted, Spawn, SpawnFails, Identify, SaveMetadata, Stable, HandOffDNS, Ready,
         SaveCurrent, UndoDNS, UndoKill, UndoSide, UndoClear, Leave, Interrupt, Goto, TypeOK
    <3> QED
      BY <3>2, <3>3, <3>4, SoloStep DEF cmdVars
  <2> QED
    BY <1>3, <2>1, <2>2, SoloPc
<1>4. ASSUME NEW c \in Client, NEW m \in Sess, mine'[c] = m, pc'[c] \in AfterOrphans, info'[m].engine = "xray",
             NEW s \in Sess \ {m}
      PROVE  Of("side", s)' \cap Running' = {}
  <2>1. CASE Guard(c)
    <3>1. pc'[c] = "spawn" /\ m \notin used
      BY <1>0, <1>4, <2>1, MineMoves, ZenonT(60) DEF Guard, Goto, AfterOrphans, Identified, StartStep, TypeOK
    <3>2. InfoMove(m) /\ \A d \in Client : d = c
      BY InfoMoves DEF OneCommand
    <3>3. mine[c] # m
      BY <1>0, <3>1, SessionAssumption DEF StartInv
    <3>4. PICK u \in Sess \ used, o \in Mode, e \in Engine :
            /\ mine' = [mine EXCEPT ![c] = u]
            /\ info' = [info EXCEPT ![u] = [NoInfo EXCEPT !.mode = o, !.engine = e]]
            /\ Goto(c, IF e = "xray" THEN "orphans" ELSE "spawn")
      <4>1. mine' # mine
        BY <1>4, <3>3
      <4> QED
        BY <2>1, <4>1, Zenon DEF Guard
    <3>5. u = m /\ info'[m] = [NoInfo EXCEPT !.mode = o, !.engine = e] /\ e # "xray"
      BY <1>0, <1>4, <3>1, <3>4 DEF TypeOK, Goto
    <3> QED
      BY <1>4, <3>5, Fresh, SessionAssumption
  <2>2. CASE ~Guard(c)
    <3>1. /\ pc[c] \in AfterOrphans \/ OrphansDone(c)
          /\ pc[c] \in StartStep \cup {"started"}
      BY <1>4, <2>2, SoloPc DEF AfterOrphans, Identified, OrphansDone, StartStep
    <3>2. mine[c] = m
      BY <1>4, <2>2, <3>1, MineMoves, SoloPc, SessionAssumption DEF StartStep
    <3>3. ~\E d \in Client : mine[d] = s /\ StartSidecar(d)
      BY <3>2 DEF OneCommand
    <3>4. Of("side", s) \cap Running = {}
      <4>1. CASE OrphansDone(c)
        <5>1. pc[c] = "orphan" /\ targets[c] = {}
          BY <1>0, <1>4, <4>1 DEF OrphansDone, Goto, AfterOrphans, Identified, TypeOK
        <5> QED
          BY <1>0, <5>1 DEF SoloSide, Of
      <4>2. CASE pc[c] \in AfterOrphans
        <5>1. m \in used
          BY <1>0, <3>2, SessionAssumption DEF StartInv
        <5>2. info[m].engine = "xray"
          BY <1>4, <5>1, InfoMoves DEF InfoMove, Keeps, KeepsPlan
        <5> QED
          BY <1>0, <3>2, <4>2, <5>2 DEF SoloSide
      <4> QED
        BY <3>1, <4>1, <4>2
    <3> QED
      BY <3>3, <3>4, OfMoves
  <2> QED
    BY <2>1, <2>2
<1>5. \A c \in Client : pc'[c] \in AfterOrphans => mine'[c] \in Sess
  BY <1>0, <1>1 DEF TypeOK, StartInv, AfterOrphans, Identified, StartStep
<1> QED
  BY <1>1, <1>3, <1>4, <1>5 DEF SoloSide

\* Every step of a command that runs alone keeps the invariant.
LEMMA SoloInductive == OneCommand /\ IInv /\ SoloInv /\ [Next]_vars => SoloInv'
  BY SoloRecordStep, SoloUndoStep, SoloServersStep, SoloSideStep, NothingLostStep, DnsRestorableStep
     DEF SoloInv

\* Nothing is at work at first.
LEMMA SoloInit == Init => SoloInv
<1> SUFFICES ASSUME Init PROVE SoloInv
  OBVIOUS
<1>1. SoloRecord /\ SoloUndo /\ SoloServers /\ SoloSide
  BY SessionAssumption DEF Init, SoloRecord, SoloUndo, SoloServers, SoloSide, NoInfo, StartStep, StopStep,
     MainUndone, DnsUndone, BeforeDns, BeforeSpawn, BeforeSide, AfterOrphans, Identified
<1>2. NothingLost /\ DnsRestorable
  BY DEF Init, NothingLost, DnsRestorable, Runs, FreePid
<1> QED
  BY <1>1, <1>2 DEF SoloInv

\* The invariant of commands that run one after the other.
THEOREM SoloInvariantHolds == ASSUME OneCommand PROVE Spec => []SoloInv
<1>1. IInv /\ SoloInv /\ [Next]_vars => SoloInv'
  BY SoloInductive
<1> QED
  BY <1>1, SoloInit, InvariantHolds, PTL DEF Spec

\* When commands run one after the other, a sing-box that runs can be found by the next
\* one: through every early return of Stop, every unreadable identity and every
\* interrupt, it is recorded unless a failed or killed start let it go.
THEOREM RunningSessionIsFound == ASSUME OneCommand PROVE Spec => []NothingLost
<1>1. SoloInv => NothingLost
  BY DEF SoloInv
<1> QED
  BY <1>1, SoloInvariantHolds, PTL

\* When commands run one after the other, the DNS settings a session replaced can be
\* restored by a later stop: the record that knows how stays until the restore succeeds.
THEOREM DnsIsRestorable == ASSUME OneCommand PROVE Spec => []DnsRestorable
<1>1. SoloInv => DnsRestorable
  BY DEF SoloInv
<1> QED
  BY <1>1, SoloInvariantHolds, PTL

\* When commands run one after the other, a session that has started with a sidecar is the
\* only one with a sidecar, whatever an earlier session left behind.
THEOREM SidecarIsFresh == ASSUME OneCommand PROVE Spec => []FreshSidecar
<1>1. SoloInv => FreshSidecar
  BY DEF SoloInv, SoloSide, FreshSidecar, AfterOrphans, Runs, Of, Running
<1> QED
  BY <1>1, SoloInvariantHolds, PTL

=============================================================================
