-------------------------- MODULE SystemFilesProofs --------------------------
(***************************************************************************)
(* Proofs about the parts of MCSystemFiles: the published socket, for any   *)
(* number of daemon lives, kills and replacements of the public entry; the  *)
(* removal of the runtime directory, for any number of uninstalls and of    *)
(* entries that others put at its path; the resolver files of the vpnc      *)
(* wrapper, for any domains, reconnects and programs beside it; and the     *)
(* interface audit, for any directories, names, sessions and programs.      *)
(***************************************************************************)
EXTENDS MCSystemFiles, Sequences, WellFoundedInduction, TLAPS

---------------------------------------------------------------------------
(* The published socket *)

\* What the daemon knows of the two paths between its system calls.
SocketOwnInv ==
  /\ pc \in {"chmod", "lstat", "rename"} => private = sock /\ sock # 0
  /\ pc \in {"lstat", "rename"} => private \in ready
  /\ pc = "rename" => identity = private
  /\ pc = "check" => identity = sock /\ sock # 0 /\ private = 0

SocketInv == Socket!TypeOK /\ SocketOwnInv /\ Socket!PublishedReady /\ Socket!BindFree

\* Every step keeps the types and creates each inode once.
LEMMA SocketTypeStep ==
  ASSUME Socket!MaxInodesAssumption, SocketInv, [Socket!Next]_socketVars
  PROVE  Socket!TypeOK'
<1> USE DEF SocketInv, Socket!TypeOK, Socket!Inodes, Socket!MaxInodesAssumption
<1>1. CASE Socket!Listen
  <2>1. CASE last' = last + 1 /\ private' = last' /\ sock' = last' /\ Socket!Goto("chmod")
    BY <1>1, <2>1 DEF Socket!Listen, Socket!Goto
  <2>2. CASE Socket!Goto("down") /\ UNCHANGED <<last, private, sock>>
    BY <1>1, <2>2 DEF Socket!Listen, Socket!Goto
  <2> QED
    BY <1>1, <2>1, <2>2 DEF Socket!Listen
<1>2. CASE Socket!SetRights
  <2>1. private # 0
    BY <1>2 DEF Socket!SetRights, SocketOwnInv
  <2> QED
    BY <1>2, <2>1 DEF Socket!SetRights, Socket!Goto
<1>3. CASE Socket!Replace
  <2>1. CASE public' = 0 /\ UNCHANGED <<pc, private, sock, identity, ready, foreign, last>>
    BY <2>1
  <2>2. CASE /\ last < MaxInodes
             /\ last' = last + 1 /\ public' = last' /\ foreign' = foreign \cup {last'}
             /\ UNCHANGED <<pc, private, sock, identity, ready>>
    BY <2>2
  <2> QED
    BY <1>3, <2>1, <2>2 DEF Socket!Replace
<1>4. CASE Socket!Start
  BY <1>4 DEF Socket!Start, Socket!Goto
<1>5. CASE Socket!VerifyDirectories
  BY <1>5 DEF Socket!VerifyDirectories, Socket!Goto
<1>6. CASE Socket!RemoveStale
  BY <1>6 DEF Socket!RemoveStale, Socket!Goto
<1>7. CASE Socket!InspectPrivate
  BY <1>7 DEF Socket!InspectPrivate, Socket!Goto
<1>8. CASE Socket!Publish
  <2>1. CASE public' = private /\ private' = 0 /\ Socket!Goto("check")
    BY <1>8, <2>1 DEF Socket!Publish, Socket!Goto
  <2>2. CASE Socket!Goto("abort") /\ UNCHANGED <<private, public>>
    BY <1>8, <2>2 DEF Socket!Publish, Socket!Goto
  <2> QED
    BY <1>8, <2>1, <2>2 DEF Socket!Publish
<1>9. CASE Socket!CheckPublic
  BY <1>9 DEF Socket!CheckPublic, Socket!Goto
<1>10. CASE Socket!Abort
  BY <1>10 DEF Socket!Abort, Socket!Goto
<1>11. CASE Socket!CloseListener
  BY <1>11 DEF Socket!CloseListener, Socket!Goto
<1>12. CASE Socket!InspectPublic
  BY <1>12 DEF Socket!InspectPublic, Socket!Goto
<1>13. CASE Socket!RemovePublic
  BY <1>13 DEF Socket!RemovePublic, Socket!Goto
<1>14. CASE Socket!Kill
  BY <1>14 DEF Socket!Kill, Socket!Goto
<1>15. CASE UNCHANGED socketVars
  BY <1>15 DEF socketVars
<1> QED
  BY <1>1, <1>2, <1>3, <1>4, <1>5, <1>6, <1>7, <1>8, <1>9, <1>10, <1>11, <1>12, <1>13, <1>14, <1>15
  DEF Socket!Next, Socket!Daemon

\* Only the own socket, with its rights, is at the private path when it is published, and
\* nobody but the daemon touches that path.
LEMMA SocketOwnStep ==
  ASSUME Socket!MaxInodesAssumption, SocketInv, [Socket!Next]_socketVars
  PROVE  SocketOwnInv' /\ Socket!PublishedReady' /\ Socket!BindFree'
<1> USE DEF SocketInv, SocketOwnInv, Socket!PublishedReady, Socket!BindFree
<1>1. CASE Socket!Listen
  <2>1. last + 1 # 0
    BY DEF Socket!TypeOK, Socket!Inodes, Socket!MaxInodesAssumption
  <2> QED
    BY <1>1, <2>1 DEF Socket!Listen, Socket!Goto
<1>2. CASE Socket!Start \/ Socket!VerifyDirectories \/ Socket!RemoveStale \/ Socket!SetRights \/ Socket!InspectPrivate \/ Socket!Publish
  BY <1>2 DEF Socket!Start, Socket!VerifyDirectories, Socket!RemoveStale, Socket!SetRights, Socket!InspectPrivate, Socket!Publish, Socket!Goto
<1>3. CASE Socket!CheckPublic \/ Socket!Abort \/ Socket!CloseListener \/ Socket!InspectPublic \/ Socket!RemovePublic \/ Socket!Kill
  BY <1>3 DEF Socket!CheckPublic, Socket!Abort, Socket!CloseListener, Socket!InspectPublic, Socket!RemovePublic, Socket!Kill, Socket!Goto
<1>4. CASE Socket!Replace
  BY <1>4 DEF Socket!Replace
<1>5. CASE UNCHANGED socketVars
  BY <1>5 DEF socketVars
<1> QED
  BY <1>1, <1>2, <1>3, <1>4, <1>5 DEF Socket!Next, Socket!Daemon

\* A daemon that begins to serve has its own listener at the public path.
LEMMA SocketServes ==
  ASSUME SocketInv, Socket!Next, pc # "serving", pc' = "serving"
  PROVE  public' = sock' /\ sock' # 0 /\ private' = 0
<1>1. Socket!CheckPublic
  BY DEF Socket!Next, Socket!Daemon, Socket!Start, Socket!VerifyDirectories, Socket!RemoveStale,
     Socket!Listen, Socket!SetRights, Socket!InspectPrivate, Socket!Publish, Socket!Abort,
     Socket!CloseListener, Socket!InspectPublic, Socket!RemovePublic, Socket!Kill, Socket!Replace,
     Socket!Goto
<1> QED
  BY <1>1 DEF SocketInv, SocketOwnInv, Socket!CheckPublic, Socket!Goto

\* Whatever is at the public path and was put there by a daemon has its owner and mode, a
\* start that gets to bind finds the private path free, however often daemons were killed
\* on the way, and a daemon that begins to serve has its own listener at the public path,
\* although another program may replace that entry at any time (preparePublishedSocket).
THEOREM SocketIsCorrect == Spec => SocketCorrect
<1>1. Init => SocketInv
  BY FilesAssumption
  DEF Init, Socket!Init, SocketInv, Socket!TypeOK, SocketOwnInv, Socket!PublishedReady,
      Socket!BindFree, Socket!Inodes, Socket!MaxInodesAssumption
<1>2. [Next]_vars => [Socket!Next]_socketVars
  BY DEF Next, vars, socketVars
<1>3. SocketInv /\ [Next]_vars => SocketInv'
  BY <1>2, SocketTypeStep, SocketOwnStep, FilesAssumption DEF SocketInv
<1>4. SocketInv /\ [Next]_vars =>
        [pc # "serving" /\ pc' = "serving" => public' = sock' /\ sock' # 0 /\ private' = 0]_(Socket!vars)
  BY <1>2, SocketServes DEF Socket!vars, socketVars
<1>5. SocketInv => (part = "socket" => Socket!TypeOK /\ Socket!PublishedReady /\ Socket!BindFree)
  BY DEF SocketInv
<1> QED
  BY <1>1, <1>3, <1>4, <1>5, PTL DEF Spec, SocketCorrect, Socket!ServesItsOwn

---------------------------------------------------------------------------
(* The removal of the runtime directory *)

Before == {"inspect", "unlink", "parents", "config", "mkdir", "secure", "rename"}
After  == {"helperDir", "verify", "succeeded", "failed"}

RemovingInv == removing \in [Op -> Before \cup {"moved", "remove"} \cup After]

\* An entry that exists or existed is older than the next one.
FreshInv ==
  /\ at # None => at.ino < nextIno
  /\ \A e \in away : e.ino < nextIno
  /\ \A o \in Op : quarantine[o].entry # None => quarantine[o].entry.ino < nextIno
  /\ \A o \in Op : \A e \in removed[o] : e.ino < nextIno

\* An entry is in one place only: at the path, moved away, or in one quarantine.
PlaceInv ==
  /\ at # None => at \notin away
  /\ at # None => \A o \in Op : quarantine[o].entry # at
  /\ \A o \in Op : quarantine[o].entry \notin away
  /\ \A o, p \in Op : o # p /\ quarantine[o].entry # None
                        => quarantine[o].entry # quarantine[p].entry

\* What was removed is in no place, and was removed by one command.
GoneInv ==
  /\ \A o \in Op : at \notin removed[o]
  /\ \A o \in Op : removed[o] \cap away = {}
  /\ \A o, p \in Op : quarantine[p].entry \notin removed[o]
  /\ \A o, p \in Op : o # p => removed[o] \cap removed[p] = {}

\* How far a command is tells what it has inspected, moved and removed.
CommandInv ==
  \A o \in Op :
    /\ removing[o] \in Before => quarantine[o].entry = None
    /\ removing[o] \in {"secure", "rename"} => quarantine[o].made
    /\ removing[o] \in {"inspect", "unlink"} => expected[o] = None
    /\ removing[o] \in {"parents", "config", "mkdir", "secure", "rename", "moved", "remove"}
         => expected[o] # None
    /\ removing[o] = "remove" => quarantine[o].entry = expected[o]
    /\ expected[o] # None => Removal!RootDir(expected[o])
    /\ removed[o] \subseteq {expected[o]} \ {None}
    /\ removing[o] = "succeeded" => ~runtimeErr[o]
    /\ removing[o] \in {"helperDir", "verify", "succeeded"} /\ ~runtimeErr[o] /\ expected[o] # None
         => expected[o] \in removed[o] /\ ~quarantine[o].made

RemovalInv == Removal!TypeOK /\ RemovingInv /\ FreshInv /\ PlaceInv /\ GoneInv /\ CommandInv

\* The places of the entries, as the steps that leave them alone see them.
places == <<at, away, nextIno, quarantine, removed>>

\* A step of a command that does not touch an entry.
Idle(o) ==
  \/ Removal!Inspect(o) \/ Removal!CheckParents(o) \/ Removal!CheckConfig(o) \/ Removal!SecureQuarantine(o)
  \/ Removal!CheckMoved(o) \/ Removal!RemoveHelperDir(o) \/ Removal!VerifyAbsent(o)

\* Such a step changes no place.
LEMMA IdleKeepsPlaces ==
  ASSUME NEW o \in Op, Idle(o)
  PROVE  UNCHANGED places
BY DEF Idle, places, Removal!Inspect, Removal!CheckParents, Removal!CheckConfig, Removal!SecureQuarantine, Removal!CheckMoved,
   Removal!RemoveHelperDir, Removal!VerifyAbsent

\* None is not an entry, and an entry has its fields.
LEMMA EntryFacts ==
  ASSUME Removal!RemovalAssumption
  PROVE  /\ None \notin Removal!Entry
         /\ MaxIno \in Nat /\ MaxIno >= 1
         /\ \A k \in Removal!Kind, r \in BOOLEAN, i \in 1..MaxIno :
              [kind |-> k, root |-> r, ino |-> i] \in Removal!Entry
         /\ \A e \in Removal!Entry : e.ino \in 1..MaxIno /\ e.kind \in Removal!Kind /\ e.root \in BOOLEAN
BY DEF Removal!RemovalAssumption, Removal!Entry

\* A quarantine whose content or existence changes.
LEMMA QuarantineRecord ==
  ASSUME NEW S, NEW q \in [made : BOOLEAN, entry : S], NEW e \in S, NEW b \in BOOLEAN
  PROVE  /\ [q EXCEPT !.entry = e] = [made |-> q.made, entry |-> e]
         /\ [q EXCEPT !.made = b] = [made |-> b, entry |-> q.entry]
<1>1. [q EXCEPT !.made = b] = [made |-> b, entry |-> q.entry]
  OBVIOUS
<1>2. [q EXCEPT !.entry = e] = [made |-> q.made, entry |-> e]
  OBVIOUS
<1> QED
  BY <1>1, <1>2

\* What mkdir and the rename make of the quarantines.
LEMMA QuarantineForms ==
  ASSUME Removal!TypeOK, NEW o \in Op, NEW e \in Removal!Maybe(Removal!Entry)
  PROVE  /\ [quarantine EXCEPT ![o].entry = e] =
              [p \in Op |-> IF p = o THEN [made |-> quarantine[o].made, entry |-> e] ELSE quarantine[p]]
         /\ [quarantine EXCEPT ![o].made = TRUE] =
              [p \in Op |-> IF p = o THEN [made |-> TRUE, entry |-> quarantine[o].entry] ELSE quarantine[p]]
<1>1. quarantine \in [Op -> [made : BOOLEAN, entry : Removal!Maybe(Removal!Entry)]]
  BY DEF Removal!TypeOK
<1>2. /\ [quarantine[o] EXCEPT !.entry = e] = [made |-> quarantine[o].made, entry |-> e]
      /\ [quarantine[o] EXCEPT !.made = TRUE] = [made |-> TRUE, entry |-> quarantine[o].entry]
  BY <1>1, QuarantineRecord
<1> QED
  BY <1>1, <1>2
\* What a step does to the entries: nothing, or one entry is created, moved away, moved
\* back, unlinked, moved into a quarantine or removed with it.
Stays == /\ UNCHANGED <<at, away, nextIno, removed>>
         /\ \A p \in Op : quarantine'[p].entry = quarantine[p].entry

Appears ==
  /\ at = None /\ at' \in Removal!Entry /\ at'.ino = nextIno /\ nextIno <= MaxIno
  /\ nextIno' = nextIno + 1 /\ UNCHANGED <<away, quarantine, removed>>

Goes ==
  /\ at # None /\ at' = None /\ away' \in {away, away \cup {at}}
  /\ UNCHANGED <<nextIno, quarantine, removed>>

Returns ==
  /\ at = None /\ at' \in away /\ away' = away \ {at'}
  /\ UNCHANGED <<nextIno, quarantine, removed>>

Enters(o) ==
  /\ removing[o] = "rename" /\ at # None /\ at' = None
  /\ \A p \in Op : quarantine'[p].entry = IF p = o THEN at ELSE quarantine[p].entry
  /\ UNCHANGED <<away, nextIno, removed>>

Leaves(o) ==
  /\ removing[o] = "remove"
  /\ \A p \in Op : quarantine'[p].entry = IF p = o THEN None ELSE quarantine[p].entry
  /\ removed' = [removed EXCEPT ![o] = @ \cup ({quarantine[o].entry} \ {None})]
  /\ UNCHANGED <<at, away, nextIno>>

\* Every step is one of these.
LEMMA EntryMoves ==
  ASSUME Removal!RemovalAssumption, Removal!TypeOK, [Removal!Next]_removalVars
  PROVE  Stays \/ Appears \/ Goes \/ Returns \/ \E o \in Op : Enters(o) \/ Leaves(o)
<1>1. CASE Removal!Create
  <2>1. nextIno \in 1..MaxIno
    BY <1>1, EntryFacts DEF Removal!Create, Removal!TypeOK
  <2>2. PICK k \in Removal!Kind, r \in BOOLEAN : at' = [kind |-> k, root |-> r, ino |-> nextIno]
    BY <1>1 DEF Removal!Create
  <2>3. at' \in Removal!Entry /\ at'.ino = nextIno
    BY <2>1, <2>2, EntryFacts
  <2> QED
    BY <1>1, <2>3 DEF Removal!Create, Appears
<1>2. CASE Removal!MoveAway
  BY <1>2 DEF Removal!MoveAway, Goes
<1>3. CASE Removal!MoveBack
  BY <1>3 DEF Removal!MoveBack, Returns
<1>4. CASE UNCHANGED removalVars
  BY <1>4 DEF removalVars, Stays
<1>5. ASSUME NEW o \in Op, Removal!Uninstall(o)
      PROVE  Stays \/ Goes \/ Enters(o) \/ Leaves(o)
  <2>1. CASE Idle(o)
    BY <2>1, IdleKeepsPlaces DEF places, Stays
  <2>2. CASE Removal!Unlink(o)
    BY <2>2 DEF Removal!Unlink, Stays, Goes
  <2>3. CASE Removal!MakeQuarantine(o)
    <3>1. CASE UNCHANGED quarantine
      BY <2>3, <3>1 DEF Removal!MakeQuarantine, Stays
    <3>2. CASE quarantine' = [quarantine EXCEPT ![o].made = TRUE]
      <4>1. quarantine' = [p \in Op |-> IF p = o THEN [made |-> TRUE, entry |-> quarantine[o].entry]
                                                 ELSE quarantine[p]]
        BY <3>2, QuarantineForms DEF Removal!Maybe
      <4>2. \A p \in Op : quarantine'[p].entry = quarantine[p].entry
        BY <4>1
      <4> QED
        BY <2>3, <4>2 DEF Removal!MakeQuarantine, Stays
    <3> QED
      BY <2>3, <3>1, <3>2 DEF Removal!MakeQuarantine
  <2>4. CASE Removal!Rename(o)
    <3>1. CASE UNCHANGED <<quarantine, at>>
      BY <2>4, <3>1 DEF Removal!Rename, Stays
    <3>2. CASE at # None /\ quarantine' = [quarantine EXCEPT ![o].entry = at] /\ at' = None
      <4>0. at \in Removal!Maybe(Removal!Entry)
        BY DEF Removal!TypeOK
      <4>1. quarantine' = [p \in Op |-> IF p = o THEN [made |-> quarantine[o].made, entry |-> at]
                                                 ELSE quarantine[p]]
        BY <3>2, <4>0, QuarantineForms
      <4>2. \A p \in Op : quarantine'[p].entry = IF p = o THEN at ELSE quarantine[p].entry
        BY <4>1
      <4> QED
        BY <2>4, <3>2, <4>2 DEF Removal!Rename, Enters
    <3> QED
      BY <2>4, <3>1, <3>2 DEF Removal!Rename
  <2>5. CASE Removal!RemoveQuarantine(o)
    <3>1. CASE UNCHANGED <<quarantine, removed>>
      BY <2>5, <3>1 DEF Removal!RemoveQuarantine, Stays
    <3>2. CASE /\ quarantine' = [quarantine EXCEPT ![o] = [made |-> FALSE, entry |-> None]]
               /\ removed' = [removed EXCEPT ![o] = @ \cup ({quarantine[o].entry} \ {None})]
      <4>1. \A p \in Op : quarantine'[p].entry = IF p = o THEN None ELSE quarantine[p].entry
        BY <3>2 DEF Removal!TypeOK
      <4> QED
        BY <2>5, <3>2, <4>1 DEF Removal!RemoveQuarantine, Leaves
    <3> QED
      BY <2>5, <3>1, <3>2 DEF Removal!RemoveQuarantine
  <2> QED
    BY <1>5, <2>1, <2>2, <2>3, <2>4, <2>5 DEF Removal!Uninstall, Idle
<1> QED
  BY <1>1, <1>2, <1>3, <1>4, <1>5 DEF Removal!Next
\* Entries are numbered in the order of their creation.
LEMMA FreshStep ==
  ASSUME Removal!RemovalAssumption, RemovalInv, [Removal!Next]_removalVars
  PROVE  FreshInv'
<1> USE DEF RemovalInv, FreshInv
<1>1. nextIno \in Nat
  BY EntryFacts DEF Removal!TypeOK
<1>2. /\ at # None => at.ino \in Nat
      /\ \A e \in away : e.ino \in Nat
      /\ \A o \in Op : quarantine[o].entry # None => quarantine[o].entry.ino \in Nat
      /\ \A o \in Op : \A e \in removed[o] : e.ino \in Nat
  BY EntryFacts DEF Removal!TypeOK, Removal!Maybe
<1>3. CASE Stays
  BY <1>3 DEF Stays
<1>4. CASE Appears
  BY <1>1, <1>2, <1>4 DEF Appears
<1>5. CASE Goes
  BY <1>5 DEF Goes
<1>6. CASE Returns
  BY <1>6 DEF Returns
<1>7. ASSUME NEW o \in Op, Enters(o)
      PROVE  FreshInv'
  BY <1>7 DEF Enters
<1>8. ASSUME NEW o \in Op, Leaves(o)
      PROVE  FreshInv'
  <2>1. \A p \in Op : removed'[p] \subseteq removed[p] \cup ({quarantine[p].entry} \ {None})
    BY <1>8 DEF Leaves, Removal!TypeOK
  <2> QED
    BY <1>8, <2>1 DEF Leaves
<1> QED
  BY <1>3, <1>4, <1>5, <1>6, <1>7, <1>8, EntryMoves

\* No two places ever hold the same entry.
LEMMA PlaceStep ==
  ASSUME Removal!RemovalAssumption, RemovalInv, [Removal!Next]_removalVars
  PROVE  PlaceInv'
<1> USE DEF RemovalInv, PlaceInv
<1>1. nextIno \in Nat /\ None \notin away
  BY EntryFacts DEF Removal!TypeOK
<1>2. CASE Stays
  BY <1>2 DEF Stays
<1>3. CASE Appears
  <2>1. at' \notin away /\ at' # None /\ \A o \in Op : quarantine[o].entry # at'
    BY <1>1, <1>3, EntryFacts DEF Appears, FreshInv
  <2> QED
    BY <1>3, <2>1 DEF Appears
<1>4. CASE Goes
  BY <1>4 DEF Goes
<1>5. CASE Returns
  BY <1>1, <1>5 DEF Returns
<1>6. ASSUME NEW o \in Op, Enters(o)
      PROVE  PlaceInv'
  BY <1>6 DEF Enters
<1>7. ASSUME NEW o \in Op, Leaves(o)
      PROVE  PlaceInv'
  BY <1>1, <1>7 DEF Leaves
<1> QED
  BY <1>2, <1>3, <1>4, <1>5, <1>6, <1>7, EntryMoves

\* What was removed does not come back, and nobody removes it again.
LEMMA GoneStep ==
  ASSUME Removal!RemovalAssumption, RemovalInv, [Removal!Next]_removalVars
  PROVE  GoneInv'
<1> USE DEF RemovalInv, GoneInv
<1>1. nextIno \in Nat /\ \A o \in Op : None \notin removed[o]
  BY EntryFacts DEF Removal!TypeOK
<1>2. CASE Stays
  BY <1>2 DEF Stays
<1>3. CASE Appears
  <2>1. \A o \in Op : at' \notin removed[o]
    BY <1>1, <1>3, EntryFacts DEF Appears, FreshInv
  <2> QED
    BY <1>3, <2>1 DEF Appears
<1>4. CASE Goes
  BY <1>1, <1>4 DEF Goes
<1>5. CASE Returns
  BY <1>5 DEF Returns
<1>6. ASSUME NEW o \in Op, Enters(o)
      PROVE  GoneInv'
  BY <1>1, <1>6 DEF Enters
<1>7. ASSUME NEW o \in Op, Leaves(o)
      PROVE  GoneInv'
  <2>1. \A p \in Op : removed'[p] = IF p = o THEN removed[o] \cup ({quarantine[o].entry} \ {None})
                                             ELSE removed[p]
    BY <1>7 DEF Leaves, Removal!TypeOK
  <2>2. quarantine[o].entry # None =>
          /\ quarantine[o].entry # at /\ quarantine[o].entry \notin away
          /\ \A p \in Op : p # o => quarantine[p].entry # quarantine[o].entry
    BY DEF PlaceInv
  <2>3. \A p \in Op : quarantine'[p].entry = IF p = o THEN None ELSE quarantine[p].entry
    BY <1>7 DEF Leaves
  <2> QED
    BY <1>1, <1>7, <2>1, <2>2, <2>3 DEF Leaves
<1> QED
  BY <1>2, <1>3, <1>4, <1>5, <1>6, <1>7, EntryMoves
\* A command works on its own variables only.
LEMMA OthersStay ==
  ASSUME Removal!TypeOK, RemovingInv, NEW o \in Op, Removal!Uninstall(o), NEW p \in Op, p # o
  PROVE  /\ removing'[p] = removing[p] /\ expected'[p] = expected[p] /\ quarantine'[p] = quarantine[p]
         /\ removed'[p] = removed[p] /\ runtimeErr'[p] = runtimeErr[p]
<1> USE DEF Removal!TypeOK, RemovingInv, Removal!Goto, Removal!Fails
<1>1. CASE Idle(o)
  BY <1>1 DEF Idle, Removal!Inspect, Removal!CheckParents, Removal!CheckConfig, Removal!SecureQuarantine, Removal!CheckMoved, Removal!RemoveHelperDir,
     Removal!VerifyAbsent, Removal!HelperEnds
<1>2. CASE Removal!Unlink(o)
  BY <1>2 DEF Removal!Unlink
<1>3. CASE Removal!MakeQuarantine(o)
  BY <1>3 DEF Removal!MakeQuarantine, Removal!HelperEnds
<1>4. CASE Removal!Rename(o)
  BY <1>4 DEF Removal!Rename, Removal!HelperEnds
<1>5. CASE Removal!RemoveQuarantine(o)
  BY <1>5 DEF Removal!RemoveQuarantine
<1> QED
  BY <1>1, <1>2, <1>3, <1>4, <1>5 DEF Removal!Uninstall, Idle

\* Every step keeps the program counters.
LEMMA PcStep ==
  ASSUME RemovalInv, [Removal!Next]_removalVars
  PROVE  RemovingInv'
<1> USE DEF RemovalInv, RemovingInv, Before, After, Removal!Goto, Removal!Fails
<1>1. ASSUME NEW o \in Op, Removal!Uninstall(o)
      PROVE  RemovingInv'
  <2>1. CASE Idle(o)
    BY <2>1 DEF Idle, Removal!Inspect, Removal!CheckParents, Removal!CheckConfig, Removal!SecureQuarantine, Removal!CheckMoved, Removal!RemoveHelperDir,
       Removal!VerifyAbsent, Removal!HelperEnds
  <2>2. CASE Removal!Unlink(o) \/ Removal!MakeQuarantine(o) \/ Removal!Rename(o) \/ Removal!RemoveQuarantine(o)
    BY <2>2 DEF Removal!Unlink, Removal!MakeQuarantine, Removal!Rename, Removal!RemoveQuarantine, Removal!HelperEnds
  <2> QED
    BY <1>1, <2>1, <2>2 DEF Removal!Uninstall, Idle
<1>2. CASE Removal!Create \/ Removal!MoveAway \/ Removal!MoveBack
  BY <1>2 DEF Removal!Create, Removal!MoveAway, Removal!MoveBack
<1>3. CASE UNCHANGED removalVars
  BY <1>3 DEF removalVars
<1> QED
  BY <1>1, <1>2, <1>3 DEF Removal!Next

\* Every step keeps the types.
LEMMA RemovalTypeStep ==
  ASSUME Removal!RemovalAssumption, RemovalInv, [Removal!Next]_removalVars
  PROVE  Removal!TypeOK'
<1> USE DEF RemovalInv
<1>1. at' \in Removal!Maybe(Removal!Entry) /\ away' \subseteq Removal!Entry
  BY EntryMoves DEF Stays, Appears, Goes, Returns, Enters, Leaves, Removal!TypeOK, Removal!Maybe
<1>2. nextIno' \in 2..(MaxIno + 1)
  BY EntryMoves, EntryFacts DEF Stays, Appears, Goes, Returns, Enters, Leaves, Removal!TypeOK
<1>3. removed' \in [Op -> SUBSET Removal!Entry]
  <2>1. ASSUME NEW o \in Op, Leaves(o)
        PROVE  removed' \in [Op -> SUBSET Removal!Entry]
    <3>1. {quarantine[o].entry} \ {None} \subseteq Removal!Entry
      BY DEF Removal!TypeOK, Removal!Maybe
    <3> QED
      BY <2>1, <3>1 DEF Leaves, Removal!TypeOK
  <2> QED
    BY <2>1, EntryMoves DEF Stays, Appears, Goes, Returns, Enters, Removal!TypeOK
<1>4. ASSUME NEW o \in Op, Removal!Uninstall(o)
      PROVE  /\ quarantine' \in [Op -> [made : BOOLEAN, entry : Removal!Maybe(Removal!Entry)]]
             /\ \A p \in Op : quarantine'[p].entry # None => quarantine'[p].made
             /\ expected' \in [Op -> Removal!Maybe(Removal!Entry)]
             /\ {printed', moveErr', runtimeErr'} \subseteq [Op -> BOOLEAN]
  <2>a. /\ [quarantine EXCEPT ![o].entry = at] =
             [p \in Op |-> IF p = o THEN [made |-> quarantine[o].made, entry |-> at] ELSE quarantine[p]]
        /\ [quarantine EXCEPT ![o].made = TRUE] =
             [p \in Op |-> IF p = o THEN [made |-> TRUE, entry |-> quarantine[o].entry] ELSE quarantine[p]]
    <3>1. Removal!TypeOK /\ at \in Removal!Maybe(Removal!Entry)
      BY DEF Removal!TypeOK
    <3> QED
      BY <3>1, QuarantineForms
  <2> USE DEF Removal!TypeOK, Removal!Goto, Removal!Fails
  <2>1. CASE Idle(o)
    <3>1. UNCHANGED quarantine
      BY <2>1, IdleKeepsPlaces DEF places
    <3>2. expected' \in [Op -> Removal!Maybe(Removal!Entry)]
      BY <2>1 DEF Idle, Removal!Inspect, Removal!CheckParents, Removal!CheckConfig, Removal!SecureQuarantine, Removal!CheckMoved,
         Removal!RemoveHelperDir, Removal!VerifyAbsent
    <3>3. printed' \in [Op -> BOOLEAN] /\ moveErr' \in [Op -> BOOLEAN]
      BY <2>1 DEF Idle, Removal!Inspect, Removal!CheckParents, Removal!CheckConfig, Removal!SecureQuarantine, Removal!CheckMoved,
         Removal!RemoveHelperDir, Removal!VerifyAbsent, Removal!HelperEnds
    <3>4. runtimeErr' \in [Op -> BOOLEAN]
      BY <2>1 DEF Idle, Removal!Inspect, Removal!CheckParents, Removal!CheckConfig, Removal!SecureQuarantine, Removal!CheckMoved,
         Removal!RemoveHelperDir, Removal!VerifyAbsent
    <3> QED
      BY <3>1, <3>2, <3>3, <3>4
  <2>2. CASE Removal!Unlink(o)
    BY <2>2 DEF Removal!Unlink
  <2>3. CASE Removal!MakeQuarantine(o)
    <3>1. /\ quarantine' \in [Op -> [made : BOOLEAN, entry : Removal!Maybe(Removal!Entry)]]
          /\ \A p \in Op : quarantine'[p].entry # None => quarantine'[p].made
      <4>1. CASE UNCHANGED quarantine
        BY <4>1
      <4>2. CASE quarantine' = [quarantine EXCEPT ![o].made = TRUE]
        <5>1. quarantine' = [p \in Op |-> IF p = o THEN [made |-> TRUE, entry |-> quarantine[o].entry]
                                                   ELSE quarantine[p]]
          BY <2>a, <4>2
        <5> QED
          BY <5>1
      <4> QED
        BY <2>3, <4>1, <4>2 DEF Removal!MakeQuarantine
    <3>2. printed' \in [Op -> BOOLEAN] /\ moveErr' \in [Op -> BOOLEAN]
      BY <2>3 DEF Removal!MakeQuarantine, Removal!HelperEnds
    <3>3. expected' = expected /\ runtimeErr' = runtimeErr
      BY <2>3 DEF Removal!MakeQuarantine
    <3> QED
      BY <3>1, <3>2, <3>3
  <2>4. CASE Removal!Rename(o)
    <3>1. /\ quarantine' \in [Op -> [made : BOOLEAN, entry : Removal!Maybe(Removal!Entry)]]
          /\ \A p \in Op : quarantine'[p].entry # None => quarantine'[p].made
      <4>1. CASE UNCHANGED quarantine
        BY <4>1
      <4>2. CASE quarantine' = [quarantine EXCEPT ![o].entry = at]
        <5>1. quarantine' = [p \in Op |-> IF p = o THEN [made |-> quarantine[o].made, entry |-> at]
                                                   ELSE quarantine[p]]
          BY <2>a, <4>2
        <5>2. quarantine[o].made
          BY <2>4 DEF Removal!Rename, CommandInv
        <5> QED
          BY <5>1, <5>2
      <4> QED
        BY <2>4, <4>1, <4>2 DEF Removal!Rename
    <3>2. printed' \in [Op -> BOOLEAN] /\ moveErr' \in [Op -> BOOLEAN]
      BY <2>4 DEF Removal!Rename, Removal!HelperEnds
    <3>3. expected' = expected /\ runtimeErr' = runtimeErr
      BY <2>4 DEF Removal!Rename
    <3> QED
      BY <3>1, <3>2, <3>3
  <2>5. CASE Removal!RemoveQuarantine(o)
    <3>1. [made |-> FALSE, entry |-> None] \in [made : BOOLEAN, entry : Removal!Maybe(Removal!Entry)]
      BY DEF Removal!Maybe
    <3>2. /\ quarantine' \in [Op -> [made : BOOLEAN, entry : Removal!Maybe(Removal!Entry)]]
          /\ \A p \in Op : quarantine'[p].entry # None => quarantine'[p].made
      <4>1. CASE UNCHANGED quarantine
        BY <4>1
      <4>2. CASE quarantine' = [quarantine EXCEPT ![o] = [made |-> FALSE, entry |-> None]]
        <5>1. quarantine' \in [Op -> [made : BOOLEAN, entry : Removal!Maybe(Removal!Entry)]]
          BY <3>1, <4>2
        <5>2. /\ quarantine'[o].entry = None
              /\ \A p \in Op : p # o => quarantine'[p] = quarantine[p]
          BY <4>2
        <5> QED
          BY <5>1, <5>2
      <4> QED
        BY <2>5, <4>1, <4>2 DEF Removal!RemoveQuarantine
    <3>3. runtimeErr' \in [Op -> BOOLEAN] /\ UNCHANGED <<expected, printed, moveErr>>
      BY <2>5 DEF Removal!RemoveQuarantine
    <3> QED
      BY <3>2, <3>3
  <2> QED
    BY <1>4, <2>1, <2>2, <2>3, <2>4, <2>5 DEF Removal!Uninstall, Idle
<1>5. CASE Removal!Create \/ Removal!MoveAway \/ Removal!MoveBack
  BY <1>1, <1>2, <1>5 DEF Removal!Create, Removal!MoveAway, Removal!MoveBack, Removal!TypeOK
<1>6. CASE UNCHANGED removalVars
  BY <1>6 DEF removalVars, Removal!TypeOK
<1> QED
  BY <1>1, <1>2, <1>3, <1>4, <1>5, <1>6 DEF Removal!Next, Removal!TypeOK
\* How a command gets from the inspection to its report.
LEMMA CommandStep ==
  ASSUME Removal!RemovalAssumption, RemovalInv, [Removal!Next]_removalVars
  PROVE  CommandInv'
<1> DEFINE C(o) ==
      /\ removing[o] \in Before => quarantine[o].entry = None
      /\ removing[o] \in {"secure", "rename"} => quarantine[o].made
      /\ removing[o] \in {"inspect", "unlink"} => expected[o] = None
      /\ removing[o] \in {"parents", "config", "mkdir", "secure", "rename", "moved", "remove"}
           => expected[o] # None
      /\ removing[o] = "remove" => quarantine[o].entry = expected[o]
      /\ expected[o] # None => Removal!RootDir(expected[o])
      /\ removed[o] \subseteq {expected[o]} \ {None}
      /\ removing[o] = "succeeded" => ~runtimeErr[o]
      /\ removing[o] \in {"helperDir", "verify", "succeeded"} /\ ~runtimeErr[o] /\ expected[o] # None
           => expected[o] \in removed[o] /\ ~quarantine[o].made
<1>0. \A p \in Op : C(p)
  BY DEF RemovalInv, CommandInv
<1>1. ASSUME NEW o \in Op, Removal!Uninstall(o), NEW p \in Op, p # o
      PROVE  C(p)'
  BY <1>0, <1>1, OthersStay DEF RemovalInv, Removal!RootDir
<1>2. ASSUME NEW o \in Op, Removal!Uninstall(o)
      PROVE  C(o)'
  <2>0. C(o) /\ Removal!TypeOK /\ RemovingInv
    BY <1>0 DEF RemovalInv
  <2>a. [quarantine EXCEPT ![o].made = TRUE] =
          [p \in Op |-> IF p = o THEN [made |-> TRUE, entry |-> quarantine[o].entry] ELSE quarantine[p]]
    BY <2>0, QuarantineForms DEF Removal!Maybe
  <2> HIDE DEF C
  <2> USE DEF Removal!TypeOK, RemovingInv, Before, After, Removal!Goto, Removal!Fails
  <2>1. CASE Removal!Inspect(o)
    BY <2>0, <2>1 DEF C, Removal!Inspect, Removal!RootDir
  <2>2. CASE Removal!Unlink(o)
    BY <2>0, <2>2 DEF C, Removal!Unlink, Removal!RootDir
  <2>3. CASE Removal!CheckParents(o) \/ Removal!CheckConfig(o)
    BY <2>0, <2>3 DEF C, Removal!CheckParents, Removal!CheckConfig, Removal!RootDir
  <2>4. CASE Removal!MakeQuarantine(o)
    <3>1. CASE removing'[o] = "moved"
      BY <2>0, <2>4, <3>1 DEF C, Removal!MakeQuarantine, Removal!HelperEnds, Removal!RootDir
    <3>2. CASE Removal!Goto(o, "secure") /\ quarantine' = [quarantine EXCEPT ![o].made = TRUE]
      <4>1. quarantine' = [p \in Op |-> IF p = o THEN [made |-> TRUE, entry |-> quarantine[o].entry]
                                                 ELSE quarantine[p]]
        BY <2>a, <3>2
      <4>2. quarantine'[o].made /\ quarantine'[o].entry = quarantine[o].entry
        BY <4>1
      <4> QED
        BY <2>0, <2>4, <3>2, <4>2 DEF C, Removal!MakeQuarantine, Removal!RootDir
    <3> QED
      BY <2>0, <2>4, <3>1, <3>2 DEF Removal!MakeQuarantine, Removal!HelperEnds
  <2>5. CASE Removal!SecureQuarantine(o)
    BY <2>0, <2>5 DEF C, Removal!SecureQuarantine, Removal!HelperEnds, Removal!RootDir
  <2>6. CASE Removal!Rename(o)
    <3>1. removing'[o] = "moved" /\ UNCHANGED <<expected, removed, runtimeErr>> /\ removing[o] = "rename"
      BY <2>0, <2>6 DEF Removal!Rename, Removal!HelperEnds
    <3> QED
      BY <2>0, <3>1 DEF C, Removal!RootDir
  <2>7. CASE Removal!CheckMoved(o)
    BY <2>0, <2>7 DEF C, Removal!CheckMoved, Removal!RootDir
  <2>8. CASE Removal!RemoveQuarantine(o)
    <3>1. CASE UNCHANGED <<quarantine, removed>> /\ Removal!Fails(o)
      BY <2>0, <2>8, <3>1 DEF C, Removal!RemoveQuarantine, Removal!RootDir
    <3>2. CASE /\ quarantine' = [quarantine EXCEPT ![o] = [made |-> FALSE, entry |-> None]]
               /\ removed' = [removed EXCEPT ![o] = @ \cup ({quarantine[o].entry} \ {None})]
      <4>1. ~quarantine'[o].made
        BY <2>0, <3>2
      <4>2. quarantine[o].entry = expected[o] /\ expected[o] # None /\ expected' = expected
        BY <2>0, <2>8 DEF C, Removal!RemoveQuarantine
      <4>3. removed'[o] = removed[o] \cup {expected[o]}
        BY <2>0, <3>2, <4>2
      <4>4. removing'[o] = "helperDir"
        BY <2>0, <2>8 DEF Removal!RemoveQuarantine
      <4> QED
        BY <2>0, <4>1, <4>2, <4>3, <4>4 DEF C, Removal!RootDir
    <3> QED
      BY <2>8, <3>1, <3>2 DEF Removal!RemoveQuarantine
  <2>9. CASE Removal!RemoveHelperDir(o) \/ Removal!VerifyAbsent(o)
    BY <2>0, <2>9 DEF C, Removal!RemoveHelperDir, Removal!VerifyAbsent, Removal!RootDir
  <2> QED
    BY <1>2, <2>1, <2>2, <2>3, <2>4, <2>5, <2>6, <2>7, <2>8, <2>9 DEF Removal!Uninstall
<1>3. CASE Removal!Create \/ Removal!MoveAway \/ Removal!MoveBack \/ UNCHANGED removalVars
  BY <1>0, <1>3 DEF Removal!Create, Removal!MoveAway, Removal!MoveBack, removalVars, CommandInv, Removal!RootDir
<1>4. ASSUME NEW o \in Op, Removal!Uninstall(o)
      PROVE  CommandInv'
  BY <1>1, <1>2, <1>4 DEF CommandInv
<1> QED
  BY <1>3, <1>4 DEF Removal!Next

\* Nothing has been inspected or moved yet.
LEMMA RemovalInit == ASSUME Removal!RemovalAssumption PROVE Removal!Init => RemovalInv
<1> SUFFICES ASSUME Removal!Init PROVE RemovalInv
  OBVIOUS
<1> USE DEF Removal!Init
<1>1. at \in Removal!Maybe(Removal!Entry) /\ (at # None => at.ino = 1)
  <2>1. "directory" \in Removal!Kind /\ TRUE \in BOOLEAN /\ 1 \in 1..MaxIno
    BY EntryFacts DEF Removal!Kind
  <2>2. [kind |-> "directory", root |-> TRUE, ino |-> 1] \in Removal!Entry
    BY <2>1, EntryFacts
  <2>3. [kind |-> "directory", root |-> TRUE, ino |-> 1].ino = 1
    OBVIOUS
  <2>4. CASE at = None
    BY <2>4 DEF Removal!Maybe
  <2>5. CASE at = [kind |-> "directory", root |-> TRUE, ino |-> 1]
    BY <2>2, <2>3, <2>5 DEF Removal!Maybe
  <2> QED
    BY <2>4, <2>5
<1>2. Removal!TypeOK
  BY <1>1, EntryFacts DEF Removal!TypeOK, Removal!Maybe
<1>3. RemovingInv /\ FreshInv /\ PlaceInv /\ GoneInv
  BY <1>1, EntryFacts DEF RemovingInv, Before, After, FreshInv, PlaceInv, GoneInv
<1>4. CommandInv
  BY DEF CommandInv, Before
<1> QED
  BY <1>2, <1>3, <1>4 DEF RemovalInv

\* A command removes what it has inspected; its success means that this is in no place.
LEMMA RemovalSafe ==
  ASSUME RemovalInv
  PROVE  /\ Removal!TypeOK /\ Removal!OnlyVerifiedRemoved
         /\ Removal!SuccessMeansGone /\ Removal!OneWinner
<1>1. Removal!TypeOK /\ Removal!OnlyVerifiedRemoved
  BY DEF RemovalInv, CommandInv, Removal!OnlyVerifiedRemoved, Removal!RootDir
<1>2. Removal!SuccessMeansGone
  <2> SUFFICES ASSUME NEW o \in Op, removing[o] = "succeeded", expected[o] # None
               PROVE  /\ expected[o] \in removed[o] /\ expected[o] # at /\ expected[o] \notin away
                      /\ \A p \in Op : quarantine[p].entry # expected[o]
                      /\ ~quarantine[o].made
    BY DEF Removal!SuccessMeansGone
  <2>1. expected[o] \in removed[o] /\ ~quarantine[o].made
    BY DEF RemovalInv, CommandInv
  <2> QED
    BY <2>1 DEF RemovalInv, GoneInv
<1>3. Removal!OneWinner
  BY DEF RemovalInv, CommandInv, GoneInv, Removal!OneWinner
<1> QED
  BY <1>1, <1>2, <1>3

\* What leaves a quarantine is what its command has inspected.
LEMMA RemovalRetains ==
  ASSUME Removal!RemovalAssumption, RemovalInv, [Removal!Next]_removalVars, NEW o \in Op,
         quarantine[o].entry # quarantine'[o].entry, quarantine[o].entry # None
  PROVE  quarantine[o].entry = expected[o]
<1>1. Enters(o) \/ Leaves(o)
  BY EntryMoves DEF RemovalInv, Stays, Appears, Goes, Returns, Enters, Leaves
<1>2. removing[o] # "rename"
  BY DEF RemovalInv, CommandInv, Before
<1> QED
  BY <1>1, <1>2 DEF Enters, Leaves, RemovalInv, CommandInv

\* Whatever others put at the path and move about, an uninstall removes recursively nothing
\* but the directory of root that it inspected, a reported success means that this
\* directory is in no place any more, of the uninstalls that found it at most one reports
\* success, and an entry that the rename caught by mistake stays in its quarantine
\* (removeServiceRuntimeDirectory).
THEOREM RemovalIsCorrect == Spec => RemovalCorrect
<1>1. Init => RemovalInv
  BY RemovalInit, FilesAssumption DEF Init
<1>2. [Next]_vars => [Removal!Next]_removalVars
  BY DEF Next, vars
<1>3. RemovalInv /\ [Next]_vars => RemovalInv'
  BY <1>2, FilesAssumption, RemovalTypeStep, PcStep, FreshStep, PlaceStep, GoneStep, CommandStep
  DEF RemovalInv
<1>4. RemovalInv /\ [Next]_vars =>
        [\A o \in Op : quarantine[o].entry # quarantine'[o].entry /\ quarantine[o].entry # None
           => quarantine[o].entry = expected[o]]_(Removal!vars)
  BY <1>2, FilesAssumption, RemovalRetains
<1>5. RemovalInv => (part = "removal" =>
        /\ Removal!TypeOK /\ Removal!OnlyVerifiedRemoved
        /\ Removal!SuccessMeansGone /\ Removal!OneWinner)
  BY RemovalSafe
<1> QED
  BY <1>1, <1>3, <1>4, <1>5, PTL DEF Spec, RemovalCorrect, Removal!StrangersRetained

---------------------------------------------------------------------------
(* The resolver files of the vpnc wrapper *)

\* A domain is a suffix of a name when the last labels of the name are its own.
LEMMA SuffixLabels ==
  ASSUME NEW d \in Seq(STRING), NEW n \in Seq(STRING)
  PROVE  Resolver!IsSuffix(d, n) <=>
           /\ Len(d) <= Len(n)
           /\ \A i \in 1..Len(d) : d[i] = n[Len(n) - Len(d) + i]
<1> DEFINE rd == [i \in 1..Len(d) |-> d[(Len(d) - i) + 1]]
           rn == [i \in 1..Len(n) |-> n[(Len(n) - i) + 1]]
<1>1. /\ Len(d) \in Nat /\ d \in [1..Len(d) -> STRING]
      /\ Len(n) \in Nat /\ n \in [1..Len(n) -> STRING]
  OBVIOUS
<1>2. rd \in Seq(STRING) /\ Len(rd) = Len(d) /\ rn \in Seq(STRING) /\ Len(rn) = Len(n)
  BY <1>1
<1>3. Resolver!IsSuffix(d, n) <=>
        Len(d) <= Len(n) /\ SubSeq(rd, 1, Len(d)) = SubSeq(rn, 1, Len(d))
  BY <1>2 DEF Resolver!IsSuffix, Resolver!IsPrefix, Resolver!Reverse
<1>4. ASSUME Len(d) <= Len(n)
      PROVE  SubSeq(rd, 1, Len(d)) = SubSeq(rn, 1, Len(d))
               <=> \A j \in 1..Len(d) : rd[j] = rn[j]
  <2> HIDE DEF rd, rn
  <2>1. \A m \in Seq(STRING) : Len(d) <= Len(m) =>
          SubSeq(m, 1, Len(d)) = [j \in 1..Len(d) |-> m[j]]
    BY <1>1
  <2>2. /\ SubSeq(rd, 1, Len(d)) = [j \in 1..Len(d) |-> rd[j]]
        /\ SubSeq(rn, 1, Len(d)) = [j \in 1..Len(d) |-> rn[j]]
    BY <1>1, <1>2, <1>4, <2>1
  <2> QED
    BY <2>2
<1>5. ASSUME Len(d) <= Len(n), \A j \in 1..Len(d) : rd[j] = rn[j], NEW i \in 1..Len(d)
      PROVE  d[i] = n[Len(n) - Len(d) + i]
  <2>1. Len(d) - i + 1 \in 1..Len(d) /\ Len(d) - i + 1 \in 1..Len(n)
    BY <1>1, <1>5
  <2>2. rd[Len(d) - i + 1] = rn[Len(d) - i + 1]
    BY <1>5, <2>1
  <2> QED
    BY <1>1, <1>5, <2>1, <2>2
<1>6. ASSUME Len(d) <= Len(n), \A i \in 1..Len(d) : d[i] = n[Len(n) - Len(d) + i],
             NEW j \in 1..Len(d)
      PROVE  rd[j] = rn[j]
  <2>1. Len(d) - j + 1 \in 1..Len(d) /\ j \in 1..Len(n)
    BY <1>1, <1>6
  <2>2. d[Len(d) - j + 1] = n[Len(n) - Len(d) + (Len(d) - j + 1)]
    BY <1>6, <2>1
  <2>3. Len(n) - Len(d) + (Len(d) - j + 1) = Len(n) - j + 1
    BY <1>1, <2>1
  <2> QED
    BY <2>1, <2>2, <2>3
<1> HIDE DEF rd, rn
<1> QED
  BY <1>3, <1>4, <1>5, <1>6

\* A domain is a suffix of itself.
LEMMA SuffixSelf == ASSUME NEW d \in Seq(STRING) PROVE Resolver!IsSuffix(d, d)
<1>1. Len(d) \in Nat
  OBVIOUS
<1> QED
  BY <1>1, SuffixLabels

\* A suffix of a suffix is one.
LEMMA SuffixTransitive ==
  ASSUME NEW c \in Seq(STRING), NEW d \in Seq(STRING), NEW n \in Seq(STRING),
         Resolver!IsSuffix(c, d), Resolver!IsSuffix(d, n)
  PROVE  Resolver!IsSuffix(c, n)
<1>1. Len(c) \in Nat /\ Len(d) \in Nat /\ Len(n) \in Nat
  OBVIOUS
<1>2. /\ Len(c) <= Len(d) /\ \A i \in 1..Len(c) : c[i] = d[Len(d) - Len(c) + i]
      /\ Len(d) <= Len(n) /\ \A i \in 1..Len(d) : d[i] = n[Len(n) - Len(d) + i]
  BY SuffixLabels
<1>3. ASSUME NEW i \in 1..Len(c) PROVE c[i] = n[Len(n) - Len(c) + i]
  <2>1. Len(d) - Len(c) + i \in 1..Len(d)
    BY <1>1, <1>2
  <2>2. Len(n) - Len(d) + (Len(d) - Len(c) + i) = Len(n) - Len(c) + i
    BY <1>1
  <2> QED
    BY <1>2, <2>1, <2>2
<1> QED
  BY <1>1, <1>2, <1>3, SuffixLabels

\* Of two suffixes of one name the shorter is a suffix of the longer.
LEMMA SuffixesNest ==
  ASSUME NEW c \in Seq(STRING), NEW d \in Seq(STRING), NEW n \in Seq(STRING),
         Resolver!IsSuffix(c, n), Resolver!IsSuffix(d, n), Len(c) <= Len(d)
  PROVE  Resolver!IsSuffix(c, d)
<1>1. Len(c) \in Nat /\ Len(d) \in Nat /\ Len(n) \in Nat
  OBVIOUS
<1>2. /\ Len(c) <= Len(n) /\ \A i \in 1..Len(c) : c[i] = n[Len(n) - Len(c) + i]
      /\ Len(d) <= Len(n) /\ \A i \in 1..Len(d) : d[i] = n[Len(n) - Len(d) + i]
  BY SuffixLabels
<1>3. ASSUME NEW i \in 1..Len(c) PROVE c[i] = d[Len(d) - Len(c) + i]
  <2>1. Len(d) - Len(c) + i \in 1..Len(d)
    BY <1>1
  <2>2. Len(n) - Len(d) + (Len(d) - Len(c) + i) = Len(n) - Len(c) + i
    BY <1>1
  <2> QED
    BY <1>2, <2>1, <2>2
<1> QED
  BY <1>1, <1>3, SuffixLabels

\* Among the domains that match a name one is the longest.
LEMMA LongestExists ==
  ASSUME NEW n \in Seq(STRING), NEW match, match # {},
         \A d \in match : d \in Seq(STRING) /\ Resolver!IsSuffix(d, n)
  PROVE  \E d \in match : \A e \in match : Len(e) <= Len(d)
<1> DEFINE left == {Len(n) - Len(d) : d \in match}
           less == OpToRel(<, Nat)
<1>1. \A d \in match : Len(d) \in Nat /\ Len(n) \in Nat /\ Len(d) <= Len(n)
  BY SuffixLabels
<1>2. left \subseteq Nat /\ left # {}
  BY <1>1
<1>3. \E x \in left : \A y \in left : ~(<<y, x>> \in less)
  <2> HIDE DEF left
  <2> QED
    BY <1>2, NatLessThanWellFounded, WFMin
<1>4. \A x, y \in Nat : <<y, x>> \in less <=> y < x
  BY DEF OpToRel
<1> HIDE DEF less
<1>5. PICK x \in left : \A y \in left : ~(y < x)
  BY <1>2, <1>3, <1>4
<1>6. PICK d \in match : x = Len(n) - Len(d)
  BY <1>5
<1>7. ASSUME NEW e \in match PROVE Len(e) <= Len(d)
  <2>1. ~(Len(n) - Len(e) < Len(n) - Len(d))
    BY <1>5, <1>6
  <2> QED
    BY <1>1, <2>1
<1> QED
  BY <1>7

\* Every shim domain has its file, the wrapper's own or one that another program put there,
\* unless the hook failed to write it; every bypass suffix has.
ShimsUp  == \A d \in Resolver!Shim \ failed : resolver[d] \in {"shim", "user"}
BypassUp == \A d \in BypassSuffixes \ failed : resolver[d] \in {"bypass", "user"}

\* Each mark stands on a domain of its own kind.
KindInv ==
  \A d \in Resolver!Files :
    /\ resolver[d] = "shim" => d \in Resolver!Shim
    /\ resolver[d] = "bypass" => d \in BypassSuffixes

\* A domain of the shim is none of the bypass suffixes.
LEMMA ShimIsNoBypass ==
  ASSUME Resolver!WrapperAssumption
  PROVE  /\ Resolver!Shim \cap BypassSuffixes = {}
         /\ Resolver!Shim \subseteq Seq(STRING) /\ Resolver!Files \subseteq Seq(STRING)
         /\ Resolver!Name \subseteq Seq(STRING)
<1>1. ASSUME NEW d \in BypassSuffixes PROVE Resolver!Covered(d, BypassSuffixes)
  BY <1>1, SuffixSelf DEF Resolver!WrapperAssumption, Resolver!Covered
<1> QED
  BY <1>1 DEF Resolver!WrapperAssumption, Resolver!Shim, Resolver!Files, Resolver!Name

\* The file that decides about a name is one of those that match it, and no shorter one.
LEMMA LookupLongest ==
  ASSUME Resolver!WrapperAssumption, NEW n \in Resolver!Name, NEW d \in Resolver!Files,
         resolver[d] # "none", Resolver!IsSuffix(d, n)
  PROVE  \E e \in Resolver!Files : /\ resolver[e] # "none" /\ Resolver!IsSuffix(e, n)
                                   /\ Len(d) <= Len(e)
                                   /\ Resolver!Lookup(n) = resolver[e]
<1> DEFINE match == {e \in Resolver!Files : resolver[e] # "none" /\ Resolver!IsSuffix(e, n)}
           e == CHOOSE x \in match : \A y \in match : Len(y) <= Len(x)
<1>1. n \in Seq(STRING) /\ Resolver!Files \subseteq Seq(STRING)
  BY ShimIsNoBypass
<1>2. match # {} /\ \A x \in match : x \in Seq(STRING) /\ Resolver!IsSuffix(x, n)
  BY <1>1
<1>3. \E x \in match : \A y \in match : Len(y) <= Len(x)
  <2> HIDE DEF match
  <2> QED
    BY <1>1, <1>2, LongestExists
<1>4. e \in match /\ \A y \in match : Len(y) <= Len(e)
  <2> HIDE DEF match
  <2> QED
    BY <1>3
<1>5. Resolver!Lookup(n) = resolver[e]
  BY <1>2 DEF Resolver!Lookup
<1> HIDE DEF e
<1> QED
  BY <1>4, <1>5

\* With the shim in place a name of the VPN is looked up there, unless one of the files that
\* match it could not be written.
LEMMA ShimAnswers ==
  ASSUME Resolver!WrapperAssumption, ShimsUp, Resolver!Untouched,
         NEW n \in Resolver!Name, Resolver!Covered(n, VPNDomains \cup ServerDomains),
         ~Resolver!Covered(n, BypassSuffixes \cup failed)
  PROVE  Resolver!Lookup(n) = "shim"
<1>1. PICK d \in VPNDomains \cup ServerDomains : Resolver!IsSuffix(d, n)
  BY DEF Resolver!Covered
<1>2. n \in Seq(STRING) /\ d \in Seq(STRING) /\ BypassSuffixes \subseteq Seq(STRING)
  BY ShimIsNoBypass DEF Resolver!WrapperAssumption
<1>3. \A b \in BypassSuffixes \cup failed : ~Resolver!IsSuffix(b, n)
  BY DEF Resolver!Covered
<1>4. d \in Resolver!Shim /\ d \notin failed
  BY <1>1, <1>2, <1>3, SuffixTransitive DEF Resolver!Shim, Resolver!Covered
<1>5. \A c \in Resolver!Shim \ failed : c \in Resolver!Files /\ resolver[c] = "shim"
  BY DEF ShimsUp, Resolver!Untouched, Resolver!Files
<1>6. PICK e \in Resolver!Files : Resolver!IsSuffix(e, n) /\ Resolver!Lookup(n) = resolver[e]
  BY <1>1, <1>4, <1>5, LookupLongest
<1>7. e \in Resolver!Shim /\ e \notin failed
  BY <1>3, <1>6 DEF Resolver!Files
<1> QED
  BY <1>5, <1>6, <1>7

\* With the file of its bypass suffix in place a name is not: only bypass files are longer.
LEMMA BypassAnswers ==
  ASSUME Resolver!WrapperAssumption, BypassUp, KindInv, Resolver!Untouched,
         NEW n \in Resolver!Name, Resolver!Covered(n, BypassSuffixes \ failed)
  PROVE  Resolver!Lookup(n) # "shim"
<1>1. PICK b \in BypassSuffixes \ failed : Resolver!IsSuffix(b, n)
  BY DEF Resolver!Covered
<1>2. n \in Seq(STRING) /\ b \in Seq(STRING) /\ Resolver!Files \subseteq Seq(STRING)
  BY ShimIsNoBypass DEF Resolver!WrapperAssumption
<1>3. b \in Resolver!Files /\ resolver[b] = "bypass"
  BY DEF BypassUp, Resolver!Untouched, Resolver!Files
<1>4. PICK e \in Resolver!Files : /\ Resolver!IsSuffix(e, n) /\ Len(b) <= Len(e)
                                  /\ Resolver!Lookup(n) = resolver[e]
  BY <1>1, <1>3, LookupLongest
<1>5. Resolver!IsSuffix(b, e)
  BY <1>1, <1>2, <1>4, SuffixesNest
<1>6. e \notin Resolver!Shim
  BY <1>4, <1>5 DEF Resolver!Shim, Resolver!Covered
<1> QED
  BY <1>4, <1>6 DEF KindInv

\* What may be left to do of a hook: the rest of the list that its reason began.
PreTodo  == {<<"captureRoute", "captureNs", "base", "pin", "exit">>,
             <<"captureNs", "base", "pin", "exit">>, <<"base", "pin", "exit">>,
             <<"pin", "exit">>, <<"exit">>, <<>>}
UpTodo   == {<<"base", "pin", "unscope", "override", "shim", "bypass", "warmup", "exit">>,
             <<"pin", "unscope", "override", "shim", "bypass", "warmup", "exit">>,
             <<"unscope", "override", "shim", "bypass", "warmup", "exit">>,
             <<"override", "shim", "bypass", "warmup", "exit">>,
             <<"shim", "bypass", "warmup", "exit">>, <<"bypass", "warmup", "exit">>,
             <<"warmup", "exit">>, <<"exit">>, <<>>}
DownTodo == {<<"base", "unpin", "unprobe", "unbypass", "unshim", "exit">>,
             <<"unpin", "unprobe", "unbypass", "unshim", "exit">>,
             <<"unprobe", "unbypass", "unshim", "exit">>, <<"unbypass", "unshim", "exit">>,
             <<"unshim", "exit">>, <<"exit">>, <<>>}

\* How much of the hook is left; openconnect before its first connect.
Todos  == Len(hook[1].todo)
Early  == {"idle", "boot", "inited"}

\* The reason of the hook that runs, or ran last, is the one of the stage openconnect is in,
\* and the log is unread before the first connect.
HookInv ==
  /\ hook[1].reason = "pre-init" => hook[1].todo \in PreTodo
  /\ Resolver!Connecting(hook[1].reason) => hook[1].todo \in UpTodo
  /\ hook[1].reason = "disconnect" => hook[1].todo \in DownTodo
  /\ oc[1] \in {"idle", "boot", "left"} => hook[1].todo = <<>>
  /\ oc[1] \in Early => hook[1].reason = "pre-init" /\ hookLog[1] = Resolver!Nothing
  /\ oc[1] = "up" => Resolver!Connecting(hook[1].reason)
  /\ oc[1] \in {"ending", "left"} => hook[1].reason = "disconnect"

\* The command gives its verdict on a stop only when openconnect is gone, and finds the
\* connect hook in the log only when that has run.
GoInv ==
  /\ go[1] = "idle" => oc[1] = "idle"
  /\ oc[1] \in Early => go[1] \notin {"warm", "connected"}
  /\ go[1] \in {"cleanup", "stopped", "unwaited", "timeout", "failed", "stale"} =>
       oc[1] \in Resolver!Gone

\* A connect hook leaves at most one warm-up running, and there is one such hook for the
\* connect and one for each reconnect: the count of warm-ups stays within its type.
WarmInv ==
  warm[1] + (IF Resolver!Connecting(hook[1].reason) /\ Todos >= 2 THEN 1 ELSE 0)
    <= reconnects[1] + (IF hook[1].reason = "pre-init" THEN 0 ELSE 1)

\* What a line of the log says of the files holds as long as the session is up: "shim" when
\* the shim line was read, and the bypass files too when the hook left with success.
UpInv ==
  /\ oc[1] = "up" /\ hookLog[1].shim => ShimsUp
  /\ oc[1] = "up" /\ nameservers[1] /\ hookLog[1].exit = "ok" => BypassUp
  /\ oc[1] = "up" /\ nameservers[1] /\ hook[1].rc = 0 /\ Todos \in {1, 2} => BypassUp
  /\ oc[1] = "up" /\ go[1] \in {"warm", "connected"} =>
       ShimsUp /\ (nameservers[1] => BypassUp)

\* A file carries a mark of the wrapper; no shim domain is without a file.
Marked(mark) == \E d \in Resolver!Files : resolver[d] = mark
NoneMissing == \A d \in Resolver!Shim : resolver[d] # "none"

\* The files with a mark are some that a hook failed to remove.
Unremoved(mark) == \A d \in Resolver!Files \ failed : resolver[d] # mark

\* A bypass file means that every shim domain has a file, which is why waiting for the shim
\* files is enough, or that the hooks failed on a file; a disconnect hook has removed the
\* pinned route and the marks, but for its failures, by the time it passes each of its steps.
CleanInv ==
  /\ go[1] \notin {"stale", "failed"} /\ Marked("bypass") => NoneMissing \/ failed # {}
  /\ go[1] \notin {"stale", "failed"} /\ Resolver!Connecting(hook[1].reason) /\ Todos = 3 =>
       NoneMissing \/ \E d \in failed : d \in Resolver!Shim
  /\ hook[1].reason = "disconnect" =>
       /\ Todos <= 4 => ~pinned
       /\ Todos <= 2 => Unremoved("bypass")
       /\ Todos <= 1 => Unremoved("shim")
  /\ go[1] = "stopped" =>
       /\ ~Marked("shim") /\ (Marked("bypass") => failed # {})
       /\ hook[1].todo = <<>> /\ warm[1] = 0

\* search.tailscale is what its owner wrote, or lists nothing the VPN answers, unless a hook
\* failed to sanitize it.
SearchInv ==
  \/ search \in {NoFile, owned}
  \/ \A e \in search : Resolver!Covered(e, Resolver!Cleanup) =>
                         Resolver!Covered(e, BypassSuffixes)
  \/ unsanitized

\* Each function of a pre-init hook has its own place in the list.
LEMMA PreCalls ==
  ASSUME NEW t \in PreTodo, t # <<>>
  PROVE  /\ Tail(t) \in PreTodo /\ Len(t) \in Nat /\ Len(Tail(t)) = Len(t) - 1
         /\ <<Head(t), Len(t)>> \in
              {<<"captureRoute", 5>>, <<"captureNs", 4>>, <<"base", 3>>, <<"pin", 2>>,
               <<"exit", 1>>}
<1>1. CASE t = <<"captureRoute", "captureNs", "base", "pin", "exit">>
  <2>1. Tail(t) = <<"captureNs", "base", "pin", "exit">> /\ Head(t) = "captureRoute" /\ Len(t) = 5
    BY <1>1
  <2> QED
    BY <2>1 DEF PreTodo
<1>2. CASE t = <<"captureNs", "base", "pin", "exit">>
  <2>1. Tail(t) = <<"base", "pin", "exit">> /\ Head(t) = "captureNs" /\ Len(t) = 4
    BY <1>2
  <2> QED
    BY <2>1 DEF PreTodo
<1>3. CASE t = <<"base", "pin", "exit">>
  <2>1. Tail(t) = <<"pin", "exit">> /\ Head(t) = "base" /\ Len(t) = 3
    BY <1>3
  <2> QED
    BY <2>1 DEF PreTodo
<1>4. CASE t = <<"pin", "exit">>
  <2>1. Tail(t) = <<"exit">> /\ Head(t) = "pin" /\ Len(t) = 2
    BY <1>4
  <2> QED
    BY <2>1 DEF PreTodo
<1>5. CASE t = <<"exit">>
  <2>1. Tail(t) = <<>> /\ Head(t) = "exit" /\ Len(t) = 1
    BY <1>5
  <2> QED
    BY <2>1 DEF PreTodo
<1> QED
  BY <1>1, <1>2, <1>3, <1>4, <1>5 DEF PreTodo

\* Each function of a connect hook has.
LEMMA UpCalls ==
  ASSUME NEW t \in UpTodo, t # <<>>
  PROVE  /\ Tail(t) \in UpTodo /\ Len(t) \in Nat /\ Len(Tail(t)) = Len(t) - 1
         /\ <<Head(t), Len(t)>> \in
              {<<"base", 8>>, <<"pin", 7>>, <<"unscope", 6>>, <<"override", 5>>,
               <<"shim", 4>>, <<"bypass", 3>>, <<"warmup", 2>>, <<"exit", 1>>}
<1>1. CASE t = <<"base", "pin", "unscope", "override", "shim", "bypass", "warmup", "exit">>
  <2>1. /\ Tail(t) = <<"pin", "unscope", "override", "shim", "bypass", "warmup", "exit">>
        /\ Head(t) = "base" /\ Len(t) = 8
    BY <1>1
  <2> QED
    BY <2>1 DEF UpTodo
<1>2. CASE t = <<"pin", "unscope", "override", "shim", "bypass", "warmup", "exit">>
  <2>1. /\ Tail(t) = <<"unscope", "override", "shim", "bypass", "warmup", "exit">>
        /\ Head(t) = "pin" /\ Len(t) = 7
    BY <1>2
  <2> QED
    BY <2>1 DEF UpTodo
<1>3. CASE t = <<"unscope", "override", "shim", "bypass", "warmup", "exit">>
  <2>1. /\ Tail(t) = <<"override", "shim", "bypass", "warmup", "exit">>
        /\ Head(t) = "unscope" /\ Len(t) = 6
    BY <1>3
  <2> QED
    BY <2>1 DEF UpTodo
<1>4. CASE t = <<"override", "shim", "bypass", "warmup", "exit">>
  <2>1. Tail(t) = <<"shim", "bypass", "warmup", "exit">> /\ Head(t) = "override" /\ Len(t) = 5
    BY <1>4
  <2> QED
    BY <2>1 DEF UpTodo
<1>5. CASE t = <<"shim", "bypass", "warmup", "exit">>
  <2>1. Tail(t) = <<"bypass", "warmup", "exit">> /\ Head(t) = "shim" /\ Len(t) = 4
    BY <1>5
  <2> QED
    BY <2>1 DEF UpTodo
<1>6. CASE t = <<"bypass", "warmup", "exit">>
  <2>1. Tail(t) = <<"warmup", "exit">> /\ Head(t) = "bypass" /\ Len(t) = 3
    BY <1>6
  <2> QED
    BY <2>1 DEF UpTodo
<1>7. CASE t = <<"warmup", "exit">>
  <2>1. Tail(t) = <<"exit">> /\ Head(t) = "warmup" /\ Len(t) = 2
    BY <1>7
  <2> QED
    BY <2>1 DEF UpTodo
<1>8. CASE t = <<"exit">>
  <2>1. Tail(t) = <<>> /\ Head(t) = "exit" /\ Len(t) = 1
    BY <1>8
  <2> QED
    BY <2>1 DEF UpTodo
<1> QED
  BY <1>1, <1>2, <1>3, <1>4, <1>5, <1>6, <1>7, <1>8 DEF UpTodo

\* Each function of a disconnect hook has.
LEMMA DownCalls ==
  ASSUME NEW t \in DownTodo, t # <<>>
  PROVE  /\ Tail(t) \in DownTodo /\ Len(t) \in Nat /\ Len(Tail(t)) = Len(t) - 1
         /\ <<Head(t), Len(t)>> \in
              {<<"base", 6>>, <<"unpin", 5>>, <<"unprobe", 4>>, <<"unbypass", 3>>,
               <<"unshim", 2>>, <<"exit", 1>>}
<1>1. CASE t = <<"base", "unpin", "unprobe", "unbypass", "unshim", "exit">>
  <2>1. /\ Tail(t) = <<"unpin", "unprobe", "unbypass", "unshim", "exit">>
        /\ Head(t) = "base" /\ Len(t) = 6
    BY <1>1
  <2> QED
    BY <2>1 DEF DownTodo
<1>2. CASE t = <<"unpin", "unprobe", "unbypass", "unshim", "exit">>
  <2>1. Tail(t) = <<"unprobe", "unbypass", "unshim", "exit">> /\ Head(t) = "unpin" /\ Len(t) = 5
    BY <1>2
  <2> QED
    BY <2>1 DEF DownTodo
<1>3. CASE t = <<"unprobe", "unbypass", "unshim", "exit">>
  <2>1. Tail(t) = <<"unbypass", "unshim", "exit">> /\ Head(t) = "unprobe" /\ Len(t) = 4
    BY <1>3
  <2> QED
    BY <2>1 DEF DownTodo
<1>4. CASE t = <<"unbypass", "unshim", "exit">>
  <2>1. Tail(t) = <<"unshim", "exit">> /\ Head(t) = "unbypass" /\ Len(t) = 3
    BY <1>4
  <2> QED
    BY <2>1 DEF DownTodo
<1>5. CASE t = <<"unshim", "exit">>
  <2>1. Tail(t) = <<"exit">> /\ Head(t) = "unshim" /\ Len(t) = 2
    BY <1>5
  <2> QED
    BY <2>1 DEF DownTodo
<1>6. CASE t = <<"exit">>
  <2>1. Tail(t) = <<>> /\ Head(t) = "exit" /\ Len(t) = 1
    BY <1>6
  <2> QED
    BY <2>1 DEF DownTodo
<1> QED
  BY <1>1, <1>2, <1>3, <1>4, <1>5, <1>6 DEF DownTodo

\* The part has one session.
LEMMA OneSession == Resolver!Session = {1}
  BY DEF Resolver!Session

\* A function of the hook that returns leaves the rest of its list.
LEMMA HookReturns ==
  ASSUME Resolver!TypeOK, HookInv, NEW f, Resolver!At(1, f), Resolver!Return(1)
  PROVE  /\ hook' \in [Resolver!Session -> [reason : Resolver!Reason,
                         todo : Seq(Resolver!ShellFunctions), rc : {0, 1}]]
         /\ hook'[1].reason = hook[1].reason /\ hook'[1].rc = hook[1].rc
         /\ hook[1].todo # <<>>
         /\ Todos \in Nat /\ Todos' = Todos - 1
         /\ hook[1].reason = "pre-init" =>
              /\ hook'[1].todo \in PreTodo
              /\ <<f, Todos>> \in {<<"captureRoute", 5>>, <<"captureNs", 4>>, <<"base", 3>>,
                                   <<"pin", 2>>, <<"exit", 1>>}
         /\ Resolver!Connecting(hook[1].reason) =>
              /\ hook'[1].todo \in UpTodo
              /\ <<f, Todos>> \in {<<"base", 8>>, <<"pin", 7>>, <<"unscope", 6>>, <<"override", 5>>,
                                   <<"shim", 4>>, <<"bypass", 3>>, <<"warmup", 2>>, <<"exit", 1>>}
         /\ hook[1].reason = "disconnect" =>
              /\ hook'[1].todo \in DownTodo
              /\ <<f, Todos>> \in {<<"base", 6>>, <<"unpin", 5>>, <<"unprobe", 4>>,
                                   <<"unbypass", 3>>, <<"unshim", 2>>, <<"exit", 1>>}
<1> DEFINE t == hook[1].todo
<1>1. /\ hook \in [{1} -> [reason : Resolver!Reason,
                         todo : Seq(Resolver!ShellFunctions), rc : {0, 1}]]
      /\ t \in Seq(Resolver!ShellFunctions) /\ t # <<>> /\ Head(t) = f
  BY OneSession DEF Resolver!TypeOK, Resolver!At
<1>2. Tail(t) \in Seq(Resolver!ShellFunctions) /\ Len(Tail(t)) = Len(t) - 1 /\ Len(t) \in Nat
  BY <1>1
<1>3. /\ hook' \in [{1} -> [reason : Resolver!Reason,
                         todo : Seq(Resolver!ShellFunctions), rc : {0, 1}]]
      /\ hook'[1].reason = hook[1].reason /\ hook'[1].rc = hook[1].rc /\ hook'[1].todo = Tail(t)
  BY <1>1, <1>2 DEF Resolver!Return
<1> HIDE DEF t
<1>4. hook[1].reason = "pre-init" => t \in PreTodo
  BY DEF HookInv, t
<1>5. Resolver!Connecting(hook[1].reason) => t \in UpTodo
  BY DEF HookInv, t
<1>6. hook[1].reason = "disconnect" => t \in DownTodo
  BY DEF HookInv, t
<1>7. Todos = Len(t) /\ Todos' = Len(Tail(t))
  BY <1>3 DEF Todos, t
<1> QED
  BY <1>1, <1>2, <1>3, <1>4, <1>5, <1>6, <1>7, PreCalls, UpCalls, DownCalls, OneSession DEF t

\* openconnect runs the next hook from the start.
LEMMA HookStarts ==
  ASSUME Resolver!TypeOK, NEW r \in Resolver!Reason, Resolver!RunHook(1, r)
  PROVE  /\ hook' \in [Resolver!Session -> [reason : Resolver!Reason,
                         todo : Seq(Resolver!ShellFunctions), rc : {0, 1}]]
         /\ hook'[1].reason = r /\ hook'[1].rc = 0
         /\ hook[1].todo = <<>>
         /\ r = "pre-init" => hook'[1].todo \in PreTodo /\ Todos' = 5
         /\ Resolver!Connecting(r) => hook'[1].todo \in UpTodo /\ Todos' = 8
         /\ r = "disconnect" => hook'[1].todo \in DownTodo /\ Todos' = 6
<1>1. Resolver!Calls(r) \in Seq(Resolver!ShellFunctions)
  <2>1. CASE r = "pre-init"
    <3>1. Resolver!Calls(r) = <<"captureRoute", "captureNs", "base", "pin", "exit">>
      BY <2>1 DEF Resolver!Calls
    <3> QED
      BY <3>1 DEF Resolver!ShellFunctions
  <2>2. CASE r = "disconnect"
    <3>1. Resolver!Calls(r) = <<"base", "unpin", "unprobe", "unbypass", "unshim", "exit">>
      BY <2>2 DEF Resolver!Calls
    <3> QED
      BY <3>1 DEF Resolver!ShellFunctions
  <2>3. CASE r \notin {"pre-init", "disconnect"}
    <3>1. Resolver!Calls(r) = <<"base", "pin", "unscope", "override", "shim", "bypass", "warmup",
                                "exit">>
      BY <2>3 DEF Resolver!Calls
    <3> QED
      BY <3>1 DEF Resolver!ShellFunctions
  <2> QED
    BY <2>1, <2>2, <2>3
<1>2. /\ r = "pre-init" => Resolver!Calls(r) \in PreTodo /\ Len(Resolver!Calls(r)) = 5
      /\ r = "disconnect" => Resolver!Calls(r) \in DownTodo /\ Len(Resolver!Calls(r)) = 6
      /\ Resolver!Connecting(r) => Resolver!Calls(r) \in UpTodo /\ Len(Resolver!Calls(r)) = 8
  BY DEF Resolver!Calls, Resolver!Connecting, PreTodo, UpTodo, DownTodo
<1>3. /\ hook \in [{1} -> [reason : Resolver!Reason,
                         todo : Seq(Resolver!ShellFunctions), rc : {0, 1}]]
      /\ hook' = [hook EXCEPT ![1] = [reason |-> r, todo |-> Resolver!Calls(r), rc |-> 0]]
      /\ hook[1].todo = <<>>
  BY OneSession DEF Resolver!TypeOK, Resolver!RunHook
<1> QED
  BY <1>1, <1>2, <1>3, OneSession DEF Todos

\* The base command ends a hook that is not a disconnect when it fails.
LEMMA BaseReturns ==
  ASSUME Resolver!TypeOK, HookInv, Resolver!BaseCommand(1)
  PROVE  /\ hook' \in [Resolver!Session -> [reason : Resolver!Reason,
                         todo : Seq(Resolver!ShellFunctions), rc : {0, 1}]]
         /\ hook'[1].reason = hook[1].reason
         /\ hook[1].todo # <<>>
         /\ hook[1].reason = "pre-init" => hook'[1].todo \in PreTodo
         /\ Resolver!Connecting(hook[1].reason) =>
              /\ hook'[1].todo \in UpTodo /\ Todos = 8
              /\ Todos' = IF hook'[1].rc = 0 THEN 7 ELSE 1
         /\ hook[1].reason = "disconnect" => hook'[1].todo \in DownTodo /\ Todos = 6 /\ Todos' = 5
<1> DEFINE t == hook[1].todo
<1>1. /\ hook \in [{1} -> [reason : Resolver!Reason,
                         todo : Seq(Resolver!ShellFunctions), rc : {0, 1}]]
      /\ t \in Seq(Resolver!ShellFunctions) /\ t # <<>> /\ Head(t) = "base"
  BY OneSession DEF Resolver!TypeOK, Resolver!At, Resolver!BaseCommand
<1>2. Tail(t) \in Seq(Resolver!ShellFunctions) /\ Len(Tail(t)) = Len(t) - 1 /\ Len(t) \in Nat
  BY <1>1
<1>3. /\ <<"exit">> \in Seq(Resolver!ShellFunctions) /\ Len(<<"exit">>) = 1
      /\ <<"exit">> \in PreTodo /\ <<"exit">> \in UpTodo
  BY DEF Resolver!ShellFunctions, PreTodo, UpTodo
<1>4. PICK rc \in {0, 1} :
        hook' = [hook EXCEPT ![1].rc = rc,
                             ![1].todo = IF rc = 0 \/ hook[1].reason = "disconnect"
                                         THEN Tail(@) ELSE <<"exit">>]
  BY DEF Resolver!BaseCommand
<1>5. /\ hook' \in [{1} -> [reason : Resolver!Reason,
                         todo : Seq(Resolver!ShellFunctions), rc : {0, 1}]]
      /\ hook'[1].reason = hook[1].reason /\ hook'[1].rc = rc
      /\ hook'[1].todo = IF rc = 0 \/ hook[1].reason = "disconnect" THEN Tail(t) ELSE <<"exit">>
  BY <1>1, <1>2, <1>3, <1>4
<1> HIDE DEF t
<1>6. /\ hook[1].reason = "pre-init" => t \in PreTodo
      /\ Resolver!Connecting(hook[1].reason) => t \in UpTodo
      /\ hook[1].reason = "disconnect" => t \in DownTodo
  BY DEF HookInv, t
<1>7. Todos = Len(t) /\ Todos' = Len(hook'[1].todo) /\ t = hook[1].todo
  BY DEF Todos, t
<1>8. /\ hook[1].reason = "pre-init" => Tail(t) \in PreTodo
      /\ Resolver!Connecting(hook[1].reason) => Tail(t) \in UpTodo /\ Len(t) = 8
      /\ hook[1].reason = "disconnect" => Tail(t) \in DownTodo /\ Len(t) = 6
  BY <1>1, <1>6, PreCalls, UpCalls, DownCalls
<1>9. hook[1].reason = "disconnect" => ~Resolver!Connecting(hook[1].reason)
  BY DEF Resolver!Connecting
<1>10. hook[1].reason = "pre-init" => hook'[1].todo \in PreTodo
  BY <1>3, <1>5, <1>8
<1>11. ASSUME Resolver!Connecting(hook[1].reason)
       PROVE  /\ hook'[1].todo \in UpTodo /\ Todos = 8
              /\ Todos' = IF hook'[1].rc = 0 THEN 7 ELSE 1
  <2>1. CASE rc = 0
    <3>1. hook'[1].todo = Tail(t) /\ hook'[1].rc = 0
      BY <1>5, <2>1
    <3>2. Len(t) = 8
      BY <1>8, <1>11
    <3>3. Len(Tail(t)) = 7
      BY <1>2, <3>2
    <3> QED
      BY <1>7, <1>8, <1>11, <3>1, <3>2, <3>3
  <2>2. CASE rc = 1
    <3>1. hook'[1].todo = <<"exit">> /\ hook'[1].rc = 1
      BY <1>5, <1>9, <1>11, <2>2
    <3> QED
      BY <1>3, <1>7, <1>8, <1>11, <3>1
  <2> QED
    BY <2>1, <2>2
<1>12. hook[1].reason = "disconnect" => hook'[1].todo \in DownTodo /\ Todos = 6 /\ Todos' = 5
  BY <1>2, <1>5, <1>7, <1>8
<1> QED
  BY <1>1, <1>5, <1>7, <1>10, <1>11, <1>12, OneSession

\* search.tailscale and its backup stay files, and the search file the owner's or clean.
LEMMA SearchStays ==
  ASSUME Resolver!TypeOK, Resolver!SearchHandled(1)
  PROVE  /\ Resolver!IsFile(search') /\ DOMAIN backup' = Resolver!Session
         /\ \A s \in Resolver!Session : Resolver!IsFile(backup'[s])
         /\ unsanitized' \in BOOLEAN
         /\ SearchInv'
<1>1. /\ Resolver!IsFile(search) /\ Resolver!IsFile(backup[1])
      /\ DOMAIN backup = Resolver!Session /\ 1 \in Resolver!Session
  BY OneSession DEF Resolver!TypeOK
<1>2. ASSUME NEW x, Resolver!IsFile(x), NEW y \in Resolver!Parts(x)
      PROVE  Resolver!IsFile(y) /\ (x = NoFile => y = NoFile) /\ (x # NoFile => y \subseteq x)
  BY <1>2 DEF Resolver!Parts, Resolver!IsFile
<1>3. ASSUME NEW x, Resolver!IsFile(x)
      PROVE  /\ Resolver!IsFile(Resolver!Sanitized(x))
             /\ \/ Resolver!Sanitized(x) = NoFile
                \/ \A e \in Resolver!Sanitized(x) : Resolver!Covered(e, Resolver!Cleanup) =>
                                                    Resolver!Covered(e, BypassSuffixes)
  <2>1. CASE x = NoFile
    BY <1>3, <2>1 DEF Resolver!Sanitized
  <2>2. CASE x # NoFile /\ Resolver!Cleanup = {}
    BY <1>3, <2>2 DEF Resolver!Sanitized, Resolver!Covered
  <2>3. CASE x # NoFile /\ Resolver!Cleanup # {}
    <3>1. Resolver!Sanitized(x) = {e \in x : \/ Resolver!Covered(e, BypassSuffixes)
                                             \/ ~Resolver!Covered(e, Resolver!Cleanup)}
      BY <2>3 DEF Resolver!Sanitized
    <3> QED
      BY <1>3, <2>3, <3>1 DEF Resolver!IsFile
  <2> QED
    BY <2>1, <2>2, <2>3
<1>4. PICK saved \in Resolver!Saved(1) :
        /\ backup' = [backup EXCEPT ![1] = saved]
        /\ \E file \in Resolver!Restored(saved) :
             /\ search' \in Resolver!Parts(Resolver!Sanitized(file))
                             \cup IF Resolver!Failing THEN {file} ELSE {}
             /\ unsanitized' = (search' = file /\ file # Resolver!Sanitized(file))
  BY DEF Resolver!SearchHandled
<1>5. PICK file \in Resolver!Restored(saved) :
        /\ search' \in Resolver!Parts(Resolver!Sanitized(file)) \/ search' = file
        /\ unsanitized' = (search' = file /\ file # Resolver!Sanitized(file))
  BY <1>4
<1>6. Resolver!IsFile(saved)
  <2>1. saved = backup[1] \/ saved = NoFile \/ saved \in Resolver!Parts(search)
    BY DEF Resolver!Saved
  <2> QED
    BY <1>1, <1>2, <2>1 DEF Resolver!IsFile
<1>7. Resolver!IsFile(file)
  <2>1. file = search \/ file \in Resolver!Parts(saved)
    BY DEF Resolver!Restored
  <2> QED
    BY <1>1, <1>2, <1>6, <2>1
<1>8. DOMAIN backup' = Resolver!Session /\ \A s \in Resolver!Session : Resolver!IsFile(backup'[s])
  BY <1>1, <1>4, <1>6, OneSession
<1>9. unsanitized' \in BOOLEAN
  BY <1>5
<1>10. CASE search' \in Resolver!Parts(Resolver!Sanitized(file))
  <2>1. Resolver!IsFile(Resolver!Sanitized(file))
    BY <1>3, <1>7
  <2>2. /\ Resolver!IsFile(search')
        /\ Resolver!Sanitized(file) = NoFile => search' = NoFile
        /\ Resolver!Sanitized(file) # NoFile => search' \subseteq Resolver!Sanitized(file)
    BY <1>2, <1>10, <2>1
  <2>3. SearchInv'
    BY <1>3, <1>7, <2>2 DEF SearchInv
  <2> QED
    BY <1>8, <1>9, <2>2, <2>3
<1>11. CASE search' = file
  <2>1. CASE file = Resolver!Sanitized(file)
    <3>1. SearchInv'
      BY <1>3, <1>7, <1>11, <2>1 DEF SearchInv
    <3> QED
      BY <1>7, <1>8, <1>9, <1>11, <3>1
  <2>2. CASE file # Resolver!Sanitized(file)
    <3>1. SearchInv'
      BY <1>5, <1>11, <2>2 DEF SearchInv
    <3> QED
      BY <1>7, <1>8, <1>9, <1>11, <3>1
  <2> QED
    BY <2>1, <2>2
<1> QED
  BY <1>5, <1>10, <1>11

\* What the loop that writes the files of a kind leaves.
LEMMA WrittenFiles ==
  ASSUME Resolver!TypeOK, NEW mark \in {"shim", "bypass"}, NEW D, D \subseteq Resolver!Files,
         Resolver!Written(mark, D)
  PROVE  /\ resolver' \in [Resolver!Files -> Resolver!Content] /\ failed' \subseteq Resolver!Files
         /\ \A d \in Resolver!Files :
              d \notin D => resolver'[d] = resolver[d] /\ (d \in failed' <=> d \in failed)
         /\ \A d \in D : d \notin failed' => resolver'[d] = mark
         /\ \A d \in D : resolver'[d] \in {resolver[d], mark, "user"}
<1>1. PICK bad \in Resolver!Spoilt(D) :
        /\ \E left \in [bad -> {"old", mark, "user"}] :
             resolver' = [d \in Resolver!Files |->
                            IF d \in bad /\ left[d] # "old" THEN left[d]
                            ELSE IF d \in D \ bad THEN mark ELSE resolver[d]]
        /\ failed' = (failed \ D) \cup bad
  BY DEF Resolver!Written
<1>2. PICK left \in [bad -> {"old", mark, "user"}] :
        resolver' = [d \in Resolver!Files |->
                       IF d \in bad /\ left[d] # "old" THEN left[d]
                       ELSE IF d \in D \ bad THEN mark ELSE resolver[d]]
  BY <1>1
<1>3. bad \subseteq D
  BY DEF Resolver!Spoilt
<1>4. resolver \in [Resolver!Files -> Resolver!Content] /\ failed \subseteq Resolver!Files
  BY DEF Resolver!TypeOK
<1>5. ASSUME NEW d \in Resolver!Files
      PROVE  /\ resolver'[d] \in Resolver!Content
             /\ d \notin D => resolver'[d] = resolver[d]
             /\ d \in D \ bad => resolver'[d] = mark
             /\ resolver'[d] \in {resolver[d], mark, "user"}
  <2>1. d \in bad => left[d] \in {"old", mark, "user"}
    BY <1>2
  <2> QED
    BY <1>2, <1>3, <1>4, <2>1 DEF Resolver!Content
<1>6. resolver' \in [Resolver!Files -> Resolver!Content]
  BY <1>2, <1>5
<1> QED
  BY <1>1, <1>3, <1>4, <1>5, <1>6

\* What the loop that removes the files of a kind leaves.
LEMMA RemovedFiles ==
  ASSUME Resolver!TypeOK, NEW mark \in {"shim", "bypass"}, NEW D, D \subseteq Resolver!Files,
         Resolver!Removed(mark, D)
  PROVE  /\ resolver' \in [Resolver!Files -> Resolver!Content] /\ failed' \subseteq Resolver!Files
         /\ \A d \in Resolver!Files :
              d \notin D => resolver'[d] = resolver[d] /\ (d \in failed' <=> d \in failed)
         /\ \A d \in D : d \notin failed' => resolver'[d] # mark
         /\ \A d \in D : resolver'[d] \in {resolver[d], "none"}
<1>1. PICK bad \in Resolver!Spoilt(D) : /\ resolver' = Resolver!Without(mark, D \ bad)
                                        /\ failed' = (failed \ D) \cup bad
  BY DEF Resolver!Removed
<1>2. bad \subseteq D
  BY DEF Resolver!Spoilt
<1>3. resolver \in [Resolver!Files -> Resolver!Content] /\ failed \subseteq Resolver!Files
  BY DEF Resolver!TypeOK
<1>4. resolver' = [d \in Resolver!Files |->
                     IF d \in D \ bad /\ resolver[d] = mark THEN "none" ELSE resolver[d]]
  BY <1>1 DEF Resolver!Without
<1> QED
  BY <1>1, <1>2, <1>3, <1>4 DEF Resolver!Content

\* The files of each kind.
LEMMA Kinds ==
  /\ Resolver!Shim \subseteq Resolver!Files /\ BypassSuffixes \subseteq Resolver!Files
  /\ \A D \in SUBSET Resolver!Files, d \in Resolver!Files :
       /\ Resolver!Unmarked(D)[d] \in {resolver[d], "none"}
       /\ d \in D => Resolver!Unmarked(D)[d] \notin {"shim", "bypass"}
  /\ Resolver!TypeOK =>
       \A D \in SUBSET Resolver!Files :
         Resolver!Unmarked(D) \in [Resolver!Files -> Resolver!Content]
  BY DEF Resolver!Files, Resolver!Unmarked, Resolver!TypeOK, Resolver!Content

\* What the reader of the log makes of a line.
LEMMA LogReads ==
  ASSUME NEW st \in Resolver!LogState
  PROVE  /\ Resolver!ReadRoute(st) \in Resolver!LogState
         /\ Resolver!ReadShim(st) \in Resolver!LogState
         /\ \A rc : Resolver!ReadExit(st, rc) \in Resolver!LogState
         /\ \A r : Resolver!ReadReason(st, r) \in Resolver!LogState
<1> USE DEF Resolver!LogState
<1>1. Resolver!ReadRoute(st) \in Resolver!LogState
  BY DEF Resolver!ReadRoute
<1>2. Resolver!ReadShim(st) \in Resolver!LogState
  BY DEF Resolver!ReadShim
<1>3. ASSUME NEW rc PROVE Resolver!ReadExit(st, rc) \in Resolver!LogState
  BY DEF Resolver!ReadExit
<1>4. ASSUME NEW r PROVE Resolver!ReadReason(st, r) \in Resolver!LogState
  BY DEF Resolver!ReadReason, Resolver!Nothing
<1> QED
  BY <1>1, <1>2, <1>3, <1>4

\* Every step of the hook, of openconnect, of the command and of the other programs keeps
\* the types.
LEMMA ResolverTypeStep ==
  ASSUME Resolver!WrapperAssumption, Resolver!TypeOK, HookInv, WarmInv,
         Resolver!Next \/ UNCHANGED wrapperVars
  PROVE  Resolver!TypeOK'
<1> USE OneSession DEF Resolver!files, Resolver!resolvers, Resolver!searches, Resolver!net, Resolver!helper, Resolver!proc,
      Resolver!WrapperAssumption
<1>1. CASE Resolver!CaptureDefaultRoute(1)
  BY <1>1, HookReturns DEF Resolver!TypeOK, Resolver!CaptureDefaultRoute
<1>2. CASE Resolver!CapturePublicNameservers(1)
  BY <1>2, HookReturns DEF Resolver!TypeOK, Resolver!CapturePublicNameservers
<1>3. CASE Resolver!PinVpnGatewayRoute(1)
  BY <1>3, HookReturns DEF Resolver!TypeOK, Resolver!PinVpnGatewayRoute
<1>4. CASE Resolver!RemoveScopedDefaultRoute(1)
  BY <1>4, HookReturns DEF Resolver!TypeOK, Resolver!RemoveScopedDefaultRoute
<1>5. CASE Resolver!RemoveVpnGatewayRoute(1)
  BY <1>5, HookReturns DEF Resolver!TypeOK, Resolver!RemoveVpnGatewayRoute
<1>6. CASE Resolver!SyncProbeRemove(1)
  BY <1>6, HookReturns DEF Resolver!TypeOK, Resolver!SyncProbeRemove
<1>7. CASE Resolver!ApplyPublicBypassShim(1)
  <2>1. resolver' \in [Resolver!Files -> Resolver!Content] /\ failed' \subseteq Resolver!Files
    <3>1. CASE nameservers[1]
      BY <1>7, <3>1, WrittenFiles, Kinds DEF Resolver!ApplyPublicBypassShim
    <3>2. CASE ~nameservers[1]
      BY <1>7, <3>2 DEF Resolver!TypeOK, Resolver!ApplyPublicBypassShim
    <3> QED
      BY <3>1, <3>2
  <2> QED
    BY <1>7, <2>1, HookReturns DEF Resolver!TypeOK, Resolver!ApplyPublicBypassShim
<1>8. CASE Resolver!RemovePublicBypassShim(1)
  <2>1. resolver' \in [Resolver!Files -> Resolver!Content] /\ failed' \subseteq Resolver!Files
    BY <1>8, RemovedFiles, Kinds DEF Resolver!RemovePublicBypassShim
  <2> QED
    BY <1>8, <2>1, HookReturns DEF Resolver!TypeOK, Resolver!RemovePublicBypassShim
<1>9. CASE Resolver!EnforceRouteOverrides(1)
  <2>1. hookLog' \in [Resolver!Session -> Resolver!LogState]
    BY <1>9, LogReads DEF Resolver!TypeOK, Resolver!EnforceRouteOverrides
  <2> QED
    BY <1>9, <2>1, HookReturns DEF Resolver!TypeOK, Resolver!EnforceRouteOverrides
<1>10. CASE Resolver!BaseExit(1)
  <2>1. hookLog' \in [Resolver!Session -> Resolver!LogState]
    BY <1>10, LogReads DEF Resolver!TypeOK, Resolver!BaseExit
  <2> QED
    BY <1>10, <2>1, HookReturns DEF Resolver!TypeOK, Resolver!BaseExit
<1>11. CASE Resolver!ApplyDnsShim(1)
  <2>1. hookLog' \in [Resolver!Session -> Resolver!LogState]
    BY <1>11, LogReads DEF Resolver!TypeOK, Resolver!ApplyDnsShim
  <2>2. CASE Resolver!Written("shim", Resolver!Shim) /\ Resolver!SearchHandled(1)
    <3>1. resolver' \in [Resolver!Files -> Resolver!Content] /\ failed' \subseteq Resolver!Files
      BY <2>2, WrittenFiles, Kinds
    <3>2. owned' = owned
      BY <2>2 DEF Resolver!SearchHandled
    <3> QED
      BY <1>11, <2>1, <2>2, <3>1, <3>2, HookReturns, SearchStays
         DEF Resolver!TypeOK, Resolver!ApplyDnsShim
  <2>3. CASE failed' = failed \cup Resolver!Shim /\ UNCHANGED <<resolver, search, owned, unsanitized, backup>>
    BY <1>11, <2>1, <2>3, HookReturns, Kinds DEF Resolver!TypeOK, Resolver!ApplyDnsShim
  <2> QED
    BY <1>11, <2>2, <2>3 DEF Resolver!ApplyDnsShim
<1>12. CASE Resolver!RemoveDnsShim(1)
  <2>1. hookLog' \in [Resolver!Session -> Resolver!LogState]
    BY <1>12 DEF Resolver!TypeOK, Resolver!RemoveDnsShim
  <2>2. resolver' \in [Resolver!Files -> Resolver!Content] /\ failed' \subseteq Resolver!Files
    BY <1>12, RemovedFiles, Kinds DEF Resolver!RemoveDnsShim
  <2>3. Resolver!SearchHandled(1) /\ owned' = owned
    BY <1>12 DEF Resolver!RemoveDnsShim, Resolver!SearchHandled
  <2> QED
    BY <1>12, <2>1, <2>2, <2>3, HookReturns, SearchStays DEF Resolver!TypeOK, Resolver!RemoveDnsShim
<1>13. CASE Resolver!LaunchProbeHostRouteWarmup(1)
  <2>1. warm[1] \in Nat /\ reconnects[1] \in Nat /\ reconnects[1] <= MaxReconnect
    BY DEF Resolver!TypeOK
  <2>2. hook[1].reason \in Resolver!Reason
    BY DEF Resolver!TypeOK
  <2>3. Resolver!At(1, "warmup") /\ Resolver!Return(1)
    BY <1>13 DEF Resolver!LaunchProbeHostRouteWarmup
  <2>4. hook[1].reason \notin {"pre-init", "disconnect"}
    BY <2>3, HookReturns
  <2>5. Resolver!Connecting(hook[1].reason)
    BY <2>2, <2>4 DEF Resolver!Connecting, Resolver!Reason
  <2>6. Todos = 2
    BY <2>3, <2>5, HookReturns
  <2>7. warm[1] + 1 <= MaxReconnect + 1
    BY <2>1, <2>5, <2>6 DEF WarmInv
  <2>8. warm' \in [Resolver!Session -> 0..MaxReconnect + 1]
    BY <1>13, <2>1, <2>7 DEF Resolver!TypeOK, Resolver!LaunchProbeHostRouteWarmup
  <2> QED
    BY <1>13, <2>8, HookReturns DEF Resolver!TypeOK, Resolver!LaunchProbeHostRouteWarmup
<1>14. CASE Resolver!Warmup(1)
  <2>1. warm' \in [Resolver!Session -> 0..MaxReconnect + 1]
    BY <1>14 DEF Resolver!TypeOK, Resolver!Warmup
  <2> QED
    BY <1>14, <2>1 DEF Resolver!TypeOK, Resolver!Warmup
<1>15. CASE Resolver!BaseCommand(1)
  BY <1>15, BaseReturns DEF Resolver!TypeOK, Resolver!BaseCommand
<1>16. ASSUME NEW r \in Resolver!Reason, Resolver!RunHook(1, r)
      PROVE  hookLog' \in [Resolver!Session -> Resolver!LogState]
  BY <1>16, LogReads DEF Resolver!TypeOK, Resolver!RunHook
<1>17. CASE Resolver!PreInit(1)
  <2>1. "pre-init" \in Resolver!Reason /\ Resolver!RunHook(1, "pre-init")
    BY <1>17 DEF Resolver!PreInit, Resolver!Reason
  <2>2. oc' \in [Resolver!Session -> Resolver!Alive \cup Resolver!Gone \cup {"idle"}]
    BY <1>17 DEF Resolver!TypeOK, Resolver!PreInit, Resolver!Alive
  <2> QED
    BY <1>17, <1>16, <2>1, <2>2, HookStarts DEF Resolver!TypeOK, Resolver!PreInit, Resolver!RunHook
<1>18. CASE Resolver!ConnectHook(1)
  <2>1. "connect" \in Resolver!Reason /\ Resolver!RunHook(1, "connect")
    BY <1>18 DEF Resolver!ConnectHook, Resolver!Reason
  <2>2. oc' \in [Resolver!Session -> Resolver!Alive \cup Resolver!Gone \cup {"idle"}]
    BY <1>18 DEF Resolver!TypeOK, Resolver!ConnectHook, Resolver!Alive
  <2> QED
    BY <1>18, <1>16, <2>1, <2>2, HookStarts
       DEF Resolver!TypeOK, Resolver!ConnectHook, Resolver!RunHook
<1>19. CASE Resolver!DisconnectHook(1)
  <2>1. "disconnect" \in Resolver!Reason /\ Resolver!RunHook(1, "disconnect")
    BY <1>19 DEF Resolver!DisconnectHook, Resolver!Reason
  <2>2. oc' \in [Resolver!Session -> Resolver!Alive \cup Resolver!Gone \cup {"idle"}]
    BY <1>19 DEF Resolver!TypeOK, Resolver!DisconnectHook, Resolver!Alive
  <2> QED
    BY <1>19, <1>16, <2>1, <2>2, HookStarts
       DEF Resolver!TypeOK, Resolver!DisconnectHook, Resolver!RunHook
<1>20. CASE Resolver!ReconnectHook(1)
  <2>1. PICK r \in {"reconnect", "attempt-reconnect"} : Resolver!RunHook(1, r)
    BY <1>20 DEF Resolver!ReconnectHook
  <2>2. r \in Resolver!Reason
    BY DEF Resolver!Reason
  <2>3. reconnects' \in [Resolver!Session -> 0..MaxReconnect]
    BY <1>20 DEF Resolver!TypeOK, Resolver!ReconnectHook
  <2> QED
    BY <1>20, <1>16, <2>1, <2>2, <2>3, HookStarts DEF Resolver!TypeOK, Resolver!ReconnectHook,
       Resolver!RunHook
<1>21. CASE Resolver!Exit(1)
  BY <1>21 DEF Resolver!TypeOK, Resolver!Exit, Resolver!Ends, Resolver!Gone
<1>22. CASE Resolver!Kill(1)
  BY <1>22 DEF Resolver!TypeOK, Resolver!Kill, Resolver!Ends, Resolver!Gone
<1>23. CASE Resolver!Start(1)
  BY <1>23 DEF Resolver!TypeOK, Resolver!Start, Resolver!Step, Resolver!Alive
<1>24. CASE Resolver!Converge(1)
  BY <1>24 DEF Resolver!TypeOK, Resolver!Converge, Resolver!Step
<1>25. CASE Resolver!WarmupWait(1)
  BY <1>25 DEF Resolver!TypeOK, Resolver!WarmupWait, Resolver!Step
<1>26. CASE Resolver!Stop(1)
  BY <1>26 DEF Resolver!TypeOK, Resolver!Stop, Resolver!Step
<1>27. CASE Resolver!SeenGone(1)
  BY <1>27 DEF Resolver!TypeOK, Resolver!SeenGone, Resolver!Step, Resolver!Finished
<1>28. CASE Resolver!CleanupWait(1)
  BY <1>28 DEF Resolver!TypeOK, Resolver!CleanupWait, Resolver!Step, Resolver!Finished
<1>29. CASE Resolver!StaleStop(1)
  <2>1. resolver' \in [Resolver!Files -> Resolver!Content]
    BY <1>29, Kinds DEF Resolver!TypeOK, Resolver!StaleStop
  <2>2. go' \in [Resolver!Session -> {"idle", "conv", "warm", "connected", "undo", "stopping",
                                      "cleanup"} \cup Resolver!Finished]
    BY <1>29 DEF Resolver!TypeOK, Resolver!StaleStop, Resolver!Step, Resolver!Finished
  <2> QED
    BY <1>29, <2>1, <2>2 DEF Resolver!TypeOK, Resolver!StaleStop
<1>30. CASE Resolver!Roam
  BY <1>30 DEF Resolver!TypeOK, Resolver!Roam
<1>31. CASE Resolver!TailscaleWrites
  <2>1. Resolver!IsFile(search') /\ Resolver!IsFile(owned')
    <3>1. PICK f \in (SUBSET Entries) \cup {NoFile} : search' = f /\ owned' = f
      BY <1>31 DEF Resolver!TailscaleWrites
    <3>2. f = NoFile \/ f \subseteq Entries
      OBVIOUS
    <3> QED
      BY <3>1, <3>2 DEF Resolver!IsFile
  <2>2. UNCHANGED <<resolver, failed, unsanitized, defroute, pinned, tun, routes, backup, gateway,
                    nameservers, oc, intr, reconnects, hook, warm, hookLog, go>>
    BY <1>31 DEF Resolver!TailscaleWrites
  <2>3. \A s \in Resolver!Session : Resolver!IsFile(backup[s]) /\ backup' = backup
    BY <2>2 DEF Resolver!TypeOK
  <2> QED
    BY <2>1, <2>2, <2>3 DEF Resolver!TypeOK
<1>32. CASE Resolver!ForeignWrites
  BY <1>32 DEF Resolver!TypeOK, Resolver!ForeignWrites, Resolver!Content
<1>33. CASE UNCHANGED wrapperVars
  BY <1>33 DEF Resolver!TypeOK, wrapperVars
<1> QED
  BY <1>1, <1>2, <1>3, <1>4, <1>5, <1>6, <1>7, <1>8, <1>9, <1>10, <1>11, <1>12, <1>13,
     <1>14, <1>15, <1>17, <1>18, <1>19, <1>20, <1>21, <1>22, <1>23, <1>24,
     <1>25, <1>26, <1>27, <1>28, <1>29, <1>30, <1>31, <1>32, <1>33
     DEF Resolver!Next, Resolver!Hook, Resolver!OpenConnect, Resolver!Command

\* A function of the hook, by what it does to the log, the marks and the route.
HookMove(f) ==
  /\ Resolver!At(1, f) /\ Resolver!Return(1) /\ UNCHANGED <<oc, go, reconnects>>
  /\ warm'[1] = IF f = "warmup" THEN warm[1] + 1 ELSE warm[1]
  /\ f # "shim" => hookLog'[1] = CASE f = "override" -> Resolver!ReadRoute(hookLog[1])
                                    [] f = "exit"     -> Resolver!ReadExit(hookLog[1], hook[1].rc)
                                    [] OTHER          -> hookLog[1]
  /\ f # "captureNs" => nameservers' = nameservers
  /\ f = "unpin" => ~pinned'
  /\ f \notin {"pin", "unpin"} => pinned' = pinned
  /\ f \notin {"shim", "bypass", "unbypass", "unshim"} => UNCHANGED <<resolver, failed>>
  /\ f = "shim" => \/ /\ Resolver!Written("shim", Resolver!Shim)
                      /\ hookLog'[1] = Resolver!ReadShim(hookLog[1])
                   \/ /\ failed' = failed \cup Resolver!Shim
                      /\ UNCHANGED <<resolver, hookLog>>
  /\ f = "bypass" => IF nameservers[1] THEN Resolver!Written("bypass", BypassSuffixes)
                                       ELSE UNCHANGED <<resolver, failed>>
  /\ f = "unbypass" => Resolver!Removed("bypass", BypassSuffixes)
  /\ f = "unshim" => Resolver!Removed("shim", Resolver!Shim)

\* A step of the hook is the base command, the start of the warm-up or one such function.
LEMMA HookMoves ==
  ASSUME Resolver!TypeOK, Resolver!Hook(1)
  PROVE  \/ Resolver!BaseCommand(1) \/ Resolver!Warmup(1)
         \/ \E f \in Resolver!ShellFunctions : HookMove(f)
<1> USE OneSession DEF Resolver!files, Resolver!resolvers, Resolver!searches, Resolver!net, Resolver!helper, Resolver!proc, HookMove
<1>0. warm[1] \in Nat /\ DOMAIN hookLog = {1} /\ DOMAIN warm = {1}
  BY DEF Resolver!TypeOK
<1>1. CASE Resolver!CaptureDefaultRoute(1)
  <2>1. HookMove("captureRoute")
    BY <1>0, <1>1 DEF Resolver!CaptureDefaultRoute
  <2> QED
    BY <2>1 DEF Resolver!ShellFunctions
<1>2. CASE Resolver!CapturePublicNameservers(1)
  <2>1. HookMove("captureNs")
    BY <1>0, <1>2 DEF Resolver!CapturePublicNameservers
  <2> QED
    BY <2>1 DEF Resolver!ShellFunctions
<1>3. CASE Resolver!PinVpnGatewayRoute(1)
  <2>1. HookMove("pin")
    BY <1>0, <1>3 DEF Resolver!PinVpnGatewayRoute
  <2> QED
    BY <2>1 DEF Resolver!ShellFunctions
<1>4. CASE Resolver!RemoveScopedDefaultRoute(1)
  <2>1. HookMove("unscope")
    BY <1>0, <1>4 DEF Resolver!RemoveScopedDefaultRoute
  <2> QED
    BY <2>1 DEF Resolver!ShellFunctions
<1>5. CASE Resolver!EnforceRouteOverrides(1)
  <2>1. HookMove("override")
    BY <1>0, <1>5 DEF Resolver!EnforceRouteOverrides
  <2> QED
    BY <2>1 DEF Resolver!ShellFunctions
<1>6. CASE Resolver!ApplyDnsShim(1)
  <2>1. HookMove("shim")
    BY <1>0, <1>6 DEF Resolver!ApplyDnsShim
  <2> QED
    BY <2>1 DEF Resolver!ShellFunctions
<1>7. CASE Resolver!ApplyPublicBypassShim(1)
  <2>1. HookMove("bypass")
    BY <1>0, <1>7 DEF Resolver!ApplyPublicBypassShim
  <2> QED
    BY <2>1 DEF Resolver!ShellFunctions
<1>8. CASE Resolver!LaunchProbeHostRouteWarmup(1)
  <2>1. HookMove("warmup")
    BY <1>0, <1>8 DEF Resolver!LaunchProbeHostRouteWarmup
  <2> QED
    BY <2>1 DEF Resolver!ShellFunctions
<1>9. CASE Resolver!RemoveVpnGatewayRoute(1)
  <2>1. HookMove("unpin")
    BY <1>0, <1>9 DEF Resolver!RemoveVpnGatewayRoute
  <2> QED
    BY <2>1 DEF Resolver!ShellFunctions
<1>10. CASE Resolver!SyncProbeRemove(1)
  <2>1. HookMove("unprobe")
    BY <1>0, <1>10 DEF Resolver!SyncProbeRemove
  <2> QED
    BY <2>1 DEF Resolver!ShellFunctions
<1>11. CASE Resolver!RemovePublicBypassShim(1)
  <2>1. HookMove("unbypass")
    BY <1>0, <1>11 DEF Resolver!RemovePublicBypassShim
  <2> QED
    BY <2>1 DEF Resolver!ShellFunctions
<1>12. CASE Resolver!RemoveDnsShim(1)
  <2>1. HookMove("unshim")
    BY <1>0, <1>12 DEF Resolver!RemoveDnsShim
  <2> QED
    BY <2>1 DEF Resolver!ShellFunctions
<1>13. CASE Resolver!BaseExit(1)
  <2>1. HookMove("exit")
    BY <1>0, <1>13 DEF Resolver!BaseExit
  <2> QED
    BY <2>1 DEF Resolver!ShellFunctions
<1> QED
  BY <1>1, <1>2, <1>3, <1>4, <1>5, <1>6, <1>7, <1>8, <1>9, <1>10, <1>11, <1>12, <1>13
     DEF Resolver!Hook

\* The hook of a reason begins.
HookBegins(r) ==
  /\ Resolver!RunHook(1, r)
  /\ oc' = [oc EXCEPT ![1] = CASE r = "pre-init" -> "inited"
                                [] r = "disconnect" -> "ending"
                                [] OTHER -> "up"]
  /\ oc[1] = CASE r = "pre-init" -> "boot" [] r = "connect" -> "inited" [] OTHER -> "up"
  /\ reconnects'[1] = IF r \in {"reconnect", "attempt-reconnect"}
                      THEN reconnects[1] + 1 ELSE reconnects[1]

\* openconnect begins a hook, waits for one, or goes.
LEMMA OpenConnectMoves ==
  ASSUME Resolver!TypeOK, Resolver!OpenConnect(1)
  PROVE  Resolver!Exit(1) \/ \E r \in Resolver!Reason : HookBegins(r)
<1> USE OneSession DEF Resolver!proc
<1>1. CASE Resolver!PreInit(1)
  <2>1. HookBegins("pre-init")
    BY <1>1 DEF Resolver!PreInit, HookBegins
  <2> QED
    BY <2>1 DEF Resolver!Reason
<1>2. CASE Resolver!ConnectHook(1)
  <2>1. HookBegins("connect")
    BY <1>2 DEF Resolver!ConnectHook, HookBegins
  <2> QED
    BY <2>1 DEF Resolver!Reason
<1>3. CASE Resolver!ReconnectHook(1)
  <2>1. PICK r \in {"reconnect", "attempt-reconnect"} : Resolver!RunHook(1, r)
    BY <1>3 DEF Resolver!ReconnectHook
  <2>2. oc = [oc EXCEPT ![1] = "up"] /\ oc' = oc /\ oc[1] = "up"
    BY <1>3 DEF Resolver!TypeOK, Resolver!ReconnectHook
  <2>3. reconnects'[1] = reconnects[1] + 1
    BY <1>3 DEF Resolver!TypeOK, Resolver!ReconnectHook
  <2>4. HookBegins(r)
    BY <2>1, <2>2, <2>3 DEF HookBegins
  <2> QED
    BY <2>4 DEF Resolver!Reason
<1>4. CASE Resolver!DisconnectHook(1)
  <2>1. HookBegins("disconnect")
    BY <1>4 DEF Resolver!DisconnectHook, HookBegins
  <2> QED
    BY <2>1 DEF Resolver!Reason
<1> QED
  BY <1>1, <1>2, <1>3, <1>4 DEF Resolver!OpenConnect

\* Steps that touch neither the hook nor openconnect nor its log.
LEMMA QuietMoves ==
  ASSUME \/ Resolver!Warmup(1) \/ Resolver!Converge(1) \/ Resolver!WarmupWait(1)
         \/ Resolver!Stop(1) \/ Resolver!SeenGone(1) \/ Resolver!CleanupWait(1)
         \/ Resolver!StaleStop(1) \/ Resolver!Roam \/ Resolver!TailscaleWrites
         \/ Resolver!ForeignWrites \/ UNCHANGED wrapperVars
  PROVE  UNCHANGED <<hook, oc, hookLog, nameservers, reconnects, pinned>>
<1> USE DEF Resolver!files, Resolver!resolvers, Resolver!searches, Resolver!net, Resolver!helper, Resolver!proc
<1>1. CASE Resolver!Warmup(1) \/ Resolver!Roam \/ Resolver!TailscaleWrites \/ Resolver!ForeignWrites
  BY <1>1 DEF Resolver!Warmup, Resolver!Roam, Resolver!TailscaleWrites, Resolver!ForeignWrites
<1>2. CASE Resolver!Converge(1) \/ Resolver!WarmupWait(1) \/ Resolver!Stop(1)
  BY <1>2 DEF Resolver!Converge, Resolver!WarmupWait, Resolver!Stop
<1>3. CASE Resolver!SeenGone(1) \/ Resolver!CleanupWait(1) \/ Resolver!StaleStop(1)
  BY <1>3 DEF Resolver!SeenGone, Resolver!CleanupWait, Resolver!StaleStop
<1> QED
  BY <1>1, <1>2, <1>3 DEF wrapperVars

\* The steps of the part, by what they touch.
LEMMA ResolverMoves ==
  ASSUME Resolver!TypeOK, Resolver!Next \/ UNCHANGED wrapperVars
  PROVE  \/ \E f \in Resolver!ShellFunctions : HookMove(f)
         \/ Resolver!BaseCommand(1)
         \/ \E r \in Resolver!Reason : HookBegins(r)
         \/ Resolver!Exit(1) \/ Resolver!Kill(1) \/ Resolver!Start(1)
         \/ Resolver!Warmup(1) \/ Resolver!Converge(1) \/ Resolver!WarmupWait(1)
         \/ Resolver!Stop(1) \/ Resolver!SeenGone(1) \/ Resolver!CleanupWait(1)
         \/ Resolver!StaleStop(1) \/ Resolver!Roam \/ Resolver!TailscaleWrites
         \/ Resolver!ForeignWrites \/ UNCHANGED wrapperVars
  BY HookMoves, OpenConnectMoves, OneSession DEF Resolver!Next, Resolver!Command

\* Every step keeps the hook in the list of its reason, and the reason that of the stage.
LEMMA HookStep ==
  ASSUME Resolver!TypeOK, HookInv, GoInv, Resolver!Next \/ UNCHANGED wrapperVars
  PROVE  HookInv'
<1>0. /\ oc \in [{1} -> Resolver!Alive \cup Resolver!Gone \cup {"idle"}]
      /\ hook[1].reason \in Resolver!Reason
  BY OneSession DEF Resolver!TypeOK
<1>1. ASSUME NEW f \in Resolver!ShellFunctions, HookMove(f) PROVE HookInv'
  <2>1. oc[1] \notin {"idle", "boot", "left"} /\ oc' = oc
    BY <1>1, HookReturns DEF HookInv, HookMove
  <2>2. oc[1] \in Early => hookLog'[1] = Resolver!Nothing
    <3>1. ASSUME oc[1] \in Early PROVE hookLog[1] = Resolver!Nothing
      BY <3>1 DEF HookInv
    <3>2. /\ Resolver!ReadRoute(Resolver!Nothing) = Resolver!Nothing
          /\ Resolver!ReadShim(Resolver!Nothing) = Resolver!Nothing
          /\ Resolver!ReadExit(Resolver!Nothing, hook[1].rc) = Resolver!Nothing
      BY DEF Resolver!ReadRoute, Resolver!ReadShim, Resolver!ReadExit, Resolver!Nothing
    <3> QED
      BY <1>1, <3>1, <3>2 DEF HookMove
  <2> QED
    BY <1>1, <2>1, <2>2, HookReturns DEF HookInv, HookMove
<1>2. CASE Resolver!BaseCommand(1)
  <2>1. oc' = oc /\ hookLog' = hookLog
    BY <1>2 DEF Resolver!BaseCommand, Resolver!proc
  <2>2. oc[1] \notin {"idle", "boot", "left"}
    BY <1>2, BaseReturns DEF HookInv
  <2> QED
    BY <1>2, <2>1, <2>2, BaseReturns DEF HookInv
<1>3. ASSUME NEW r \in Resolver!Reason, HookBegins(r) PROVE HookInv'
  <2>1. Resolver!RunHook(1, r)
    BY <1>3 DEF HookBegins
  <2>2. r = "pre-init" => hookLog'[1] = Resolver!Nothing
    <3>1. ASSUME r = "pre-init" PROVE hookLog[1] = Resolver!Nothing
      BY <1>3, <3>1 DEF HookBegins, HookInv, Early
    <3>2. Resolver!ReadReason(Resolver!Nothing, "pre-init") = Resolver!Nothing
      BY DEF Resolver!ReadReason, Resolver!Nothing, Resolver!Connecting
    <3> QED
      BY <2>1, <3>1, <3>2, OneSession DEF Resolver!RunHook, Resolver!TypeOK
  <2>3. oc'[1] = CASE r = "pre-init" -> "inited" [] r = "disconnect" -> "ending" [] OTHER -> "up"
    BY <1>0, <1>3 DEF HookBegins
  <2>4. r \notin {"pre-init", "disconnect"} <=> Resolver!Connecting(r)
    BY DEF Resolver!Reason, Resolver!Connecting
  <2> QED
    BY <2>1, <2>2, <2>3, <2>4, HookStarts DEF HookInv, Early
<1>4. CASE Resolver!Exit(1) \/ Resolver!Kill(1)
  <2>1. hook' = hook /\ hookLog' = hookLog
    BY <1>4 DEF Resolver!Exit, Resolver!Kill
  <2>2. oc'[1] = "dead" \/ (oc'[1] = "left" /\ oc[1] = "ending" /\ hook[1].todo = <<>>)
    BY <1>0, <1>4 DEF Resolver!Exit, Resolver!Kill, Resolver!Ends
  <2> QED
    BY <2>1, <2>2 DEF HookInv, Early
<1>5. CASE Resolver!Start(1)
  <2>1. oc[1] = "idle" /\ oc'[1] = "boot" /\ hook' = hook /\ hookLog' = hookLog
    BY <1>0, <1>5 DEF Resolver!Start, GoInv
  <2> QED
    BY <2>1 DEF HookInv, Early
<1>6. ASSUME UNCHANGED <<hook, oc, hookLog>> PROVE HookInv'
  BY <1>6 DEF HookInv
<1> QED
  BY <1>1, <1>2, <1>3, <1>4, <1>5, <1>6, ResolverMoves, QuietMoves

\* Every step keeps the verdict of the command behind the end of openconnect.
LEMMA GoStep ==
  ASSUME Resolver!TypeOK, HookInv, GoInv, Resolver!Next \/ UNCHANGED wrapperVars
  PROVE  GoInv'
<1>0. /\ oc \in [{1} -> Resolver!Alive \cup Resolver!Gone \cup {"idle"}]
      /\ go \in [{1} -> {"idle", "conv", "warm", "connected", "undo", "stopping", "cleanup"}
                        \cup Resolver!Finished]
  BY OneSession DEF Resolver!TypeOK
<1> USE DEF Early
<1>1. ASSUME oc' = oc, go' = go PROVE GoInv'
  BY <1>1 DEF GoInv
<1>2. ASSUME NEW f \in Resolver!ShellFunctions, HookMove(f) PROVE GoInv'
  BY <1>1, <1>2 DEF HookMove
<1>3. CASE Resolver!BaseCommand(1) \/ Resolver!Warmup(1)
  BY <1>1, <1>3 DEF Resolver!BaseCommand, Resolver!Warmup, Resolver!proc
<1>4. ASSUME NEW r \in Resolver!Reason, HookBegins(r) PROVE GoInv'
  <2>1. go' = go /\ oc'[1] \in {"inited", "ending", "up"} /\ oc[1] \in {"boot", "inited", "up"}
    BY <1>0, <1>4 DEF HookBegins, Resolver!RunHook
  <2>2. oc'[1] = "inited" => oc[1] = "boot"
    BY <1>0, <1>4 DEF HookBegins
  <2> QED
    BY <2>1, <2>2 DEF GoInv, Resolver!Gone
<1>5. CASE Resolver!Exit(1) \/ Resolver!Kill(1)
  <2>1. go' = go /\ oc'[1] \in {"left", "dead"} /\ oc[1] \in Resolver!Alive
    BY <1>0, <1>5 DEF Resolver!Exit, Resolver!Kill, Resolver!Ends
  <2> QED
    BY <2>1 DEF GoInv, Resolver!Gone, Resolver!Alive
<1>6. CASE Resolver!Start(1)
  <2>1. oc'[1] = "boot" /\ go'[1] = "conv"
    BY <1>0, <1>6 DEF Resolver!Start, Resolver!Step
  <2> QED
    BY <2>1 DEF GoInv
<1>7. CASE Resolver!Converge(1)
  <2>1. oc' = oc
    BY <1>7, QuietMoves
  <2>2. go'[1] = "warm" => Resolver!Ready(hookLog[1])
    BY <1>0, <1>7 DEF Resolver!Converge, Resolver!Step
  <2>3. go'[1] \in {"warm", "undo"}
    BY <1>0, <1>7 DEF Resolver!Converge, Resolver!Step
  <2>4. ~Resolver!Ready(Resolver!Nothing)
    BY DEF Resolver!Ready, Resolver!Nothing
  <2> QED
    BY <2>1, <2>2, <2>3, <2>4 DEF GoInv, HookInv
<1>8. CASE Resolver!WarmupWait(1) \/ Resolver!Stop(1)
  <2>1. /\ oc' = oc /\ go[1] \in {"warm", "connected"} /\ go'[1] \in {"connected", "stopping"}
        /\ go'[1] = "connected" => go[1] = "warm"
    BY <1>0, <1>8, QuietMoves DEF Resolver!WarmupWait, Resolver!Stop, Resolver!Step
  <2> QED
    BY <2>1 DEF GoInv
<1>9. CASE Resolver!SeenGone(1) \/ Resolver!CleanupWait(1) \/ Resolver!StaleStop(1)
  <2>1. oc' = oc /\ oc[1] \in Resolver!Gone
    BY <1>9, QuietMoves DEF Resolver!SeenGone, Resolver!CleanupWait, Resolver!StaleStop, GoInv
  <2>2. go'[1] \notin {"idle", "warm", "connected"}
    BY <1>0, <1>9 DEF Resolver!SeenGone, Resolver!CleanupWait, Resolver!StaleStop, Resolver!Step
  <2> QED
    BY <2>1, <2>2 DEF GoInv, Resolver!Gone
<1>10. CASE \/ Resolver!Roam \/ Resolver!TailscaleWrites \/ Resolver!ForeignWrites
            \/ UNCHANGED wrapperVars
  BY <1>1, <1>10, QuietMoves DEF Resolver!Roam, Resolver!TailscaleWrites, Resolver!ForeignWrites,
     wrapperVars
<1> QED
  BY <1>2, <1>3, <1>4, <1>5, <1>6, <1>7, <1>8, <1>9, <1>10, ResolverMoves

\* Every step keeps the warm-ups bounded by the hooks that start them.
LEMMA WarmStep ==
  ASSUME Resolver!TypeOK, HookInv, WarmInv, Resolver!Next \/ UNCHANGED wrapperVars
  PROVE  WarmInv'
<1>0. /\ hook[1].reason \in Resolver!Reason /\ warm[1] \in Nat /\ reconnects[1] \in Nat
      /\ warm \in [{1} -> 0..MaxReconnect + 1]
  BY OneSession DEF Resolver!TypeOK
<1>1. ASSUME NEW f \in Resolver!ShellFunctions, HookMove(f) PROVE WarmInv'
  <2>1. /\ hook'[1].reason = hook[1].reason /\ Todos \in Nat /\ Todos' = Todos - 1
        /\ reconnects' = reconnects
        /\ warm'[1] = IF f = "warmup" THEN warm[1] + 1 ELSE warm[1]
    BY <1>1, HookReturns DEF HookMove
  <2>2. f = "warmup" => Resolver!Connecting(hook[1].reason) /\ Todos = 2
    BY <1>0, <1>1, HookReturns DEF HookMove, Resolver!Connecting, Resolver!Reason
  <2>3. CASE f = "warmup"
    BY <1>0, <2>1, <2>2, <2>3 DEF WarmInv
  <2>4. CASE f # "warmup"
    BY <1>0, <2>1, <2>4 DEF WarmInv
  <2> QED
    BY <2>3, <2>4
<1>2. CASE Resolver!BaseCommand(1)
  <2>1. reconnects' = reconnects /\ warm' = warm
    BY <1>2 DEF Resolver!BaseCommand, Resolver!proc
  <2>2. hook'[1].reason = hook[1].reason /\ (Resolver!Connecting(hook[1].reason) => Todos = 8)
    BY <1>2, BaseReturns
  <2> QED
    BY <1>0, <2>1, <2>2 DEF WarmInv
<1>3. ASSUME NEW r \in Resolver!Reason, HookBegins(r) PROVE WarmInv'
  <2>1. Resolver!RunHook(1, r) /\ warm' = warm
    BY <1>3 DEF HookBegins, Resolver!RunHook
  <2>2. hook'[1].reason = r /\ hook[1].todo = <<>> /\ Todos = 0
    BY <2>1, HookStarts DEF Todos
  <2>3. warm[1] <= reconnects[1] + (IF hook[1].reason = "pre-init" THEN 0 ELSE 1)
    BY <1>0, <2>2 DEF WarmInv
  <2>4. CASE r \in {"pre-init", "connect"}
    <3>1. hook[1].reason = "pre-init" /\ reconnects'[1] = reconnects[1]
      BY <1>3, <2>4 DEF HookBegins, HookInv, Early
    <3>2. r = "pre-init" => ~Resolver!Connecting(r)
      BY DEF Resolver!Connecting
    <3> QED
      BY <1>0, <2>1, <2>2, <2>3, <2>4, <3>1, <3>2 DEF WarmInv
  <2>5. CASE r \notin {"pre-init", "connect"}
    <3>1. hook[1].reason # "pre-init"
      BY <1>3, <2>5 DEF HookBegins, HookInv, Resolver!Connecting
    <3>2. reconnects'[1] = IF r \in {"reconnect", "attempt-reconnect"}
                            THEN reconnects[1] + 1 ELSE reconnects[1]
      BY <1>3 DEF HookBegins
    <3>3. r = "disconnect" => ~Resolver!Connecting(r)
      BY DEF Resolver!Connecting
    <3>4. r \in {"reconnect", "attempt-reconnect", "disconnect"}
      BY <2>5 DEF Resolver!Reason
    <3> QED
      BY <1>0, <2>1, <2>2, <2>3, <2>5, <3>1, <3>2, <3>3, <3>4 DEF WarmInv
  <2> QED
    BY <2>4, <2>5
<1>4. CASE Resolver!Exit(1) \/ Resolver!Kill(1) \/ Resolver!Start(1)
  BY <1>4 DEF Resolver!Exit, Resolver!Kill, Resolver!Start, Resolver!Ends, WarmInv, Todos
<1>5. CASE Resolver!Warmup(1)
  <2>1. warm'[1] = warm[1] - 1
    BY <1>0, <1>5 DEF Resolver!Warmup
  <2> QED
    BY <1>0, <1>5, <2>1, QuietMoves DEF WarmInv, Todos
<1>6. ASSUME UNCHANGED <<hook, reconnects, warm>> PROVE WarmInv'
  BY <1>6 DEF WarmInv, Todos
<1>7. CASE \/ Resolver!Converge(1) \/ Resolver!WarmupWait(1) \/ Resolver!Stop(1)
           \/ Resolver!SeenGone(1) \/ Resolver!CleanupWait(1) \/ Resolver!StaleStop(1)
  BY <1>6, <1>7, QuietMoves DEF Resolver!Converge, Resolver!WarmupWait, Resolver!Stop,
     Resolver!SeenGone, Resolver!CleanupWait, Resolver!StaleStop
<1>8. CASE \/ Resolver!Roam \/ Resolver!TailscaleWrites \/ Resolver!ForeignWrites
            \/ UNCHANGED wrapperVars
  BY <1>6, <1>8, QuietMoves DEF Resolver!Roam, Resolver!TailscaleWrites, Resolver!ForeignWrites,
     wrapperVars
<1> QED
  BY <1>1, <1>2, <1>3, <1>4, <1>5, <1>7, <1>8, ResolverMoves

\* The search file is that of its owner, or lists nothing that the VPN answers.
LEMMA SearchStep ==
  ASSUME Resolver!TypeOK, SearchInv, Resolver!Next \/ UNCHANGED wrapperVars
  PROVE  SearchInv'
<1> USE DEF Resolver!files, Resolver!resolvers, Resolver!searches, Resolver!net, Resolver!helper, Resolver!proc
<1>1. ASSUME UNCHANGED <<search, owned, unsanitized>> PROVE SearchInv'
  BY <1>1 DEF SearchInv
<1>2. CASE Resolver!ApplyDnsShim(1) \/ Resolver!RemoveDnsShim(1)
  BY <1>1, <1>2, SearchStays DEF Resolver!ApplyDnsShim, Resolver!RemoveDnsShim
<1>3. CASE Resolver!TailscaleWrites
  BY <1>3 DEF Resolver!TailscaleWrites, SearchInv
<1>4. CASE \/ Resolver!CaptureDefaultRoute(1) \/ Resolver!CapturePublicNameservers(1)
           \/ Resolver!BaseCommand(1) \/ Resolver!PinVpnGatewayRoute(1)
           \/ Resolver!RemoveScopedDefaultRoute(1) \/ Resolver!EnforceRouteOverrides(1)
  BY <1>1, <1>4 DEF Resolver!CaptureDefaultRoute, Resolver!CapturePublicNameservers,
     Resolver!BaseCommand, Resolver!PinVpnGatewayRoute, Resolver!RemoveScopedDefaultRoute,
     Resolver!EnforceRouteOverrides
<1>5. CASE \/ Resolver!ApplyPublicBypassShim(1) \/ Resolver!LaunchProbeHostRouteWarmup(1)
           \/ Resolver!RemoveVpnGatewayRoute(1) \/ Resolver!SyncProbeRemove(1)
           \/ Resolver!RemovePublicBypassShim(1) \/ Resolver!BaseExit(1) \/ Resolver!Warmup(1)
  BY <1>1, <1>5 DEF Resolver!ApplyPublicBypassShim, Resolver!LaunchProbeHostRouteWarmup,
     Resolver!RemoveVpnGatewayRoute, Resolver!SyncProbeRemove, Resolver!RemovePublicBypassShim,
     Resolver!BaseExit, Resolver!Warmup
<1>6. CASE Resolver!OpenConnect(1)
  BY <1>1, <1>6 DEF Resolver!OpenConnect, Resolver!PreInit, Resolver!ConnectHook,
     Resolver!ReconnectHook, Resolver!DisconnectHook, Resolver!Exit, Resolver!RunHook
<1>7. CASE Resolver!Command(1)
  BY <1>1, <1>7 DEF Resolver!Command, Resolver!Start, Resolver!Converge, Resolver!WarmupWait,
     Resolver!Stop, Resolver!Kill, Resolver!SeenGone, Resolver!CleanupWait, Resolver!StaleStop
<1>8. CASE Resolver!Roam \/ Resolver!ForeignWrites \/ UNCHANGED wrapperVars
  BY <1>1, <1>8 DEF Resolver!Roam, Resolver!ForeignWrites, wrapperVars
<1> QED
  BY <1>2, <1>3, <1>4, <1>5, <1>6, <1>7, <1>8, OneSession DEF Resolver!Next, Resolver!Hook

\* What each function of the hook does to the files.
LEMMA MarkMoves ==
  ASSUME Resolver!WrapperAssumption, Resolver!TypeOK, NEW f, HookMove(f)
  PROVE  /\ f \notin {"shim", "bypass", "unbypass", "unshim"} =>
              resolver' = resolver /\ failed' = failed
         /\ f \in {"shim", "unshim"} =>
              \A d \in BypassSuffixes : resolver'[d] = resolver[d] /\ (d \in failed' <=> d \in failed)
         /\ f \in {"bypass", "unbypass"} =>
              \A d \in Resolver!Shim : resolver'[d] = resolver[d] /\ (d \in failed' <=> d \in failed)
         /\ f = "shim" => \A d \in Resolver!Shim :
              /\ d \notin failed' => resolver'[d] = "shim"
              /\ resolver'[d] \in {resolver[d], "shim", "user"}
         /\ f = "bypass" => \A d \in BypassSuffixes :
              /\ nameservers[1] /\ d \notin failed' => resolver'[d] = "bypass"
              /\ ~nameservers[1] => resolver'[d] = resolver[d] /\ (d \in failed' <=> d \in failed)
              /\ resolver'[d] \in {resolver[d], "bypass", "user"}
         /\ f = "unbypass" => \A d \in BypassSuffixes :
              /\ d \notin failed' => resolver'[d] # "bypass"
              /\ resolver'[d] \in {resolver[d], "none"}
         /\ f = "unshim" => \A d \in Resolver!Shim :
              /\ d \notin failed' => resolver'[d] # "shim"
              /\ resolver'[d] \in {resolver[d], "none"}
<1>0. \A d \in Resolver!Shim : d \notin BypassSuffixes
  BY ShimIsNoBypass
<1>1. CASE f \notin {"shim", "bypass", "unbypass", "unshim"}
  BY <1>1 DEF HookMove
<1>2. CASE f = "shim"
  <2>1. CASE Resolver!Written("shim", Resolver!Shim)
    BY <1>0, <1>2, <2>1, WrittenFiles, Kinds
  <2>2. CASE failed' = failed \cup Resolver!Shim /\ resolver' = resolver
    BY <1>0, <1>2, <2>2
  <2> QED
    BY <1>2, <2>1, <2>2 DEF HookMove
<1>3. CASE f = "bypass"
  <2>1. CASE nameservers[1]
    <3>1. Resolver!Written("bypass", BypassSuffixes)
      BY <1>3, <2>1 DEF HookMove
    <3> QED
      BY <1>0, <1>3, <2>1, <3>1, WrittenFiles, Kinds
  <2>2. CASE ~nameservers[1]
    BY <1>3, <2>2 DEF HookMove
  <2> QED
    BY <2>1, <2>2
<1>4. CASE f = "unbypass"
  <2>1. Resolver!Removed("bypass", BypassSuffixes)
    BY <1>4 DEF HookMove
  <2> QED
    BY <1>0, <1>4, <2>1, RemovedFiles, Kinds
<1>5. CASE f = "unshim"
  <2>1. Resolver!Removed("shim", Resolver!Shim)
    BY <1>5 DEF HookMove
  <2> QED
    BY <1>0, <1>5, <2>1, RemovedFiles, Kinds
<1> QED
  BY <1>1, <1>2, <1>3, <1>4, <1>5

\* Every step that is not a function of the hook leaves the failures as they are, and adds no
\* mark.
LEMMA MarksStay ==
  ASSUME Resolver!TypeOK, Resolver!Next \/ UNCHANGED wrapperVars,
         ~\E f \in Resolver!ShellFunctions : HookMove(f)
  PROVE  /\ failed' = failed
         /\ \A d \in Resolver!Files : resolver'[d] \in {resolver[d], "user", "none"}
<1> USE DEF Resolver!files, Resolver!resolvers
<1>1. CASE Resolver!BaseCommand(1) \/ Resolver!Warmup(1) \/ \E r \in Resolver!Reason : HookBegins(r)
  BY <1>1 DEF Resolver!BaseCommand, Resolver!Warmup, HookBegins, Resolver!RunHook
<1>2. CASE Resolver!Exit(1) \/ Resolver!Kill(1) \/ Resolver!Start(1) \/ Resolver!Converge(1)
  BY <1>2 DEF Resolver!Exit, Resolver!Kill, Resolver!Start, Resolver!Converge
<1>3. CASE Resolver!WarmupWait(1) \/ Resolver!Stop(1) \/ Resolver!SeenGone(1) \/ Resolver!CleanupWait(1)
  BY <1>3 DEF Resolver!WarmupWait, Resolver!Stop, Resolver!SeenGone, Resolver!CleanupWait
<1>4. CASE Resolver!StaleStop(1)
  BY <1>4, Kinds DEF Resolver!StaleStop
<1>5. CASE Resolver!ForeignWrites
  BY <1>5 DEF Resolver!ForeignWrites, Resolver!TypeOK
<1>6. CASE Resolver!Roam \/ Resolver!TailscaleWrites \/ UNCHANGED wrapperVars
  BY <1>6 DEF Resolver!Roam, Resolver!TailscaleWrites, wrapperVars
<1> QED
  BY <1>1, <1>2, <1>3, <1>4, <1>5, <1>6, ResolverMoves

\* Every step keeps each mark on the domains of its kind.
LEMMA KindStep ==
  ASSUME Resolver!WrapperAssumption, Resolver!TypeOK, KindInv,
         Resolver!Next \/ UNCHANGED wrapperVars
  PROVE  KindInv'
<1>0. /\ Resolver!Files = Resolver!Shim \cup BypassSuffixes
      /\ \A d \in Resolver!Shim : d \notin BypassSuffixes
  BY ShimIsNoBypass DEF Resolver!Files
<1>1. ASSUME NEW f \in Resolver!ShellFunctions, HookMove(f) PROVE KindInv'
  <2>1. CASE f \notin {"shim", "bypass", "unbypass", "unshim"}
    BY <1>1, <2>1, MarkMoves DEF KindInv
  <2>2. CASE f \in {"shim", "bypass"}
    BY <1>0, <1>1, <2>2, MarkMoves DEF KindInv
  <2>3. CASE f \in {"unbypass", "unshim"}
    BY <1>0, <1>1, <2>3, MarkMoves DEF KindInv
  <2> QED
    BY <2>1, <2>2, <2>3
<1>2. CASE ~\E f \in Resolver!ShellFunctions : HookMove(f)
  BY <1>2, MarksStay DEF KindInv
<1> QED
  BY <1>1, <1>2

\* Every step keeps what the log says of the files true while the session is up.
LEMMA UpStep ==
  ASSUME Resolver!WrapperAssumption, Resolver!TypeOK, HookInv, GoInv, UpInv,
         Resolver!Next \/ UNCHANGED wrapperVars
  PROVE  UpInv'
<1>0. /\ oc \in [{1} -> Resolver!Alive \cup Resolver!Gone \cup {"idle"}]
      /\ go \in [{1} -> {"idle", "conv", "warm", "connected", "undo", "stopping", "cleanup"}
                        \cup Resolver!Finished]
      /\ hook[1].reason \in Resolver!Reason /\ hookLog \in [{1} -> Resolver!LogState]
  BY OneSession DEF Resolver!TypeOK
<1>1. ASSUME oc'[1] # "up" PROVE UpInv'
  BY <1>1 DEF UpInv
<1>2. ASSUME NEW f \in Resolver!ShellFunctions, HookMove(f), oc[1] = "up" PROVE UpInv'
  <2>1. /\ Resolver!Connecting(hook[1].reason) /\ hook'[1].rc = hook[1].rc
        /\ Todos \in Nat /\ Todos' = Todos - 1
        /\ <<f, Todos>> \in {<<"base", 8>>, <<"pin", 7>>, <<"unscope", 6>>, <<"override", 5>>,
                             <<"shim", 4>>, <<"bypass", 3>>, <<"warmup", 2>>, <<"exit", 1>>}
    BY <1>2, HookReturns DEF HookMove, HookInv
  <2>2. oc' = oc /\ go' = go /\ nameservers' = nameservers
    BY <1>2, <2>1 DEF HookMove
  <2>3. ShimsUp => ShimsUp'
    BY <1>2, <2>1, MarkMoves DEF ShimsUp
  <2>4. BypassUp => BypassUp'
    BY <1>2, <2>1, MarkMoves DEF BypassUp
  <2>5. f = "shim" => ShimsUp'
    BY <1>2, MarkMoves DEF ShimsUp
  <2>6. f = "bypass" /\ nameservers[1] => BypassUp'
    BY <1>2, MarkMoves DEF BypassUp
  <2>7. hookLog'[1].shim => hookLog[1].shim \/ f = "shim"
    BY <1>0, <1>2, <2>1 DEF HookMove, Resolver!ReadRoute, Resolver!ReadShim,
       Resolver!ReadExit, Resolver!LogState
  <2>8. hookLog'[1].exit = "ok" => hookLog[1].exit = "ok" \/ (f = "exit" /\ hook[1].rc = 0)
    BY <1>0, <1>2, <2>1 DEF HookMove, Resolver!ReadRoute, Resolver!ReadShim,
       Resolver!ReadExit, Resolver!LogState
  <2>9. nameservers[1] /\ hook[1].rc = 0 /\ Todos' \in {1, 2} => BypassUp'
    BY <1>2, <2>1, <2>4, <2>6 DEF UpInv
  <2>10. nameservers[1] /\ hookLog'[1].exit = "ok" => BypassUp'
    BY <1>2, <2>1, <2>4, <2>8 DEF UpInv
  <2> QED
    BY <1>2, <2>1, <2>2, <2>3, <2>4, <2>5, <2>7, <2>9, <2>10 DEF UpInv
<1>3. CASE Resolver!BaseCommand(1) /\ oc[1] = "up"
  <2>1. UNCHANGED <<oc, go, hookLog, nameservers, resolver, failed>>
    BY <1>3 DEF Resolver!BaseCommand, Resolver!files, Resolver!resolvers, Resolver!searches, Resolver!helper, Resolver!proc
  <2>2. Todos' = IF hook'[1].rc = 0 THEN 7 ELSE 1
    BY <1>3, BaseReturns DEF HookInv
  <2> QED
    BY <2>1, <2>2 DEF UpInv, ShimsUp, BypassUp
<1>4. ASSUME NEW r \in Resolver!Reason, HookBegins(r), oc'[1] = "up" PROVE UpInv'
  <2>1. UNCHANGED <<go, nameservers, resolver, failed>> /\ Resolver!RunHook(1, r)
    BY <1>4 DEF HookBegins, Resolver!RunHook, Resolver!files, Resolver!resolvers, Resolver!searches, Resolver!helper
  <2>2. r \notin {"pre-init", "disconnect"}
    BY <1>0, <1>4 DEF HookBegins
  <2>3. Resolver!Connecting(r)
    BY <2>2 DEF Resolver!Reason, Resolver!Connecting
  <2>4. Todos' = 8
    BY <2>1, <2>3, HookStarts
  <2>5. ~hookLog'[1].shim /\ hookLog'[1].exit = "none"
    BY <1>0, <2>1, <2>3 DEF Resolver!RunHook, Resolver!ReadReason, Resolver!Nothing
  <2>6. go[1] \in {"warm", "connected"} => oc[1] = "up"
    BY <1>4, <2>2 DEF HookBegins, GoInv, Early
  <2> QED
    BY <2>1, <2>4, <2>5, <2>6 DEF UpInv, ShimsUp, BypassUp
<1>5. CASE Resolver!Exit(1) \/ Resolver!Kill(1) \/ Resolver!Start(1)
  <2>1. oc'[1] # "up"
    BY <1>0, <1>5 DEF Resolver!Exit, Resolver!Kill, Resolver!Start, Resolver!Ends
  <2> QED
    BY <1>1, <2>1
<1>6. CASE Resolver!Converge(1)
  <2>1. UNCHANGED <<hook, oc, hookLog, nameservers, resolver, failed>>
    BY <1>6, QuietMoves DEF Resolver!Converge, Resolver!files, Resolver!resolvers, Resolver!searches
  <2>2. /\ go'[1] \in {"warm", "undo"}
        /\ go'[1] = "warm" => Resolver!Ready(hookLog[1])
    BY <1>0, <1>6 DEF Resolver!Converge, Resolver!Step
  <2>3. Resolver!Ready(hookLog[1]) => /\ hookLog[1].exit = "ok"
                                      /\ Resolver!Shim = {} \/ hookLog[1].shim
    BY DEF Resolver!Ready
  <2>4. Resolver!Shim = {} => ShimsUp
    BY DEF ShimsUp
  <2> QED
    BY <2>1, <2>2, <2>3, <2>4 DEF UpInv, ShimsUp, BypassUp, Todos
<1>7. CASE \/ Resolver!WarmupWait(1) \/ Resolver!Stop(1) \/ Resolver!SeenGone(1)
           \/ Resolver!CleanupWait(1)
  <2>1. UNCHANGED <<hook, oc, hookLog, nameservers, resolver, failed>>
    BY <1>7, QuietMoves DEF Resolver!WarmupWait, Resolver!Stop, Resolver!SeenGone,
       Resolver!CleanupWait, Resolver!files, Resolver!resolvers, Resolver!searches
  <2>2. go'[1] \in {"warm", "connected"} => go[1] \in {"warm", "connected"}
    BY <1>0, <1>7 DEF Resolver!WarmupWait, Resolver!Stop, Resolver!SeenGone, Resolver!CleanupWait,
       Resolver!Step
  <2> QED
    BY <2>1, <2>2 DEF UpInv, ShimsUp, BypassUp, Todos
<1>8. CASE Resolver!StaleStop(1)
  <2>1. oc'[1] # "up"
    BY <1>8, QuietMoves DEF Resolver!StaleStop, Resolver!Gone
  <2> QED
    BY <1>1, <2>1
<1>9. CASE Resolver!Warmup(1) \/ Resolver!Roam \/ Resolver!TailscaleWrites \/ UNCHANGED wrapperVars
  <2>1. UNCHANGED <<hook, oc, hookLog, nameservers, resolver, failed, go>>
    BY <1>9, QuietMoves DEF Resolver!Warmup, Resolver!Roam, Resolver!TailscaleWrites,
       Resolver!files, Resolver!resolvers, Resolver!searches, wrapperVars
  <2> QED
    BY <2>1 DEF UpInv, ShimsUp, BypassUp, Todos
<1>10. CASE Resolver!ForeignWrites
  <2>1. UNCHANGED <<hook, oc, hookLog, nameservers, go, failed>>
    BY <1>10, QuietMoves DEF Resolver!ForeignWrites
  <2>2. \A d \in Resolver!Files : resolver'[d] \in {resolver[d], "user"}
    BY <1>10 DEF Resolver!ForeignWrites, Resolver!TypeOK
  <2>3. (ShimsUp => ShimsUp') /\ (BypassUp => BypassUp')
    BY <2>1, <2>2 DEF ShimsUp, BypassUp, Resolver!Files
  <2> QED
    BY <2>1, <2>3 DEF UpInv, Todos
<1>11. ASSUME NEW f \in Resolver!ShellFunctions, HookMove(f), oc[1] # "up" PROVE UpInv'
  BY <1>1, <1>11 DEF HookMove
<1>12. CASE Resolver!BaseCommand(1) /\ oc[1] # "up"
  BY <1>1, <1>12 DEF Resolver!BaseCommand, Resolver!proc
<1> QED
  BY <1>1, <1>2, <1>3, <1>4, <1>5, <1>6, <1>7, <1>8, <1>9, <1>10, <1>11, <1>12, ResolverMoves

\* There are shim files to look for when there are bypass files to leave behind.
SomethingToAwait == Resolver!Shim # {} \/ BypassSuffixes = {}

\* Every step keeps the marks where a stop, or a disconnect hook, will find and remove them.
LEMMA CleanStep ==
  ASSUME Resolver!WrapperAssumption, SomethingToAwait, Resolver!TypeOK, HookInv, GoInv,
         KindInv, CleanInv, Resolver!Next \/ UNCHANGED wrapperVars
  PROVE  CleanInv'
<1>0. /\ oc \in [{1} -> Resolver!Alive \cup Resolver!Gone \cup {"idle"}]
      /\ go \in [{1} -> {"idle", "conv", "warm", "connected", "undo", "stopping", "cleanup"}
                        \cup Resolver!Finished]
      /\ hook[1].reason \in Resolver!Reason /\ warm \in [{1} -> 0..MaxReconnect + 1]
      /\ hook[1].todo \in Seq(Resolver!ShellFunctions)
  BY OneSession DEF Resolver!TypeOK
<1>f. /\ Resolver!Files = Resolver!Shim \cup BypassSuffixes
      /\ \A d \in Resolver!Shim : d \notin BypassSuffixes
  BY ShimIsNoBypass DEF Resolver!Files
<1>r. ASSUME NEW r, Resolver!Connecting(r) PROVE r # "disconnect"
  BY <1>r DEF Resolver!Connecting
<1>1. ASSUME NEW f \in Resolver!ShellFunctions, HookMove(f) PROVE CleanInv'
  <2>1. /\ hook'[1].reason = hook[1].reason /\ hook[1].todo # <<>>
        /\ Todos \in Nat /\ Todos' = Todos - 1 /\ go' = go
        /\ hook[1].reason = "pre-init" => f \notin {"shim", "bypass", "unbypass", "unshim"}
        /\ Resolver!Connecting(hook[1].reason) =>
              <<f, Todos>> \in {<<"base", 8>>, <<"pin", 7>>, <<"unscope", 6>>, <<"override", 5>>,
                                <<"shim", 4>>, <<"bypass", 3>>, <<"warmup", 2>>, <<"exit", 1>>}
        /\ hook[1].reason = "disconnect" =>
              <<f, Todos>> \in {<<"base", 6>>, <<"unpin", 5>>, <<"unprobe", 4>>, <<"unbypass", 3>>,
                                <<"unshim", 2>>, <<"exit", 1>>}
    BY <1>1, HookReturns DEF HookMove
  <2>2. /\ hook[1].reason = "pre-init" \/ Resolver!Connecting(hook[1].reason)
             \/ hook[1].reason = "disconnect"
        /\ go[1] # "stopped"
    BY <1>0, <2>1 DEF Resolver!Reason, Resolver!Connecting, CleanInv
  <2>3. /\ f \in {"shim", "bypass"} => Resolver!Connecting(hook[1].reason)
        /\ f \in {"unbypass", "unshim"} => hook[1].reason = "disconnect"
    BY <2>1, <2>2
  <2>4. CASE f \notin {"shim", "bypass", "unbypass", "unshim"}
    <3>1. resolver' = resolver /\ failed' = failed
      BY <1>1, <2>4, MarkMoves
    <3>2. hook[1].reason = "disconnect" /\ Todos' <= 4 => ~pinned'
      BY <1>1, <2>1, <2>4 DEF HookMove, CleanInv
    <3>3. hook[1].reason = "disconnect" => /\ Todos' <= 2 => Unremoved("bypass")
                                           /\ Todos' <= 1 => Unremoved("shim")
      BY <2>1, <2>4 DEF CleanInv
    <3>4. Resolver!Connecting(hook[1].reason) => Todos' # 3
      BY <2>1, <2>4
    <3> QED
      BY <2>1, <2>2, <3>1, <3>2, <3>3, <3>4 DEF CleanInv, Marked, NoneMissing, Unremoved
  <2>5. CASE f = "shim"
    <3>1. NoneMissing' \/ \E d \in failed' : d \in Resolver!Shim
      BY <1>1, <2>5, MarkMoves DEF NoneMissing
    <3>2. NoneMissing' \/ failed' # {}
      BY <3>1
    <3> QED
      BY <1>r, <2>1, <2>2, <2>3, <2>5, <3>1, <3>2 DEF CleanInv
  <2>6. CASE f = "bypass"
    <3>1. Todos = 3 /\ Todos' = 2
      BY <2>1, <2>3, <2>6
    <3>2. go[1] \notin {"stale", "failed"} => NoneMissing \/ \E d \in failed : d \in Resolver!Shim
      BY <2>3, <2>6, <3>1 DEF CleanInv
    <3>3. go[1] \notin {"stale", "failed"} => NoneMissing' \/ failed' # {}
      BY <1>1, <2>6, <3>2, MarkMoves DEF NoneMissing
    <3> QED
      BY <1>r, <2>1, <2>2, <2>3, <2>6, <3>1, <3>3 DEF CleanInv
  <2>7. CASE f = "unbypass"
    <3>1. Unremoved("bypass")'
      BY <1>1, <1>f, <2>7, KindStep, MarkMoves DEF KindInv, Unremoved
    <3>2. Marked("bypass")' => failed' # {}
      BY <3>1 DEF Marked, Unremoved
    <3>3. Todos = 3 /\ Todos' = 2 /\ ~pinned'
      BY <1>1, <2>1, <2>3, <2>7 DEF CleanInv, HookMove
    <3> QED
      BY <1>r, <2>1, <2>2, <2>3, <2>7, <3>1, <3>2, <3>3 DEF CleanInv
  <2>8. CASE f = "unshim"
    <3>1. Todos = 2 /\ Todos' = 1 /\ ~pinned' /\ Unremoved("bypass")
      BY <1>1, <2>1, <2>3, <2>8 DEF CleanInv, HookMove
    <3>2. Unremoved("bypass")' /\ Unremoved("shim")'
      BY <1>1, <1>f, <2>8, <3>1, KindStep, MarkMoves DEF KindInv, Unremoved
    <3>3. Marked("bypass")' => failed' # {}
      BY <3>2 DEF Marked, Unremoved
    <3> QED
      BY <1>r, <2>1, <2>2, <2>3, <2>8, <3>1, <3>2, <3>3 DEF CleanInv
  <2> QED
    BY <2>4, <2>5, <2>6, <2>7, <2>8
<1>2. CASE Resolver!BaseCommand(1)
  <2>1. UNCHANGED <<go, resolver, failed, pinned, warm>>
    BY <1>2 DEF Resolver!BaseCommand, Resolver!files, Resolver!resolvers, Resolver!searches, Resolver!net
  <2>2. /\ hook'[1].reason = hook[1].reason /\ hook[1].todo # <<>>
        /\ Resolver!Connecting(hook[1].reason) => Todos' \in {7, 1}
        /\ hook[1].reason = "disconnect" => Todos' = 5
    BY <1>2, BaseReturns
  <2> QED
    BY <2>1, <2>2 DEF CleanInv, Marked, NoneMissing, Unremoved
<1>3. ASSUME NEW r \in Resolver!Reason, HookBegins(r) PROVE CleanInv'
  <2>1. UNCHANGED <<go, resolver, failed, pinned, warm>> /\ Resolver!RunHook(1, r)
    BY <1>3 DEF HookBegins, Resolver!RunHook, Resolver!files, Resolver!resolvers, Resolver!searches
  <2>2. /\ hook'[1].reason = r
        /\ Resolver!Connecting(r) => Todos' = 8
        /\ r = "disconnect" => Todos' = 6
    BY <2>1, HookStarts
  <2>3. go[1] # "stopped"
    BY <1>3 DEF HookBegins, GoInv, Resolver!Gone
  <2> QED
    BY <2>1, <2>2, <2>3 DEF CleanInv, Marked, NoneMissing, Unremoved
<1>4. CASE Resolver!Exit(1) \/ Resolver!Kill(1)
  <2>1. UNCHANGED <<go, resolver, failed, pinned, warm, hook>>
    BY <1>4 DEF Resolver!Exit, Resolver!Kill, Resolver!Ends, Resolver!files, Resolver!resolvers, Resolver!searches
  <2> QED
    BY <2>1 DEF CleanInv, Marked, NoneMissing, Unremoved, Todos
<1>5. ASSUME UNCHANGED <<resolver, failed, pinned, hook>>, go'[1] # "stopped",
             go[1] \in {"stale", "failed"} => go'[1] \in {"stale", "failed"}
      PROVE  CleanInv'
  BY <1>5 DEF CleanInv, Marked, NoneMissing, Unremoved, Todos
<1>6. CASE Resolver!Start(1) \/ Resolver!Converge(1) \/ Resolver!WarmupWait(1) \/ Resolver!Stop(1)
           \/ Resolver!SeenGone(1)
  <2>1. UNCHANGED <<resolver, failed, pinned, hook>>
    BY <1>6 DEF Resolver!Start, Resolver!Converge, Resolver!WarmupWait, Resolver!Stop,
       Resolver!SeenGone, Resolver!files, Resolver!resolvers, Resolver!searches, Resolver!net
  <2>2. go'[1] # "stopped" /\ go[1] \notin {"stale", "failed"}
    BY <1>0, <1>6 DEF Resolver!Start, Resolver!Converge, Resolver!WarmupWait, Resolver!Stop,
       Resolver!SeenGone, Resolver!Step
  <2> QED
    BY <1>5, <2>1, <2>2
<1>7. CASE Resolver!CleanupWait(1)
  <2>1. UNCHANGED <<resolver, failed, pinned, hook, warm>> /\ go[1] = "cleanup"
    BY <1>7 DEF Resolver!CleanupWait, Resolver!files, Resolver!resolvers, Resolver!searches, Resolver!net
  <2>2. go'[1] = IF Resolver!Pending(1) THEN "timeout" ELSE "stopped"
    BY <1>0, <1>7 DEF Resolver!CleanupWait, Resolver!Step
  <2>3. CASE Resolver!Pending(1)
    BY <1>5, <2>1, <2>2, <2>3
  <2>4. CASE ~Resolver!Pending(1)
    <3>1. hook[1].todo = <<>> /\ warm[1] = 0 /\ \A d \in Resolver!Shim : resolver[d] = "none"
      BY <1>0, <2>4 DEF Resolver!Pending
    <3>2. ~Marked("shim")
      BY <3>1 DEF KindInv, Marked
    <3>3. Marked("bypass") => failed # {}
      BY <2>1, <3>1 DEF SomethingToAwait, KindInv, CleanInv, Marked, NoneMissing
    <3> QED
      BY <2>1, <2>2, <2>4, <3>1, <3>2, <3>3 DEF CleanInv, Marked, NoneMissing, Unremoved, Todos
  <2> QED
    BY <2>3, <2>4
<1>8. CASE Resolver!StaleStop(1)
  <2>1. UNCHANGED <<failed, pinned, hook>> /\ go'[1] \in {"stale", "failed"}
    BY <1>0, <1>8 DEF Resolver!StaleStop, Resolver!net, Resolver!Step
  <2>2. \A d \in Resolver!Files : resolver'[d] \in {resolver[d], "none"}
    BY <1>8, Kinds DEF Resolver!StaleStop
  <2>3. (Unremoved("bypass") => Unremoved("bypass")') /\ (Unremoved("shim") => Unremoved("shim")')
    BY <2>1, <2>2 DEF Unremoved
  <2> QED
    BY <2>1, <2>3 DEF CleanInv, Todos
<1>9. CASE Resolver!Warmup(1)
  <2>1. UNCHANGED <<resolver, failed, pinned, hook, go>> /\ go[1] # "stopped"
    BY <1>0, <1>9 DEF Resolver!Warmup, Resolver!files, Resolver!resolvers, Resolver!searches, CleanInv
  <2> QED
    BY <1>5, <2>1
<1>10. CASE Resolver!Roam \/ Resolver!TailscaleWrites \/ UNCHANGED wrapperVars
  <2>1. UNCHANGED <<resolver, failed, pinned, hook, go, warm>>
    BY <1>10 DEF Resolver!Roam, Resolver!TailscaleWrites, wrapperVars, Resolver!files, Resolver!resolvers, Resolver!searches, Resolver!net
  <2> QED
    BY <2>1 DEF CleanInv, Marked, NoneMissing, Unremoved, Todos
<1>11. CASE Resolver!ForeignWrites
  <2>1. UNCHANGED <<failed, pinned, hook, go, warm>>
    BY <1>11 DEF Resolver!ForeignWrites, Resolver!net
  <2>2. \A d \in Resolver!Files : resolver'[d] \in {resolver[d], "user"}
    BY <1>11 DEF Resolver!ForeignWrites, Resolver!TypeOK
  <2>3. /\ Marked("shim")' => Marked("shim")
        /\ Marked("bypass")' => Marked("bypass")
        /\ NoneMissing => NoneMissing'
    BY <1>f, <2>2 DEF Marked, NoneMissing
  <2>4. (Unremoved("bypass") => Unremoved("bypass")') /\ (Unremoved("shim") => Unremoved("shim")')
    BY <2>1, <2>2 DEF Unremoved
  <2> QED
    BY <2>1, <2>3, <2>4 DEF CleanInv, Todos
<1> QED
  BY <1>1, <1>2, <1>3, <1>4, <1>6, <1>7, <1>8, <1>9, <1>10, <1>11, ResolverMoves

\* The inductive invariant of the part.
ResolverInv ==
  /\ Resolver!TypeOK /\ HookInv /\ GoInv /\ WarmInv /\ UpInv /\ KindInv /\ CleanInv
  /\ SearchInv

\* It holds before the first command.
LEMMA ResolverStarts ==
  ASSUME Resolver!WrapperAssumption, Resolver!Init
  PROVE  ResolverInv
<1> USE OneSession DEF Resolver!Init
<1>1. Resolver!TypeOK
  <2>1. Resolver!IsFile(search) /\ Resolver!IsFile(owned) /\ Resolver!IsFile(NoFile)
    BY DEF Resolver!IsFile
  <2>2. \A s \in Resolver!Session : Resolver!IsFile(backup[s])
    BY <2>1
  <2>3. hookLog \in [Resolver!Session -> Resolver!LogState]
    BY DEF Resolver!LogState, Resolver!Nothing
  <2>4. <<>> \in Seq(Resolver!ShellFunctions)
    OBVIOUS
  <2>5. hook \in [Resolver!Session -> [reason : Resolver!Reason,
                    todo : Seq(Resolver!ShellFunctions), rc : {0, 1}]]
    BY <2>4 DEF Resolver!Reason
  <2>6. /\ resolver \in [Resolver!Files -> Resolver!Content] /\ failed \subseteq Resolver!Files
        /\ unsanitized \in BOOLEAN
        /\ defroute \in BOOLEAN /\ pinned \in BOOLEAN /\ tun \in Resolver!Session \cup {0}
        /\ routes \subseteq {"default", "net", "probe"} /\ (tun = 0 => routes = {})
        /\ DOMAIN backup = Resolver!Session
    BY DEF Resolver!Content
  <2>7. /\ gateway \in [Resolver!Session -> BOOLEAN]
        /\ nameservers \in [Resolver!Session -> BOOLEAN]
        /\ intr \in [Resolver!Session -> BOOLEAN]
    OBVIOUS
  <2>8. /\ reconnects \in [Resolver!Session -> 0..MaxReconnect]
        /\ warm \in [Resolver!Session -> 0..MaxReconnect + 1]
    BY DEF Resolver!WrapperAssumption
  <2>9. /\ oc \in [Resolver!Session -> Resolver!Alive \cup Resolver!Gone \cup {"idle"}]
        /\ go \in [Resolver!Session -> {"idle", "conv", "warm", "connected", "undo",
                                        "stopping", "cleanup"} \cup Resolver!Finished]
    OBVIOUS
  <2> QED
    BY <2>1, <2>2, <2>3, <2>5, <2>6, <2>7, <2>8, <2>9 DEF Resolver!TypeOK
<1>2. /\ hook[1] = [reason |-> "pre-init", todo |-> <<>>, rc |-> 0] /\ oc[1] = "idle"
      /\ hookLog[1] = Resolver!Nothing /\ go[1] = "idle" /\ warm[1] = 0 /\ reconnects[1] = 0
  OBVIOUS
<1>3. HookInv /\ GoInv
  BY <1>2 DEF HookInv, GoInv, Early, PreTodo, Resolver!Connecting
<1>4. WarmInv
  BY <1>2 DEF WarmInv, Todos, Resolver!Connecting
<1>5. UpInv /\ SearchInv
  BY <1>2 DEF UpInv, SearchInv
<1>6. KindInv /\ CleanInv
  BY <1>2 DEF KindInv, CleanInv, Marked, Resolver!Connecting
<1> QED
  BY <1>1, <1>3, <1>4, <1>5, <1>6 DEF ResolverInv

\* Every step keeps it.
LEMMA ResolverInductive ==
  ASSUME Resolver!WrapperAssumption, SomethingToAwait, ResolverInv,
         Resolver!Next \/ UNCHANGED wrapperVars
  PROVE  ResolverInv'
  BY ResolverTypeStep, HookStep, GoStep, WarmStep, UpStep, KindStep, CleanStep,
     SearchStep
     DEF ResolverInv

\* It implies what the run checks.
LEMMA ResolverImplied ==
  ASSUME Resolver!WrapperAssumption, ResolverInv
  PROVE  /\ Resolver!TypeOK /\ Resolver!VpnNamesOnVpn /\ Resolver!BypassWhenCaptured
         /\ Resolver!SearchClean /\ Resolver!StoppedClean /\ Resolver!DisconnectCleans
<1> USE OneSession DEF ResolverInv
<1>1. Resolver!VpnNamesOnVpn
  <2>1. Resolver!Connected(1) => ShimsUp
    BY DEF Resolver!Connected, UpInv
  <2> QED
    BY <2>1, ShimAnswers DEF Resolver!VpnNamesOnVpn
<1>2. Resolver!BypassWhenCaptured
  <2>1. Resolver!Connected(1) /\ nameservers[1] => BypassUp
    BY DEF Resolver!Connected, UpInv
  <2> QED
    BY <2>1, BypassAnswers DEF Resolver!BypassWhenCaptured
<1>3. Resolver!SearchClean
  BY DEF Resolver!SearchClean, SearchInv
<1>4. Resolver!StoppedClean
  BY DEF Resolver!StoppedClean, CleanInv, Marked
<1>5. Resolver!DisconnectCleans
  <2>1. ASSUME oc[1] = "left" PROVE hook[1].reason = "disconnect" /\ Todos = 0
    BY <2>1 DEF HookInv, Todos
  <2> QED
    BY <2>1 DEF Resolver!DisconnectCleans, CleanInv, Unremoved
<1> QED
  BY <1>1, <1>2, <1>3, <1>4, <1>5

\* The resolver files of the vpnc wrapper (managed hook and command of
\* openconnect/runtime.go), for all VPN, server and bypass domains, any number of reconnects,
\* other programs that rewrite search.tailscale or take files over, and hooks that fail to
\* write, to remove or to sanitize any of the files without noticing: while the session is
\* connected the names of the VPN are looked up in the shim and the names under a bypass
\* suffix are not, and search.tailscale lists no name of the VPN that its owner did not
\* write, but for the files that a hook failed on; a disconnect hook leaves no other file
\* with a mark, and a completed stop no shim file at all, nor, without a failure, a bypass
\* file.
THEOREM ResolverIsCorrect == ASSUME SomethingToAwait PROVE Spec => []ResolverCorrect
<1> DEFINE I == part = "resolver" => ResolverInv
<1>1. Init => I
  BY FilesAssumption, ResolverStarts DEF Init
<1>2. I /\ [Next]_vars => I'
  <2> SUFFICES ASSUME I, [Next]_vars, part' = "resolver"
               PROVE  ResolverInv'
    OBVIOUS
  <2>1. part = "resolver" /\ (Resolver!Next \/ UNCHANGED wrapperVars)
    BY DEF Next, vars
  <2> QED
    BY <2>1, FilesAssumption, ResolverInductive
<1>3. I => ResolverCorrect
  BY FilesAssumption, ResolverImplied DEF ResolverCorrect
<1> QED
  BY <1>1, <1>2, <1>3, PTL DEF Spec

---------------------------------------------------------------------------
(* The interface audit *)

\* While the session of a record is alive, the interface in the record is its own.
Faithful(r) ==
  /\ r.session <= sessions
  /\ r.iface # None => \A u \in Utun : iface[u] = r.session => u = r.iface

\* The names with a live session of ours.
Ours == {u \in Utun : iface[u] \in 1..MaxSessions}

\* A session has one name and one place, numbers are not used again, and no record was
\* written for an interface that its session did not have.
WorldInv ==
  /\ \A u \in Ours : iface[u] <= sessions
  /\ \A u, v \in Ours : iface[u] = iface[v] => u = v
  /\ \A p \in Audit!Place :
       current[p] # 0 => current[p] <= sessions /\ \E u \in Utun : iface[u] = current[p]
  /\ \A p, q \in Audit!Place : current[p] = current[q] /\ current[p] # 0 => p = q
  /\ \A p \in Audit!Place : record[p] # None => Faithful(record[p])

\* What the audit knows: it has seen every name that is ours by now, the record in hand is
\* the one of its place unless that has changed, and what it claims to be alive it has seen.
ReadInv ==
  /\ auditing \in {"ready", "routes"} => read = None /\ claims = {}
  /\ auditing = "ready" => stable = {}
  /\ auditing \in {"routes", "vless", "openconnect", "classify"} => Ours \subseteq seen
  /\ read # None =>
       /\ read.place \in todo /\ read.rec.iface # None /\ Faithful(read.rec)
       /\ read.place \in stable => read.rec = record[read.place]
  /\ \A c \in claims : c.liveness = "alive" => c.iface \in seen

\* A session that has run since the audit began, with its record, has a listed interface.
StableInv ==
  \A p \in stable :
    /\ current[p] # 0 /\ record[p] # None /\ record[p].session = current[p]
    /\ record[p].iface # None => \E i \in listed : i.name = record[p].iface

\* There is a claim for the session at p, alive unless it has no pid.
Covered(p) ==
  /\ record[p].iface # None
  /\ \E c \in claims : /\ c.iface = record[p].iface
                       /\ c.liveness = "alive" \/ ~record[p].pid

\* The places that the audit is through with.
Done(p) == \/ auditing \in {"classify", "reported"}
           \/ auditing = "openconnect" /\ p \notin todo
           \/ auditing = "vless" /\ p \in Dir \ todo

DoneInv == \A p \in stable \ issues : Done(p) => Covered(p)

\* The inductive invariant of the audit.
AuditInv ==
  /\ Audit!TypeOK /\ WorldInv /\ ReadInv /\ StableInv /\ DoneInv
  /\ Audit!OwnedWasLive /\ Audit!NoSilentMiss

\* The steps of the world, without what the audit observes of them.
WorldMoves ==
  \/ \E p \in Audit!Place, u \in Utun :
       /\ current[p] = 0 /\ sessions < MaxSessions /\ iface[u] = None
       /\ iface' = [iface EXCEPT ![u] = sessions + 1] /\ ipv4' = ipv4 \cup {u}
       /\ sessions' = sessions + 1 /\ current' = [current EXCEPT ![p] = sessions + 1]
       /\ record' = record
  \/ \E p \in Audit!Place, u \in Utun :
       /\ current[p] # 0 /\ iface[u] = current[p]
       /\ iface' = [iface EXCEPT ![u] = None] /\ ipv4' = ipv4 \ {u}
       /\ current' = [current EXCEPT ![p] = 0] /\ UNCHANGED <<record, sessions>>
  \/ \E p \in Audit!Place, r \in Audit!Record \cup {None} :
       /\ record' = [record EXCEPT ![p] = r] /\ UNCHANGED <<iface, ipv4, current, sessions>>
       /\ r # None =>
            /\ r.session = current[p] /\ current[p] # 0
            /\ r.iface # None => iface[r.iface] = current[p]
  \/ \E u \in Utun :
       /\ iface[u] \in {None, Other} /\ ipv4' \in SUBSET Utun
       /\ \E o \in {None, Other} : iface' = [iface EXCEPT ![u] = o]
       /\ UNCHANGED <<current, record, sessions>>

\* A session that runs has its interface.
LEMMA IfaceOfSession ==
  ASSUME Audit!TypeOK, WorldInv, NEW p \in Audit!Place, current[p] # 0
  PROVE  Audit!IfaceOf(current[p]) \in Utun /\ iface[Audit!IfaceOf(current[p])] = current[p]
<1>1. \E u \in Utun : iface[u] = current[p]
  BY DEF WorldInv
<1> QED
  BY <1>1 DEF Audit!IfaceOf

\* Every step is one of the world, observed, or one of the audit, which leaves the world.
LEMMA AuditMoves ==
  ASSUME Audit!AuditAssumption, Audit!TypeOK, WorldInv, Audit!Next
  PROVE  \/ WorldMoves /\ Audit!Observe
         \/ /\ UNCHANGED Audit!world
            /\ \/ Audit!ReadInterfaces \/ Audit!ReadRoutes \/ Audit!CollectVLESSClaims
               \/ Audit!CollectOpenConnectClaim \/ Audit!Classify
<1>1. ASSUME NEW p \in Audit!Place, Audit!StartSession(p) PROVE WorldMoves /\ Audit!Observe
  BY <1>1 DEF Audit!StartSession, WorldMoves
<1>2. ASSUME NEW p \in Audit!Place, Audit!SaveRecord(p) PROVE WorldMoves /\ Audit!Observe
  <2>1. current[p] # 0 /\ current[p] \in 1..MaxSessions /\ Audit!Observe
        /\ UNCHANGED <<iface, ipv4, current, sessions>>
    BY <1>2 DEF Audit!SaveRecord, Audit!TypeOK, Audit!AuditAssumption
  <2>2. PICK pid \in BOOLEAN, u \in {Audit!IfaceOf(current[p]), None} :
          record' = [record EXCEPT ![p] = [session |-> current[p], iface |-> u, pid |-> pid]]
    BY <1>2 DEF Audit!SaveRecord
  <2> DEFINE r == [session |-> current[p], iface |-> u, pid |-> pid]
  <2>3. r \in Audit!Record
    BY <2>1, IfaceOfSession DEF Audit!Record
  <2>4. r.session = current[p] /\ (r.iface # None => iface[r.iface] = current[p])
    BY <2>1, IfaceOfSession
  <2> HIDE DEF r
  <2>5. record' = [record EXCEPT ![p] = r]
    BY <2>2 DEF r
  <2> QED
    BY <2>1, <2>3, <2>4, <2>5 DEF WorldMoves
<1>3. ASSUME NEW p \in Audit!Place, Audit!EndSession(p) PROVE WorldMoves /\ Audit!Observe
  BY <1>3, IfaceOfSession DEF Audit!EndSession, WorldMoves
<1>4. ASSUME NEW p \in Audit!Place, Audit!ClearRecord(p) PROVE WorldMoves /\ Audit!Observe
  BY <1>4 DEF Audit!ClearRecord, WorldMoves
<1>5. ASSUME Audit!OtherProgram PROVE WorldMoves /\ Audit!Observe
  <2>1. PICK u \in Utun :
       \/ /\ iface[u] = None /\ iface' = [iface EXCEPT ![u] = Other]
          /\ ipv4' \in {ipv4, ipv4 \cup {u}}
       \/ iface[u] = Other /\ iface' = [iface EXCEPT ![u] = None] /\ ipv4' = ipv4 \ {u}
    BY <1>5 DEF Audit!OtherProgram
  <2>2. ipv4' \in SUBSET Utun
    BY <2>1 DEF Audit!TypeOK
  <2> QED
    BY <1>5, <2>1, <2>2 DEF Audit!OtherProgram, WorldMoves
<1>6. ASSUME \/ Audit!ReadInterfaces \/ Audit!ReadRoutes \/ Audit!CollectVLESSClaims
             \/ Audit!CollectOpenConnectClaim \/ Audit!Classify
      PROVE  UNCHANGED Audit!world
  BY <1>6 DEF Audit!ReadInterfaces, Audit!ReadRoutes, Audit!CollectVLESSClaims,
     Audit!CollectOpenConnectClaim, Audit!Classify, Audit!Fail, Audit!Quiet
<1> QED
  BY <1>1, <1>2, <1>3, <1>4, <1>5, <1>6 DEF Audit!Next

\* The same of a record after a step.
FaithfulNext(r) ==
  /\ r.session <= sessions'
  /\ r.iface # None => \A u \in Utun : iface'[u] = r.session => u = r.iface

\* A record that was faithful stays so, whatever the world does.
LEMMA FaithfulKept ==
  ASSUME Audit!AuditAssumption, Audit!TypeOK, WorldMoves, NEW r \in Audit!Record, Faithful(r)
  PROVE  FaithfulNext(r)
<1>1. r.session \in 1..MaxSessions /\ r.session <= sessions /\ sessions \in 0..MaxSessions
      /\ MaxSessions \in Nat
  BY DEF Faithful, Audit!Record, Audit!TypeOK, Audit!AuditAssumption
<1>2. sessions' >= sessions
  BY <1>1 DEF WorldMoves
<1>3. ASSUME NEW u \in Utun, iface'[u] = r.session PROVE iface[u] = r.session
  <2>1. iface \in [Utun -> 1..MaxSessions \cup {None, Other}]
        /\ None \notin 0..MaxSessions /\ Other \notin 0..MaxSessions
    BY DEF Audit!TypeOK, Audit!AuditAssumption
  <2>2. r.session # None /\ r.session # Other /\ r.session # sessions + 1
    BY <1>1, <2>1
  <2> QED
    BY <1>3, <2>1, <2>2 DEF WorldMoves
<1>4. r.session <= sessions'
  BY <1>1, <1>2 DEF WorldMoves
<1> QED
  BY <1>3, <1>4 DEF Faithful, FaithfulNext

\* What the world is made of.
WorldType ==
  /\ iface \in [Utun -> 1..MaxSessions \cup {None, Other}] /\ ipv4 \subseteq Utun
  /\ current \in [Audit!Place -> 0..MaxSessions] /\ sessions \in 0..MaxSessions
  /\ record \in [Audit!Place -> Audit!Record \cup {None}]

\* Every step of the world keeps that.
LEMMA WorldTypeStep ==
  ASSUME Audit!AuditAssumption, Audit!TypeOK, WorldMoves
  PROVE  WorldType'
<1>1. WorldType /\ MaxSessions \in Nat
  BY DEF Audit!TypeOK, WorldType, Audit!AuditAssumption
<1>2. sessions' \in 0..MaxSessions
  BY <1>1 DEF WorldMoves, WorldType
<1>3. current' \in [Audit!Place -> 0..MaxSessions]
  BY <1>1 DEF WorldMoves, WorldType
<1>4. iface' \in [Utun -> 1..MaxSessions \cup {None, Other}] /\ ipv4' \subseteq Utun
  BY <1>1 DEF WorldMoves, WorldType
<1>5. record' \in [Audit!Place -> Audit!Record \cup {None}]
  BY <1>1 DEF WorldMoves, WorldType
<1> QED
  BY <1>2, <1>3, <1>4, <1>5 DEF WorldType

\* Every step of the world keeps its invariant.
LEMMA WorldStep ==
  ASSUME Audit!AuditAssumption, Audit!TypeOK, WorldInv, WorldMoves
  PROVE  WorldInv'
<1>1. WorldType /\ MaxSessions \in Nat /\ None \notin 0..MaxSessions /\ Other \notin 0..MaxSessions
  BY DEF Audit!TypeOK, WorldType, Audit!AuditAssumption
<1>2. WorldType'
  BY WorldTypeStep
<1>3. ASSUME NEW p \in Audit!Place, record'[p] # None PROVE FaithfulNext(record'[p])
  <2>1. CASE record'[p] = record[p]
    BY <1>1, <1>3, <2>1, FaithfulKept DEF WorldInv, WorldType
  <2>2. CASE record'[p] # record[p]
    <3>1. /\ UNCHANGED <<iface, sessions>> /\ current[p] # 0 /\ record'[p].session = current[p]
          /\ record'[p].iface # None => iface[record'[p].iface] = current[p]
      BY <1>1, <1>3, <2>2 DEF WorldMoves, WorldType
    <3>2. current[p] \in 1..MaxSessions /\ current[p] <= sessions
      BY <1>1, <3>1 DEF WorldInv, WorldType
    <3>3. record'[p].iface \in Utun \cup {None}
      BY <1>2, <1>3 DEF WorldType, Audit!Record
    <3> QED
      BY <3>1, <3>2, <3>3 DEF FaithfulNext, WorldInv, Ours
  <2> QED
    BY <2>1, <2>2
<1>4. CASE \E p \in Audit!Place, u \in Utun :
       /\ current[p] = 0 /\ sessions < MaxSessions /\ iface[u] = None
       /\ iface' = [iface EXCEPT ![u] = sessions + 1]
       /\ sessions' = sessions + 1 /\ current' = [current EXCEPT ![p] = sessions + 1]
  <2> PICK p \in Audit!Place, u \in Utun :
       /\ current[p] = 0 /\ sessions < MaxSessions /\ iface[u] = None
       /\ iface' = [iface EXCEPT ![u] = sessions + 1]
       /\ sessions' = sessions + 1 /\ current' = [current EXCEPT ![p] = sessions + 1]
    BY <1>4
  <2>1. ASSUME NEW v \in Utun PROVE iface'[v] = IF v = u THEN sessions + 1 ELSE iface[v]
    BY <1>1 DEF WorldType
  <2>2. ASSUME NEW q \in Audit!Place PROVE current'[q] = IF q = p THEN sessions + 1 ELSE current[q]
    BY <1>1 DEF WorldType
  <2>3. sessions \in Nat
    BY <1>1 DEF WorldType
  <2>4. \A v \in Ours' : iface'[v] <= sessions'
    BY <1>1, <2>1, <2>3 DEF WorldInv, Ours, WorldType
  <2>5. \A v, w \in Ours' : iface'[v] = iface'[w] => v = w
    BY <1>1, <2>1, <2>3 DEF WorldInv, Ours, WorldType
  <2>6. ASSUME NEW q \in Audit!Place, current'[q] # 0
        PROVE  current'[q] <= sessions' /\ \E v \in Utun : iface'[v] = current'[q]
    <3>1. CASE q = p
      BY <2>1, <2>2, <2>3, <3>1
    <3>2. CASE q # p
      <4>1. current'[q] = current[q] /\ current[q] \in 1..MaxSessions /\ current[q] <= sessions
        BY <1>1, <2>2, <2>6, <3>2 DEF WorldInv, WorldType
      <4>2. PICK v \in Utun : iface[v] = current[q]
        BY <2>6, <4>1 DEF WorldInv
      <4>3. v # u
        BY <1>1, <4>1, <4>2
      <4> QED
        BY <2>1, <2>3, <4>1, <4>2, <4>3
    <3> QED
      BY <3>1, <3>2
  <2>7. \A q, s \in Audit!Place : current'[q] = current'[s] /\ current'[q] # 0 => q = s
    BY <1>1, <2>2, <2>3 DEF WorldInv, WorldType
  <2> QED
    BY <1>3, <2>4, <2>5, <2>6, <2>7 DEF WorldInv, Faithful, FaithfulNext
<1>5. CASE \E p \in Audit!Place, u \in Utun :
       /\ current[p] # 0 /\ iface[u] = current[p]
       /\ iface' = [iface EXCEPT ![u] = None]
       /\ current' = [current EXCEPT ![p] = 0] /\ UNCHANGED sessions
  <2> PICK p \in Audit!Place, u \in Utun :
       /\ current[p] # 0 /\ iface[u] = current[p]
       /\ iface' = [iface EXCEPT ![u] = None]
       /\ current' = [current EXCEPT ![p] = 0] /\ UNCHANGED sessions
    BY <1>5
  <2>1. ASSUME NEW v \in Utun PROVE iface'[v] = IF v = u THEN None ELSE iface[v]
    BY <1>1 DEF WorldType
  <2>2. ASSUME NEW q \in Audit!Place PROVE current'[q] = IF q = p THEN 0 ELSE current[q]
    BY <1>1 DEF WorldType
  <2>4. \A v \in Ours' : iface'[v] <= sessions'
    BY <1>1, <2>1 DEF WorldInv, Ours, WorldType
  <2>5. \A v, w \in Ours' : iface'[v] = iface'[w] => v = w
    BY <1>1, <2>1 DEF WorldInv, Ours, WorldType
  <2>6. ASSUME NEW q \in Audit!Place, current'[q] # 0
        PROVE  current'[q] <= sessions' /\ \E v \in Utun : iface'[v] = current'[q]
    <3>1. current'[q] = current[q] /\ q # p /\ current[q] # 0
      BY <2>2, <2>6
    <3>2. current[q] # current[p]
      BY <3>1 DEF WorldInv
    <3>3. PICK v \in Utun : iface[v] = current[q]
      BY <3>1 DEF WorldInv
    <3> QED
      BY <2>1, <3>1, <3>2, <3>3 DEF WorldInv
  <2>7. \A q, s \in Audit!Place : current'[q] = current'[s] /\ current'[q] # 0 => q = s
    BY <2>2 DEF WorldInv
  <2> QED
    BY <1>3, <2>4, <2>5, <2>6, <2>7 DEF WorldInv, Faithful, FaithfulNext
<1>6. CASE UNCHANGED <<iface, current, sessions>>
  BY <1>3, <1>6 DEF WorldInv, Faithful, FaithfulNext, Ours
<1>7. CASE \E u \in Utun :
       /\ iface[u] \in {None, Other}
       /\ \E o \in {None, Other} : iface' = [iface EXCEPT ![u] = o]
       /\ UNCHANGED <<current, sessions>>
  <2> PICK u \in Utun, o \in {None, Other} :
       /\ iface[u] \in {None, Other} /\ iface' = [iface EXCEPT ![u] = o]
       /\ UNCHANGED <<current, sessions>>
    BY <1>7
  <2>1. ASSUME NEW v \in Utun PROVE iface'[v] = IF v = u THEN o ELSE iface[v]
    BY <1>1 DEF WorldType
  <2>4. \A v \in Ours' : iface'[v] <= sessions'
    BY <1>1, <2>1 DEF WorldInv, Ours, WorldType
  <2>5. \A v, w \in Ours' : iface'[v] = iface'[w] => v = w
    BY <1>1, <2>1 DEF WorldInv, Ours, WorldType
  <2>6. ASSUME NEW q \in Audit!Place, current'[q] # 0
        PROVE  current'[q] <= sessions' /\ \E v \in Utun : iface'[v] = current'[q]
    <3>1. PICK v \in Utun : iface[v] = current[q]
      BY <2>6 DEF WorldInv
    <3>2. v # u
      BY <1>1, <2>6, <3>1 DEF WorldType
    <3> QED
      BY <2>1, <2>6, <3>1, <3>2 DEF WorldInv
  <2> QED
    BY <1>3, <2>4, <2>5, <2>6 DEF WorldInv, Faithful, FaithfulNext
<1> QED
  BY <1>4, <1>5, <1>6, <1>7 DEF WorldMoves

\* What the audit keeps in its own variables.
AuditType ==
  /\ auditing \in {"ready", "routes", "vless", "openconnect", "classify", "reported", "failed"}
  /\ todo \subseteq Audit!Place /\ stable \subseteq Audit!Place /\ issues \subseteq Audit!Place
  /\ listed \subseteq [name : Utun, ipv4 : BOOLEAN]
  /\ read \in [place : Audit!Place, rec : Audit!Record] \cup {None}
  /\ claims \subseteq [iface : Utun, liveness : {"alive", "unknown", "dead"}]
  /\ \A u \in DOMAIN report : report[u] \in {"owned", "unverified", "unknown", "system"}

\* The type of the module, in parts, also of the next state.
LEMMA AuditTypes ==
  /\ Audit!TypeOK <=> WorldType /\ AuditType
  /\ Audit!TypeOK' <=> WorldType' /\ AuditType'
<1>1. Audit!TypeOK <=> WorldType /\ AuditType
  BY DEF Audit!TypeOK, WorldType, AuditType
<1> QED
  BY <1>1, PTL

\* A step of the world takes from the audit only what it has changed.
LEMMA ObserveStep ==
  ASSUME Audit!AuditAssumption, AuditInv, WorldMoves, Audit!Observe
  PROVE  AuditInv'
<1>1. WorldType /\ AuditType
  BY AuditTypes DEF AuditInv
<1>2. /\ UNCHANGED <<auditing, todo, listed, read, claims, issues, report>>
      /\ auditing \notin {"reported", "failed"}
      /\ stable' = {p \in stable : current'[p] = current[p] /\ record'[p] = record[p]}
      /\ seen' = IF auditing = "ready" THEN {} ELSE seen \cup Ours'
  BY DEF Audit!Observe, Audit!audit, Ours
<1>3. Audit!TypeOK'
  <2>1. AuditType'
    BY <1>1, <1>2 DEF AuditType
  <2> QED
    BY <2>1, WorldTypeStep, AuditTypes DEF AuditInv
<1>4. WorldInv'
  BY WorldStep DEF AuditInv
<1>5. ReadInv'
  <2>1. read # None => FaithfulNext(read.rec)
    BY <1>1, FaithfulKept DEF AuditInv, ReadInv, AuditType
  <2>2. read # None =>
       /\ read.place \in todo /\ read.rec.iface # None /\ Faithful(read.rec)'
       /\ read.place \in stable' => read.rec = record'[read.place]
    BY <1>2, <2>1 DEF AuditInv, ReadInv, Faithful, FaithfulNext
  <2>3. auditing \in {"routes", "vless", "openconnect", "classify"} => Ours' \subseteq seen'
    BY <1>2
  <2>4. \A c \in claims : c.liveness = "alive" => c.iface \in seen'
    BY <1>2 DEF AuditInv, ReadInv
  <2>5. auditing = "ready" => stable' = {}
    BY <1>2 DEF AuditInv, ReadInv
  <2>6. auditing \in {"ready", "routes"} => read = None /\ claims = {}
    BY DEF AuditInv, ReadInv
  <2> QED
    BY <1>2, <2>2, <2>3, <2>4, <2>5, <2>6 DEF ReadInv, Faithful
<1>6. StableInv'
  BY <1>2 DEF AuditInv, StableInv
<1>7. DoneInv'
  BY <1>2 DEF AuditInv, DoneInv, Done, Covered
<1>8. Audit!OwnedWasLive' /\ Audit!NoSilentMiss'
  BY <1>2 DEF Audit!OwnedWasLive, Audit!NoSilentMiss
<1> QED
  BY <1>3, <1>4, <1>5, <1>6, <1>7, <1>8 DEF AuditInv

\* A step of the audit keeps what holds of the world.
LEMMA WorldStays ==
  ASSUME AuditInv, UNCHANGED Audit!world
  PROVE  WorldType /\ WorldType' /\ WorldInv' /\ Ours' = Ours /\ AuditType
<1>1. WorldType /\ AuditType
  BY AuditTypes DEF AuditInv
<1>2. UNCHANGED <<iface, ipv4, current, record, sessions>>
  BY DEF Audit!world
<1> QED
  BY <1>1, <1>2 DEF AuditInv, WorldInv, Ours, Faithful, WorldType

\* A failed audit has nothing to show.
LEMMA FailStep ==
  ASSUME AuditInv, UNCHANGED Audit!world, Audit!Fail
  PROVE  AuditInv'
<1>1. WorldType' /\ WorldInv' /\ Ours' = Ours /\ AuditType
  BY WorldStays
<1>2. /\ auditing' = "failed"
      /\ UNCHANGED <<iface, ipv4, current, record, sessions, todo, listed, read, claims, issues,
                     report, stable, seen>>
  BY DEF Audit!Fail, Audit!Quiet, Audit!world
<1>3. Audit!TypeOK'
  BY <1>1, <1>2, AuditTypes DEF AuditType
<1>4. ReadInv' /\ StableInv' /\ DoneInv'
  BY <1>1, <1>2 DEF AuditInv, ReadInv, StableInv, DoneInv, Done, Faithful
<1> QED
  BY <1>1, <1>2, <1>3, <1>4 DEF AuditInv, Audit!OwnedWasLive, Audit!NoSilentMiss

\* The list of interfaces has the one of every session that runs with its record.
LEMMA InterfacesStep ==
  ASSUME Audit!AuditAssumption, AuditInv, UNCHANGED Audit!world, Audit!ReadInterfaces
  PROVE  AuditInv'
<1>1. WorldType /\ WorldType' /\ WorldInv' /\ Ours' = Ours /\ AuditType
  BY WorldStays
<1>2. CASE Audit!Fail
  BY <1>2, FailStep
<1>3. CASE ~Audit!Fail
  <2>1. /\ auditing = "ready" /\ auditing' = "routes"
        /\ listed' = {[name |-> u, ipv4 |-> u \in ipv4] : u \in {v \in Utun : iface[v] # None}}
        /\ stable' = {p \in Audit!Place : /\ current[p] # 0 /\ record[p] # None
                                          /\ record[p].session = current[p]}
        /\ seen' = Ours
        /\ UNCHANGED <<iface, ipv4, current, record, sessions, todo, read, claims, issues, report>>
    BY <1>3 DEF Audit!ReadInterfaces, Ours, Audit!world
  <2>2. Audit!TypeOK'
    <3>1. ASSUME NEW i \in listed' PROVE i \in [name : Utun, ipv4 : BOOLEAN]
      <4>1. PICK u \in Utun : i = [name |-> u, ipv4 |-> u \in ipv4]
        BY <2>1
      <4>2. (u \in ipv4) \in BOOLEAN
        OBVIOUS
      <4> DEFINE b == u \in ipv4
      <4>3. i = [name |-> u, ipv4 |-> b] /\ b \in BOOLEAN
        BY <4>1, <4>2
      <4> HIDE DEF b
      <4> QED
        BY <4>3
    <3>2. AuditType'
      BY <1>1, <2>1, <3>1 DEF AuditType
    <3> QED
      BY <1>1, <3>2, AuditTypes
  <2>3. read = None /\ claims = {}
    BY <2>1 DEF AuditInv, ReadInv
  <2>4. ReadInv'
    BY <1>1, <2>1, <2>3 DEF ReadInv
  <2>5. ASSUME NEW p \in stable', record[p].iface # None
        PROVE  \E i \in listed' : i.name = record[p].iface
    <3>1. p \in Audit!Place /\ current[p] # 0 /\ record[p] # None /\ record[p].session = current[p]
      BY <2>1
    <3>2. PICK u \in Utun : iface[u] = current[p]
      BY <3>1 DEF AuditInv, WorldInv
    <3>3. u = record[p].iface
      BY <2>5, <3>1, <3>2 DEF AuditInv, WorldInv, Faithful
    <3>4. iface[u] # None
      BY <1>1, <3>1, <3>2 DEF WorldType, Audit!AuditAssumption
    <3>5. [name |-> u, ipv4 |-> u \in ipv4] \in listed'
      BY <2>1, <3>4
    <3> QED
      BY <3>3, <3>5
  <2>6. StableInv'
    BY <2>1, <2>5 DEF StableInv
  <2>7. DoneInv' /\ Audit!OwnedWasLive' /\ Audit!NoSilentMiss'
    BY <2>1 DEF DoneInv, Done, Audit!OwnedWasLive, Audit!NoSilentMiss
  <2> QED
    BY <1>1, <2>2, <2>4, <2>6, <2>7 DEF AuditInv
<1> QED
  BY <1>2, <1>3

\* With the routes the audit is through with no place, or has an issue for it.
LEMMA RoutesStep ==
  ASSUME AuditInv, UNCHANGED Audit!world, Audit!ReadRoutes
  PROVE  AuditInv'
<1>1. WorldType /\ WorldType' /\ WorldInv' /\ Ours' = Ours /\ AuditType
  BY WorldStays
<1>2. CASE Audit!Fail
  BY <1>2, FailStep
<1>3. CASE ~Audit!Fail
  <2>1. /\ auditing = "routes" /\ auditing' = "vless"
        /\ \/ todo' = Dir /\ UNCHANGED issues
           \/ todo' = {} /\ issues' = issues \cup Dir
        /\ UNCHANGED <<iface, ipv4, current, record, sessions, listed, read, claims, report,
                       stable, seen>>
    BY <1>3 DEF Audit!ReadRoutes, Audit!Quiet, Audit!world
  <2>2. Dir \subseteq Audit!Place
    BY DEF Audit!Place
  <2>3. Audit!TypeOK'
    <3>1. AuditType'
      BY <1>1, <2>1, <2>2 DEF AuditType
    <3> QED
      BY <1>1, <3>1, AuditTypes
  <2>4. read = None /\ claims = {}
    BY <2>1 DEF AuditInv, ReadInv
  <2>5. ReadInv'
    BY <1>1, <2>1, <2>4 DEF AuditInv, ReadInv
  <2>6. StableInv' /\ DoneInv' /\ Audit!OwnedWasLive' /\ Audit!NoSilentMiss'
    BY <2>1 DEF AuditInv, StableInv, DoneInv, Done, Audit!OwnedWasLive, Audit!NoSilentMiss
  <2> QED
    BY <1>1, <2>3, <2>5, <2>6 DEF AuditInv
<1> QED
  BY <1>2, <1>3 DEF Audit!ReadRoutes

\* The record of a place is taken as it is, or the audit is through with the place: nothing
\* is recorded there, or an issue names it.
LEMMA RecordRead ==
  ASSUME Audit!AuditAssumption, AuditInv, auditing \in {"vless", "openconnect"},
         NEW p \in todo, Audit!ReadRecord(p),
         UNCHANGED <<Audit!world, auditing, listed, claims, report, stable, seen>>
  PROVE  AuditInv'
<1>1. WorldType /\ WorldType' /\ WorldInv' /\ Ours' = Ours /\ AuditType
  BY WorldStays
<1>2. /\ UNCHANGED <<iface, ipv4, current, record, sessions, auditing, listed, claims, report,
                     stable, seen>>
      /\ p \in Audit!Place /\ read = None
  BY <1>1 DEF Audit!world, AuditType, Audit!ReadRecord
<1>3. StableInv' /\ Audit!OwnedWasLive' /\ Audit!NoSilentMiss'
  BY <1>2 DEF AuditInv, StableInv, Audit!OwnedWasLive, Audit!NoSilentMiss
<1>4. CASE record[p] # None /\ record[p].iface # None
           /\ read' = [place |-> p, rec |-> record[p]] /\ UNCHANGED <<todo, issues>>
  <2>1. record[p] \in Audit!Record /\ Faithful(record[p])
    BY <1>1, <1>2, <1>4 DEF WorldType, AuditInv, WorldInv
  <2>2. AuditType'
    BY <1>1, <1>2, <1>4, <2>1 DEF AuditType
  <2>3. ReadInv'
    BY <1>1, <1>2, <1>4, <2>1 DEF AuditInv, ReadInv, Faithful
  <2>4. DoneInv'
    BY <1>2, <1>4 DEF AuditInv, DoneInv, Done, Covered
  <2> QED
    BY <1>1, <1>3, <2>2, <2>3, <2>4, AuditTypes DEF AuditInv
<1>5. CASE /\ read' = None /\ todo' = todo \ {p}
           /\ (record[p] = None /\ UNCHANGED issues) \/ issues' = issues \cup {p}
  <2>1. AuditType'
    BY <1>1, <1>2, <1>5 DEF AuditType
  <2>2. ReadInv'
    BY <1>1, <1>2, <1>5 DEF AuditInv, ReadInv
  <2>3. p \notin stable \ issues'
    BY <1>5 DEF AuditInv, StableInv
  <2>4. DoneInv'
    BY <1>2, <1>5, <2>3 DEF AuditInv, DoneInv, Done, Covered
  <2> QED
    BY <1>1, <1>3, <2>1, <2>2, <2>4, AuditTypes DEF AuditInv
<1> QED
  BY <1>4, <1>5 DEF Audit!ReadRecord

\* A session that the check finds alive has the interface of its record, so the audit has
\* seen it; one that has run all the time is found alive, or an issue names its place.
LEMMA LivenessRead ==
  ASSUME Audit!AuditAssumption, AuditInv, auditing \in {"vless", "openconnect"},
         Audit!CheckLiveness,
         UNCHANGED <<Audit!world, auditing, listed, report, stable, seen>>
  PROVE  AuditInv'
<1>1. WorldType /\ WorldType' /\ WorldInv' /\ Ours' = Ours /\ AuditType
  BY WorldStays
<1>2. /\ UNCHANGED <<iface, ipv4, current, record, sessions, auditing, listed, report, stable,
                     seen>>
      /\ read # None /\ read' = None /\ todo' = todo \ {read.place}
  BY DEF Audit!world, Audit!CheckLiveness
<1> PICK r, p : r = read.rec /\ p = read.place
  OBVIOUS
<1>3. /\ r \in Audit!Record /\ p \in Audit!Place /\ r.iface \in Utun /\ Faithful(r)
      /\ p \in stable => r = record[p]
  BY <1>1, <1>2 DEF AuditType, AuditInv, ReadInv, Audit!Record
<1>4. PICK l \in Audit!Livenesses(r) :
        /\ claims' = claims \cup {[iface |-> r.iface, liveness |-> Audit!Liveness(p, r, l)]}
        /\ issues' = IF l = "unknown" THEN issues \cup {p} ELSE issues
  BY DEF Audit!CheckLiveness
<1>5. l \in {"alive", "unknown", "dead"} /\ (l = "alive" => Audit!Alive(r.session))
      /\ (l = "dead" => ~Audit!Alive(r.session))
  BY DEF Audit!Livenesses
<1> PICK m : m = Audit!Liveness(p, r, l)
  OBVIOUS
<1>6. /\ m \in {"alive", "unknown", "dead"} /\ (m = "alive" => l = "alive")
      /\ l = "alive" => m = "alive" \/ ~r.pid
  BY <1>5 DEF Audit!Liveness
<1>7. claims' = claims \cup {[iface |-> r.iface, liveness |-> m]}
  BY <1>4
<1>8. StableInv' /\ Audit!OwnedWasLive' /\ Audit!NoSilentMiss'
  BY <1>2 DEF AuditInv, StableInv, Audit!OwnedWasLive, Audit!NoSilentMiss
<1>9. AuditType'
  <2>1. claims' \subseteq [iface : Utun, liveness : {"alive", "unknown", "dead"}]
    BY <1>1, <1>3, <1>6, <1>7 DEF AuditType
  <2> QED
    BY <1>1, <1>2, <1>3, <1>4, <2>1 DEF AuditType
<1>10. ReadInv'
  <2>1. m = "alive" => r.iface \in seen
    <3> SUFFICES ASSUME m = "alive" PROVE r.iface \in seen
      OBVIOUS
    <3>1. PICK u \in Utun : iface[u] = r.session
      BY <1>5, <1>6 DEF Audit!Alive
    <3>2. u = r.iface /\ u \in Ours
      BY <1>1, <1>3, <3>1 DEF Faithful, Ours, Audit!Record, Audit!AuditAssumption
    <3> QED
      BY <3>2 DEF AuditInv, ReadInv
  <2>2. \A c \in claims' : c.liveness = "alive" => c.iface \in seen
    BY <1>7, <2>1 DEF AuditInv, ReadInv
  <2> QED
    BY <1>1, <1>2, <2>2 DEF AuditInv, ReadInv
<1>11. DoneInv'
  <2>1. ASSUME p \in stable, p \notin issues' PROVE Covered(p)'
    <3>1. l # "unknown" /\ r = record[p] /\ r.session = current[p] /\ current[p] # 0
      BY <1>3, <1>4, <2>1 DEF AuditInv, StableInv
    <3>2. Audit!Alive(r.session)
      BY <1>3, <3>1 DEF AuditInv, WorldInv, Audit!Alive
    <3>3. m = "alive" \/ ~r.pid
      BY <1>5, <1>6, <3>1, <3>2
    <3>4. r.iface # None
      BY <1>3 DEF Audit!AuditAssumption
    <3>5. [iface |-> r.iface, liveness |-> m] \in claims'
      BY <1>7
    <3> QED
      BY <1>2, <3>1, <3>3, <3>4, <3>5 DEF Covered
  <2>2. ASSUME NEW q \in stable, q \notin issues', q # p, Done(q)' PROVE Covered(q)'
    <3>1. q \notin issues /\ Done(q)
      BY <1>2, <1>4, <2>2 DEF Done
    <3>2. Covered(q)
      BY <3>1 DEF AuditInv, DoneInv
    <3> QED
      BY <1>2, <1>7, <3>2 DEF Covered
  <2> QED
    BY <1>2, <2>1, <2>2 DEF DoneInv
<1> QED
  BY <1>1, <1>8, <1>9, <1>10, <1>11, AuditTypes DEF AuditInv

\* A collection goes on with a place, or is over when no place is left.
LEMMA CollectStep ==
  ASSUME Audit!AuditAssumption, AuditInv, UNCHANGED Audit!world,
         Audit!CollectVLESSClaims \/ Audit!CollectOpenConnectClaim
  PROVE  AuditInv'
<1>1. WorldType /\ WorldType' /\ WorldInv' /\ Ours' = Ours /\ AuditType
  BY WorldStays
<1>2. UNCHANGED <<listed, report, stable, seen>> /\ auditing \in {"vless", "openconnect"}
  BY DEF Audit!CollectVLESSClaims, Audit!CollectOpenConnectClaim, Audit!Quiet
<1>3. CASE Audit!Collect /\ UNCHANGED auditing
  BY <1>2, <1>3, RecordRead, LivenessRead DEF Audit!Collect
<1>4. CASE /\ todo = {} /\ UNCHANGED <<read, claims, issues>>
           /\ \/ auditing = "vless" /\ auditing' = "openconnect" /\ todo' = {"openconnect"}
              \/ auditing = "openconnect" /\ auditing' = "classify" /\ todo' = todo
  <2>1. UNCHANGED <<iface, ipv4, current, record, sessions>>
    BY DEF Audit!world
  <2>2. "openconnect" \in Audit!Place
    BY DEF Audit!Place
  <2>3. AuditType'
    BY <1>1, <1>2, <1>4, <2>2 DEF AuditType
  <2>4. read = None
    BY <1>4 DEF AuditInv, ReadInv
  <2>5. ReadInv'
    BY <1>1, <1>2, <1>4, <2>1, <2>4 DEF AuditInv, ReadInv
  <2>6. \A q \in stable : Done(q)' => Done(q)
    BY <1>1, <1>2, <1>4 DEF Done, AuditType, Audit!Place
  <2>7. DoneInv' /\ StableInv'
    BY <1>2, <1>4, <2>1, <2>6 DEF AuditInv, DoneInv, StableInv, Covered
  <2>8. Audit!OwnedWasLive' /\ Audit!NoSilentMiss'
    BY <1>4 DEF Audit!OwnedWasLive, Audit!NoSilentMiss
  <2> QED
    BY <1>1, <2>3, <2>5, <2>7, <2>8, AuditTypes DEF AuditInv
<1> QED
  BY <1>3, <1>4 DEF Audit!CollectVLESSClaims, Audit!CollectOpenConnectClaim

\* The class of an interface: owned exactly with a claim that is alive, and no less than
\* unverified with any claim.
LEMMA ClassOf ==
  ASSUME NEW i
  PROVE  /\ Audit!Class(i) \in {"owned", "unverified", "unknown", "system"}
         /\ Audit!Class(i) = "owned" <=>
              \E c \in claims : c.iface = i.name /\ c.liveness = "alive"
         /\ (\E c \in claims : c.iface = i.name) => Audit!Class(i) \in {"owned", "unverified"}
<1> DEFINE levels == {c.liveness : c \in {d \in claims : d.iface = i.name}}
<1>1. Audit!Class(i) = CASE "alive" \in levels -> "owned"
                         [] levels # {} /\ "alive" \notin levels -> "unverified"
                         [] levels = {} /\ i.ipv4 -> "unknown"
                         [] OTHER -> "system"
  BY DEF Audit!Class
<1>2. "alive" \in levels <=> \E c \in claims : c.iface = i.name /\ c.liveness = "alive"
  OBVIOUS
<1>3. (\E c \in claims : c.iface = i.name) => levels # {}
  OBVIOUS
<1> HIDE DEF levels
<1>4. CASE "alive" \in levels
  BY <1>1, <1>2, <1>4
<1>5. CASE levels # {} /\ "alive" \notin levels
  BY <1>1, <1>2, <1>5
<1>6. CASE levels = {}
  BY <1>1, <1>2, <1>3, <1>6
<1> QED
  BY <1>4, <1>5, <1>6

\* The report says of each interface what the claims say.
LEMMA ClassifyStep ==
  ASSUME AuditInv, UNCHANGED Audit!world, Audit!Classify
  PROVE  AuditInv'
<1>1. WorldType /\ WorldType' /\ WorldInv' /\ Ours' = Ours /\ AuditType
  BY WorldStays
<1>2. /\ auditing = "classify" /\ auditing' = "reported"
      /\ UNCHANGED <<iface, ipv4, current, record, sessions, todo, listed, read, claims, issues,
                     stable, seen>>
  BY DEF Audit!Classify, Audit!Quiet, Audit!world
<1>3. /\ DOMAIN report' = {i.name : i \in listed}
      /\ \A u \in DOMAIN report' :
           report'[u] = Audit!Class(CHOOSE i \in listed : i.name = u)
  BY DEF Audit!Classify
<1>4. ASSUME NEW u \in DOMAIN report'
      PROVE  /\ report'[u] \in {"owned", "unverified", "unknown", "system"}
             /\ report'[u] = "owned" <=> \E c \in claims : c.iface = u /\ c.liveness = "alive"
             /\ (\E c \in claims : c.iface = u) => report'[u] \in {"owned", "unverified"}
  <2>1. PICK i : i = CHOOSE j \in listed : j.name = u
    OBVIOUS
  <2>2. i \in listed /\ i.name = u
    BY <1>3, <2>1
  <2>3. report'[u] = Audit!Class(i)
    BY <1>3, <2>1
  <2> QED
    BY <2>2, <2>3, ClassOf
<1>5. AuditType'
  BY <1>1, <1>2, <1>4 DEF AuditType
<1>6. ReadInv' /\ StableInv' /\ DoneInv'
  BY <1>2 DEF AuditInv, ReadInv, StableInv, DoneInv, Done, Covered, Faithful
<1>7. Audit!OwnedWasLive'
  BY <1>2, <1>4 DEF Audit!OwnedWasLive, AuditInv, ReadInv
<1>8. ASSUME NEW p \in stable \ issues
      PROVE  /\ record[p].iface \in DOMAIN report'
             /\ \/ report'[record[p].iface] = "owned"
                \/ ~record[p].pid /\ report'[record[p].iface] = "unverified"
  <2>1. Covered(p)
    BY <1>2 DEF AuditInv, DoneInv, Done
  <2>2. \E i \in listed : i.name = record[p].iface
    BY <2>1 DEF Covered, AuditInv, StableInv
  <2>3. record[p].iface \in DOMAIN report'
    BY <1>3, <2>2
  <2> QED
    BY <1>4, <2>1, <2>3 DEF Covered
<1>9. Audit!NoSilentMiss'
  BY <1>2, <1>8 DEF Audit!NoSilentMiss
<1> QED
  BY <1>1, <1>5, <1>6, <1>7, <1>9, AuditTypes DEF AuditInv

\* The invariant holds at first.
LEMMA AuditInit == ASSUME Audit!AuditAssumption, Audit!Init PROVE AuditInv
<1> USE DEF Audit!Init
<1>1. WorldType /\ AuditType
  BY DEF WorldType, AuditType, Audit!AuditAssumption
<1>2. Ours = {}
  <2>1. None \notin 1..MaxSessions
    BY DEF Audit!AuditAssumption
  <2> QED
    BY <2>1 DEF Ours
<1>3. WorldInv
  BY <1>2 DEF WorldInv
<1>4. ReadInv /\ StableInv /\ DoneInv
  BY DEF ReadInv, StableInv, DoneInv
<1> QED
  BY <1>1, <1>3, <1>4, AuditTypes DEF AuditInv, Audit!OwnedWasLive, Audit!NoSilentMiss

\* The interface audit, for any cache directories, interface names, sessions and other
\* programs that come and go between its readings: an interface it reports as owned had a live
\* session of ours during the audit, and a session that ran all the time with one and the
\* same record is reported as the owner of its interface, has no pid yet, or has an issue.
THEOREM AuditIsCorrect == Spec => []AuditCorrect
<1> DEFINE I == part \in {"audit", "names"} => AuditInv
<1>1. Init => I
  BY FilesAssumption, AuditInit DEF Init
<1>2. I /\ [Next]_vars => I'
  <2> SUFFICES ASSUME part \in {"audit", "names"}, AuditInv, [Next]_vars PROVE AuditInv'
    BY DEF Next, vars
  <2>1. Audit!Next \/ UNCHANGED auditVars
    BY DEF Next, vars
  <2>2. CASE Audit!Next
    BY <2>2, FilesAssumption, AuditMoves, ObserveStep, InterfacesStep, RoutesStep, CollectStep,
       ClassifyStep DEF AuditInv
  <2>3. CASE UNCHANGED auditVars
    <3>1. UNCHANGED <<iface, ipv4, current, record, sessions, auditing, todo, listed, read,
                      claims, issues, report, stable, seen>>
      BY <2>3 DEF auditVars
    <3>2. WorldType /\ AuditType
      BY AuditTypes DEF AuditInv
    <3>3. WorldType' /\ AuditType'
      BY <3>1, <3>2 DEF WorldType, AuditType
    <3>4. WorldInv' /\ ReadInv' /\ StableInv' /\ DoneInv'
      BY <3>1 DEF AuditInv, WorldInv, ReadInv, StableInv, DoneInv, Ours, Faithful, Done, Covered
    <3>5. Audit!OwnedWasLive' /\ Audit!NoSilentMiss'
      BY <3>1 DEF AuditInv, Audit!OwnedWasLive, Audit!NoSilentMiss
    <3> QED
      BY <3>3, <3>4, <3>5, AuditTypes DEF AuditInv
  <2> QED
    BY <2>1, <2>2, <2>3
<1>3. I => AuditCorrect
  BY DEF AuditInv, AuditCorrect
<1> QED
  BY <1>1, <1>2, <1>3, PTL DEF Spec

==============================================================================
