--------------------------- MODULE RuntimeRemoval ----------------------------
(***************************************************************************)
(* How vpn-core uninstall removes the runtime directory                    *)
(* (core/vpncore/runtime_removal.go): the command inspects the entry, a    *)
(* privileged helper renames what it finds into a fresh quarantine beside  *)
(* the helper directory, and only an entry with the inspected identity is  *)
(* removed recursively.  The parent of the runtime directory is writable   *)
(* by others, so between any two steps a daemon may create the directory   *)
(* anew, another uninstall may be at the same point, and any process of    *)
(* the user may move entries in and out.                                   *)
(***************************************************************************)
EXTENDS Naturals, FiniteSets

CONSTANTS
  Op,        \* uninstall commands
  None,      \* no entry
  MaxIno     \* bound: entries that ever exist at the runtime path

Kind == {"directory", "symlink", "other"}

RemovalAssumption ==
  MaxIno \in Nat \ {0} /\ None \notin [kind : Kind, root : BOOLEAN, ino : 1..MaxIno]

VARIABLES
  at,        \* the entry at the runtime path
  away,      \* entries moved to other names in its parent
  nextIno,
  quarantine,\* for each command: whether its quarantine exists, and the entry in it
  pc,
  expected,  \* for each command: the entry it has inspected
  printed,   \* the helper printed a quarantine path
  moveErr,   \* the helper failed
  runtimeErr,\* removeServiceRuntimeDirectory returned an error
  removed    \* for each command: what it has removed recursively

vars == <<at, away, nextIno, quarantine, pc, expected, printed, moveErr, runtimeErr, removed>>

Entry == [kind : Kind, root : BOOLEAN, ino : 1..MaxIno]

Init ==
  /\ at \in {None, [kind |-> "directory", root |-> TRUE, ino |-> 1]}
  /\ nextIno = 2 /\ away = {}
  /\ quarantine = [o \in Op |-> [made |-> FALSE, entry |-> None]]
  /\ pc = [o \in Op |-> "inspect"] /\ expected = [o \in Op |-> None]
  /\ printed = [o \in Op |-> FALSE] /\ moveErr = [o \in Op |-> FALSE]
  /\ runtimeErr = [o \in Op |-> FALSE] /\ removed = [o \in Op |-> {}]

Goto(o, p) == pc' = [pc EXCEPT ![o] = p]
Fails(o)   == runtimeErr' = [runtimeErr EXCEPT ![o] = TRUE] /\ Goto(o, "helperDir")
RootDir(e) == e # None /\ e.kind = "directory" /\ e.root
-----------------------------------------------------------------------------
(* The parent directory's other users *)

\* The daemon creates its runtime directory; anyone creates another entry.
Create ==
  /\ at = None /\ nextIno <= MaxIno
  /\ \E k \in Kind, r \in BOOLEAN : at' = [kind |-> k, root |-> r, ino |-> nextIno]
  /\ nextIno' = nextIno + 1
  /\ UNCHANGED <<away, quarantine, pc, expected, printed, moveErr, runtimeErr, removed>>

MoveAway ==
  /\ at # None /\ at' = None /\ away' = away \cup {at}
  /\ UNCHANGED <<nextIno, quarantine, pc, expected, printed, moveErr, runtimeErr, removed>>

MoveBack ==
  /\ at = None /\ \E e \in away : at' = e /\ away' = away \ {e}
  /\ UNCHANGED <<nextIno, quarantine, pc, expected, printed, moveErr, runtimeErr, removed>>
-----------------------------------------------------------------------------
(* The command, before the move *)

\* The first lstat. Nothing there: nothing to do; a symlink is to be unlinked;
\* anything but a directory of root is left alone.
Inspect(o) ==
  /\ pc[o] = "inspect"
  /\ \/ at = None /\ Goto(o, "helperDir") /\ UNCHANGED <<expected, runtimeErr>>
     \/ at # None /\ at.kind = "symlink" /\ Goto(o, "unlink") /\ UNCHANGED <<expected, runtimeErr>>
     \/ /\ RootDir(at) /\ expected' = [expected EXCEPT ![o] = at]
        /\ Goto(o, "parents") /\ UNCHANGED runtimeErr
     \/ at # None /\ at.kind # "symlink" /\ ~RootDir(at) /\ Fails(o) /\ UNCHANGED expected
     \/ Fails(o) /\ UNCHANGED expected            \* lstat or the owner cannot be read
  /\ UNCHANGED <<at, away, nextIno, quarantine, printed, moveErr, removed>>

\* rm -f of the path: whatever is there now and is not a directory. Either way
\* the removal counts as failed.
Unlink(o) ==
  /\ pc[o] = "unlink" /\ Fails(o)
  /\ \/ at # None /\ at.kind # "directory" /\ at' = None
     \/ UNCHANGED at
  /\ UNCHANGED <<away, nextIno, quarantine, expected, printed, moveErr, removed>>

\* The service the label names is a shipped one, and the caller's directories are
\* its own, clean and in the expected parent.
CheckConfig(o) ==
  /\ pc[o] = "config"
  /\ \/ Goto(o, "mkdir") /\ UNCHANGED runtimeErr
     \/ Fails(o)
  /\ UNCHANGED <<at, away, nextIno, quarantine, expected, printed, moveErr, removed>>

\* Both parents are real, safe directories on one device.
CheckParents(o) ==
  /\ pc[o] = "parents"
  /\ \/ Goto(o, "config") /\ UNCHANGED runtimeErr
     \/ Fails(o)
  /\ UNCHANGED <<at, away, nextIno, quarantine, expected, printed, moveErr, removed>>
-----------------------------------------------------------------------------
(* The privileged helper *)

\* The helper returns to the command: with an error or not, and with the path of
\* the quarantine unless it could not print it.
HelperEnds(o, ok) ==
  /\ Goto(o, "moved") /\ moveErr' = [moveErr EXCEPT ![o] = ~ok]
  /\ \/ quarantine'[o].made /\ printed' = [printed EXCEPT ![o] = TRUE]
     \/ ~ok /\ UNCHANGED printed

\* The arguments and both parents again, then an exclusive new directory.
MakeQuarantine(o) ==
  /\ pc[o] = "mkdir"
  /\ \/ UNCHANGED quarantine /\ HelperEnds(o, FALSE)
     \/ /\ Goto(o, "secure") /\ quarantine' = [quarantine EXCEPT ![o].made = TRUE]
        /\ UNCHANGED <<moveErr, printed>>
  /\ UNCHANGED <<at, away, nextIno, expected, runtimeErr, removed>>

\* Owner, ACL and mode of the quarantine are set and verified, its content is
\* absent, and the entry at the path has the identity the command has inspected.
SecureQuarantine(o) ==
  /\ pc[o] = "secure" /\ UNCHANGED quarantine
  /\ \/ HelperEnds(o, FALSE)
     \/ at = expected[o] /\ Goto(o, "rename") /\ UNCHANGED <<moveErr, printed>>
  /\ UNCHANGED <<at, away, nextIno, expected, runtimeErr, removed>>

\* renameat moves whatever is at the path by now. The helper may be killed, or
\* fail to print, after the move.
Rename(o) ==
  /\ pc[o] = "rename"
  /\ \/ /\ at # None /\ quarantine' = [quarantine EXCEPT ![o].entry = at] /\ at' = None
        /\ \E ok \in BOOLEAN : HelperEnds(o, ok)
     \/ UNCHANGED <<quarantine, at>> /\ HelperEnds(o, FALSE)
  /\ UNCHANGED <<away, nextIno, expected, runtimeErr, removed>>
-----------------------------------------------------------------------------
(* The command, after the move *)

\* The helper's output is a quarantine path of this service, the one it has made.
ValidPath(o) == printed[o]

\* Mutant: the helper's own check before the rename is taken to be enough.
CheckMovedTrusting(o) ==
  /\ pc[o] = "moved"
  /\ \/ Fails(o)
     \/ /\ ValidPath(o) /\ quarantine[o].entry # None /\ ~moveErr[o]
        /\ Goto(o, "remove") /\ UNCHANGED runtimeErr
  /\ UNCHANGED <<at, away, nextIno, quarantine, expected, printed, moveErr, removed>>

\* Mutant: a missing destination counts as moved and removed.
CheckMovedMissing(o) ==
  /\ pc[o] = "moved"
  /\ \/ Fails(o)
     \/ /\ ValidPath(o) /\ quarantine[o].entry \in {expected[o], None}
        /\ Goto(o, "remove") /\ UNCHANGED runtimeErr
  /\ UNCHANGED <<at, away, nextIno, quarantine, expected, printed, moveErr, removed>>

\* The printed path and the identity of what is in the quarantine: only that
\* authorises the removal. Everything else retains the quarantine.
CheckMoved(o) ==
  /\ pc[o] = "moved"
  /\ \/ Fails(o)
     \/ /\ ValidPath(o) /\ quarantine[o].entry = expected[o] /\ ~moveErr[o]
        /\ Goto(o, "remove") /\ UNCHANGED runtimeErr
  /\ UNCHANGED <<at, away, nextIno, quarantine, expected, printed, moveErr, removed>>

\* Mutant: an rm that fails is not reported.
RemoveQuarantineSilent(o) ==
  /\ pc[o] = "remove" /\ Goto(o, "helperDir") /\ UNCHANGED runtimeErr
  /\ \/ /\ quarantine' = [quarantine EXCEPT ![o] = [made |-> FALSE, entry |-> None]]
        /\ removed' = [removed EXCEPT ![o] = @ \cup ({quarantine[o].entry} \ {None})]
     \/ UNCHANGED <<quarantine, removed>>
  /\ UNCHANGED <<at, away, nextIno, expected, printed, moveErr>>

\* Mutant: the quarantine is removed and its content forgotten.
RemoveQuarantineShell(o) ==
  /\ pc[o] = "remove" /\ Goto(o, "helperDir") /\ UNCHANGED <<runtimeErr, removed>>
  /\ quarantine' = [quarantine EXCEPT ![o].made = FALSE]
  /\ UNCHANGED <<at, away, nextIno, expected, printed, moveErr>>

\* rm -rf of the quarantine, which must be gone afterwards.
RemoveQuarantine(o) ==
  /\ pc[o] = "remove"
  /\ \/ /\ quarantine' = [quarantine EXCEPT ![o] = [made |-> FALSE, entry |-> None]]
        /\ removed' = [removed EXCEPT ![o] = @ \cup ({quarantine[o].entry} \ {None})]
        /\ \/ Goto(o, "helperDir") /\ UNCHANGED runtimeErr
           \/ Fails(o)
     \/ Fails(o) /\ UNCHANGED <<quarantine, removed>>
  /\ UNCHANGED <<at, away, nextIno, expected, printed, moveErr>>

\* The helper directory goes after the runtime directory, whose helper it may hold.
RemoveHelperDir(o) ==
  /\ pc[o] = "helperDir" /\ Goto(o, "verify")
  /\ UNCHANGED <<at, away, nextIno, quarantine, expected, printed, moveErr, runtimeErr, removed>>

\* verifyServicePathsAbsent, which looks at the runtime path once more.
VerifyAbsent(o) ==
  /\ pc[o] = "verify"
  /\ \/ at = None /\ ~runtimeErr[o] /\ Goto(o, "succeeded")
     \/ Goto(o, "failed")
  /\ UNCHANGED <<at, away, nextIno, quarantine, expected, printed, moveErr, runtimeErr, removed>>

Uninstall(o) ==
  \/ Inspect(o) \/ Unlink(o) \/ CheckParents(o) \/ CheckConfig(o)
  \/ MakeQuarantine(o) \/ SecureQuarantine(o) \/ Rename(o)
  \/ CheckMoved(o) \/ RemoveQuarantine(o) \/ RemoveHelperDir(o) \/ VerifyAbsent(o)

Next == Create \/ MoveAway \/ MoveBack \/ \E o \in Op : Uninstall(o)

Spec == Init /\ [][Next]_vars
-----------------------------------------------------------------------------
(* Properties *)

Maybe(S) == S \cup {None}

TypeOK ==
  /\ at \in Maybe(Entry) /\ away \subseteq Entry /\ nextIno \in 2..(MaxIno + 1)
  /\ quarantine \in [Op -> [made : BOOLEAN, entry : Maybe(Entry)]]
  /\ expected \in [Op -> Maybe(Entry)] /\ removed \in [Op -> SUBSET Entry]
  /\ {printed, moveErr, runtimeErr} \subseteq [Op -> BOOLEAN]
  /\ \A o \in Op : quarantine[o].entry # None => quarantine[o].made

\* Whatever is swapped at the path between the checks, a command removes
\* recursively nothing but the directory of root that it inspected first.
OnlyVerifiedRemoved ==
  \A o \in Op : removed[o] \subseteq ({expected[o]} \ {None}) /\ \A e \in removed[o] : RootDir(e)

\* An uninstall that reports success after it has found a runtime directory has
\* removed that directory, and nothing of it is left under another name, in its
\* quarantine or in that of another command.
SuccessMeansGone ==
  \A o \in Op : pc[o] = "succeeded" /\ expected[o] # None =>
    /\ expected[o] \in removed[o] /\ expected[o] # at /\ expected[o] \notin away
    /\ \A p \in Op : quarantine[p].entry # expected[o]
    /\ ~quarantine[o].made

\* An entry that was moved by mistake stays in its quarantine for inspection:
\* what leaves a quarantine is what the command has inspected.
StrangersRetained ==
  [][\A o \in Op : quarantine[o].entry # quarantine'[o].entry /\ quarantine[o].entry # None
       => quarantine[o].entry = expected[o]]_vars

\* One directory is removed by one of several uninstalls only, and at most one of
\* those that found it reports success.
OneWinner ==
  \A o, p \in Op : o # p /\ pc[o] = "succeeded" /\ pc[p] = "succeeded" /\ expected[o] # None
    => expected[o] # expected[p]
=============================================================================
