--------------------------- MODULE SocketPublication ---------------------------
(***************************************************************************)
(* How the vpn-core daemon gives its clients a socket (core/vpncore/       *)
(* service.go, preparePublishedSocket and publishedUnixSocket.close): bind *)
(* at a private path, set the rights, rename to the public path, compare   *)
(* identities; on the way out remove the public entry if it is still its   *)
(* own.  launchd runs one process of the service at a time; a process may  *)
(* be killed between any two system calls, and another program with the    *)
(* rights may replace the public entry.                                    *)
(*                                                                         *)
(* Device and inode are one number, never reused within a behaviour.       *)
(***************************************************************************)
EXTENDS Naturals

CONSTANT MaxInodes    \* bound: sockets and files that are created

MaxInodesAssumption == MaxInodes \in Nat \ {0}

VARIABLES pc,       \* the next system call of the daemon, "down" without one
          private,  \* the inode at the private path, 0 for none
          public,   \* the inode at the public path
          sock,     \* the inode of the daemon's own open listener
          identity, \* the identity the daemon has taken down
          ready,    \* the inodes that have their rights
          foreign,  \* the inodes that another program has created
          last      \* the last inode created

vars == <<pc, private, public, sock, identity, ready, foreign, last>>

Goto(l) == pc' = l

Start ==
  /\ pc = "down" /\ Goto("verify")
  /\ UNCHANGED <<private, public, sock, identity, ready, foreign, last>>

\* The helper's parent and the private directory must be secure.
VerifyDirectories ==
  /\ pc = "verify"
  /\ Goto("unlink") \/ Goto("down")
  /\ UNCHANGED <<private, public, sock, identity, ready, foreign, last>>

\* Mutant: a private socket that a killed daemon left is not removed.
RemoveStaleNot ==
  /\ pc = "unlink" /\ Goto("listen")
  /\ UNCHANGED <<private, public, sock, identity, ready, foreign, last>>

RemoveStale ==
  /\ pc = "unlink"
  /\ private' = 0 /\ Goto("listen")
  /\ UNCHANGED <<public, sock, identity, ready, foreign, last>>

\* bind fails on a path that exists, and may fail otherwise.
Listen ==
  /\ pc = "listen" /\ last < MaxInodes
  /\ \/ /\ private = 0
        /\ last' = last + 1 /\ private' = last' /\ sock' = last' /\ Goto("chmod")
     \/ Goto("down") /\ UNCHANGED <<last, private, sock>>
  /\ UNCHANGED <<public, identity, ready, foreign>>

\* The deferred clean-up of a failed preparation.
Abort ==
  /\ pc = "abort"
  /\ sock' = 0 /\ private' = 0 /\ Goto("down")
  /\ UNCHANGED <<public, identity, ready, foreign, last>>

\* Mutant: the socket is bound to the public path before it has its rights.
RightsLate ==
  /\ pc = "chmod"
  /\ public' = private /\ private' = 0 /\ identity' = private /\ Goto("check")
  /\ UNCHANGED <<sock, ready, foreign, last>>

\* Mutant: the rights are given to the public path.
RightsOfPublic ==
  /\ pc = "chmod"
  /\ ready' = ready \cup {public} /\ Goto("lstat")
  /\ UNCHANGED <<private, public, sock, identity, foreign, last>>

\* chmod and chown by path; either may fail.
SetRights ==
  /\ pc = "chmod"
  /\ \/ ready' = ready \cup {private} /\ Goto("lstat")
     \/ Goto("abort") /\ UNCHANGED ready
  /\ UNCHANGED <<private, public, sock, identity, foreign, last>>

InspectPrivate ==
  /\ pc = "lstat"
  /\ identity' = private /\ Goto("rename")
  /\ UNCHANGED <<private, public, sock, ready, foreign, last>>

\* The rename replaces whatever is at the public path, unless that is a directory.
Publish ==
  /\ pc = "rename"
  /\ \/ public' = private /\ private' = 0 /\ Goto("check")
     \/ Goto("abort") /\ UNCHANGED <<private, public>>
  /\ UNCHANGED <<sock, identity, ready, foreign, last>>

\* Mutant: whatever is at the public path is taken for the own socket.
CheckPublicAny ==
  /\ pc = "check"
  /\ identity' = public /\ Goto("serving")
  /\ UNCHANGED <<private, public, sock, ready, foreign, last>>

CheckPublic ==
  /\ pc = "check"
  /\ Goto(IF public = identity THEN "serving" ELSE "abort")
  /\ UNCHANGED <<private, public, sock, identity, ready, foreign, last>>

\* close: the listener first, then the public entry if it is still the same one.
CloseListener ==
  /\ pc = "serving"
  /\ sock' = 0 /\ Goto("inspect")
  /\ UNCHANGED <<private, public, identity, ready, foreign, last>>

InspectPublic ==
  /\ pc = "inspect"
  /\ Goto(IF public = identity THEN "remove" ELSE "down")
  /\ UNCHANGED <<private, public, sock, identity, ready, foreign, last>>

RemovePublic ==
  /\ pc = "remove"
  /\ public' = 0 /\ Goto("down")
  /\ UNCHANGED <<private, sock, identity, ready, foreign, last>>

\* SIGKILL or a panic: the descriptors close, the paths stay.
Kill ==
  /\ pc # "down"
  /\ sock' = 0 /\ Goto("down")
  /\ UNCHANGED <<private, public, identity, ready, foreign, last>>

\* Another program removes or replaces the public entry.
Replace ==
  \/ /\ public # 0 /\ public' = 0
     /\ UNCHANGED <<pc, private, sock, identity, ready, foreign, last>>
  \/ /\ last < MaxInodes
     /\ last' = last + 1 /\ public' = last' /\ foreign' = foreign \cup {last'}
     /\ UNCHANGED <<pc, private, sock, identity, ready>>

Init ==
  /\ pc = "down" /\ private = 0 /\ public = 0 /\ sock = 0 /\ identity = 0
  /\ ready = {} /\ foreign = {} /\ last = 0

Daemon ==
  \/ Start \/ VerifyDirectories \/ RemoveStale \/ Listen \/ SetRights \/ InspectPrivate
  \/ Publish \/ CheckPublic \/ Abort \/ CloseListener \/ InspectPublic \/ RemovePublic

Next == Daemon \/ Kill \/ Replace

Spec == Init /\ [][Next]_vars

---------------------------------------------------------------------------
(* What must hold.                                                           *)

Inodes == 0..MaxInodes

TypeOK ==
  /\ pc \in {"down", "verify", "unlink", "listen", "chmod", "lstat", "rename", "check", "abort",
             "serving", "inspect", "remove"}
  /\ private \in Inodes /\ public \in Inodes /\ sock \in Inodes /\ identity \in Inodes
  /\ ready \subseteq Inodes \ {0} /\ foreign \subseteq Inodes \ {0} /\ last \in Inodes
  /\ {private, public, sock, identity} \cup ready \cup foreign \subseteq 0..last

\* A socket of the daemon is never reachable at the public path before it has its owner
\* and mode ("binds and permissions the socket before it atomically publishes it").
PublishedReady == public # 0 => public \in ready \cup foreign

\* A daemon that serves has, at the moment it starts to, its own open listener at the
\* public path and nothing at the private one: no start takes over an entry of a killed
\* daemon or of another program.
ServesItsOwn ==
  [][pc # "serving" /\ pc' = "serving" => public' = sock' /\ sock' # 0 /\ private' = 0]_vars

\* A killed daemon does not keep the next one from binding: a start that gets to bind
\* finds the private path free, whatever was left behind.
BindFree == pc = "listen" => private = 0

-----------------------------------------------------------------------------
(* What a document, a comment or an error message of the repository says   *)
(* and the model refutes: see "What the code does not keep" in README.md.  *)

\* "shutdown removes the published socket only while its captured device/inode identity
\* still matches": the entry that a shutdown removes is its own at that moment.
RemovesItsOwn ==
  [][pc = "remove" /\ pc' = "down" /\ public' # public => public = identity]_vars

=============================================================================
