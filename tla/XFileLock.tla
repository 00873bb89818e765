------------------------------ MODULE XFileLock ------------------------------
(***************************************************************************)
(* src/src/xfile.c, xflock and xfunlock: locks on files "for multex        *)
(* locking between two processess".  xflock opens the file and returns     *)
(* what fcntl returned, 0, and not the descriptor; xfunlock is given what  *)
(* xflock returned.  The kernel keeps a lock for a process and a file, and *)
(* drops it when the process closes any descriptor of that file.           *)
(***************************************************************************)
EXTENDS Integers, FiniteSets, FiniteSetsExt

CONSTANTS
  Processes,
  LockFiles,
  MaxFd,      \* bound: the descriptors a process may have
  StdinIs,    \* what descriptor 0 is at the start: Other or Closed
  Other, Closed, Nobody

ASSUME LockAssumption ==
  /\ MaxFd \in Nat
  /\ StdinIs \in {Other, Closed}
  /\ LockFiles \cap {Other, Closed} = {} /\ Other # Closed
  /\ Nobody \notin Processes

VARIABLES
  fds,      \* the file of every descriptor of a process
  holder,   \* the process that has the lock of a file
  inside    \* the files that a process has locked and not unlocked

lockVars == <<fds, holder, inside>>

\* Descriptor 1 and 2 are open; they play no part.
Fds == {0} \cup 3 .. MaxFd
Fresh == [f \in Fds |-> IF f = 0 THEN StdinIs ELSE Closed]

LockInit ==
  /\ fds = [p \in Processes |-> Fresh]
  /\ holder = [l \in LockFiles |-> Nobody]
  /\ inside = [p \in Processes |-> {}]

FreeFds(p) == {f \in Fds : fds[p][f] = Closed}
Open(p, l) == fds' = [fds EXCEPT ![p][Min(FreeFds(p))] = l]

-----------------------------------------------------------------------------
(* xflock *)

\* Mutant: a lock for reading.
FlockShared(p, l) ==
  /\ l \notin inside[p] /\ FreeFds(p) # {}
  /\ Open(p, l)
  /\ holder' = [holder EXCEPT ![l] = IF @ = Nobody THEN p ELSE @]
  /\ inside' = [inside EXCEPT ![p] = @ \cup {l}]

Flock(p, l) ==
  /\ l \notin inside[p] /\ FreeFds(p) # {}
  /\ holder[l] \in {p, Nobody}
  /\ Open(p, l)
  /\ holder' = [holder EXCEPT ![l] = p]
  /\ inside' = [inside EXCEPT ![p] = @ \cup {l}]

\* fcntl fails, as somebody has the lock; the descriptor stays open.
FlockTaken(p, l) ==
  /\ l \notin inside[p] /\ FreeFds(p) # {}
  /\ holder[l] \notin {p, Nobody}
  /\ Open(p, l)
  /\ UNCHANGED <<holder, inside>>

-----------------------------------------------------------------------------
(* xfunlock(0): fcntl and close. *)

Unlocked(p, l) == [holder EXCEPT ![l] = IF @ = p THEN Nobody ELSE @]

Funlock(p, l) ==
  /\ l \in inside[p]
  /\ inside' = [inside EXCEPT ![p] = @ \ {l}]
  /\ fds' = [fds EXCEPT ![p][0] = Closed]
  /\ holder' = IF fds[p][0] \in LockFiles THEN Unlocked(p, fds[p][0]) ELSE holder

\* A process ends, and another one takes its place.
Restart(p) ==
  /\ fds' = [fds EXCEPT ![p] = Fresh]
  /\ inside' = [inside EXCEPT ![p] = {}]
  /\ holder' = [l \in LockFiles |-> IF holder[l] = p THEN Nobody ELSE holder[l]]

LockNext ==
  \E p \in Processes :
    \/ \E l \in LockFiles : Flock(p, l) \/ FlockTaken(p, l) \/ Funlock(p, l)
    \/ Restart(p)

LockSpec == LockInit /\ [][LockNext]_lockVars

-----------------------------------------------------------------------------
(* Properties *)

\* "for multex locking between two processess" (xfile.c): nobody else is
\* inside.  (With one file; xfunlock may drop the lock of another one.)
LockExcludes ==
  \A p, q \in Processes : p # q => inside[p] \cap inside[q] = {}

\* Who has unlocked does not keep the others out any more.
UnlockReleases ==
  [][\A p \in Processes, l \in LockFiles : Funlock(p, l) => holder'[l] # p]_lockVars
=============================================================================
