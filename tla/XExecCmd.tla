------------------------------ MODULE XExecCmd ------------------------------
(***************************************************************************)
(* src/src/xexccmd.c, xspipe_cmd: a command is run by a child, whose       *)
(* output the program reads from a pipe until all its writers are gone.    *)
(* Children are reaped by the handler of SIGCHLD, which xspipe_cmd         *)
(* installs when it has forked already, and which waits for every child of *)
(* the program.                                                            *)
(***************************************************************************)
EXTENDS Integers, FiniteSets

CONSTANTS
  Calls,        \* bound: the calls of xspipe_cmd, 1 .. n
  MaxChunks,    \* bound: what a command writes
  OtherChild,   \* the program has forked another child itself
  Installed     \* some earlier call has installed the handler

ASSUME ExecAssumption ==
  /\ Calls \in Nat /\ MaxChunks \in Nat
  /\ OtherChild \in BOOLEAN /\ Installed \in BOOLEAN

VARIABLES
  call,      \* the call that is in progress or was the last
  at,        \* "idle", "forked", "reading"
  child,     \* the state of every child: "none", "running", "zombie", "reaped"
  written,   \* the chunks that a command has written
  writers,   \* the processes that a command has left in the background
  got,       \* the chunks that the call has read
  returned,  \* of every call: what *output has, -1 if that is undefined
  handler,   \* SIGCHLD has the handler
  pending,   \* SIGCHLD is pending
  waiting,   \* the handler runs
  missed,    \* the children whose SIGCHLD was ignored (a ghost)
  ends       \* the pipe ends that the program has open

execVars == <<call, at, child, written, writers, got, returned, handler,
              pending, waiting, missed, ends>>

\* Child 0 is the program's own.
Children == 0 .. Calls

ExecInit ==
  /\ call = 0 /\ at = "idle" /\ got = 0 /\ ends = 0
  /\ child = [c \in Children |-> IF c = 0 /\ OtherChild THEN "running" ELSE "none"]
  /\ written = [c \in Children |-> 0]
  /\ writers = [c \in Children |-> 0]
  /\ returned = [c \in Children |-> 0]
  /\ handler = Installed /\ pending = FALSE /\ waiting = FALSE /\ missed = {}

-----------------------------------------------------------------------------
(* The program.  It stands still while the handler runs. *)

Goes(from, to) == ~ waiting /\ at = from /\ at' = to

\* pipe and fork; the child inherits the writing end.
Fork ==
  /\ Goes("idle", "forked")
  /\ call < Calls
  /\ call' = call + 1
  /\ child' = [child EXCEPT ![call + 1] = "running"]
  /\ got' = 0
  /\ ends' = ends + 2
  /\ UNCHANGED <<written, writers, returned, handler, pending, waiting, missed>>

\* fork returns -1: the call returns 0, and leaves the pipe open.
ForkFails ==
  /\ Goes("idle", "idle")
  /\ call < Calls
  /\ call' = call + 1
  /\ ends' = ends + 2
  /\ UNCHANGED <<child, written, writers, got, returned, handler, pending, waiting, missed>>

\* signal(SIGCHLD, sig_chld_handler), and the writing end is closed.
Install ==
  /\ Goes("forked", "reading")
  /\ handler' = TRUE
  /\ ends' = ends - 1
  /\ UNCHANGED <<call, child, written, writers, got, returned, pending, waiting, missed>>

Read ==
  /\ Goes("reading", "reading")
  /\ got < written[call]
  /\ got' = got + 1
  /\ UNCHANGED <<call, child, written, writers, returned, handler, pending, waiting, missed, ends>>

Return(what) ==
  /\ Goes("reading", "idle")
  /\ returned' = [returned EXCEPT ![call] = what]
  /\ ends' = ends - 1
  /\ UNCHANGED <<call, child, written, writers, got, handler, pending, waiting, missed>>

\* realloc returns NULL: the call returns what it has counted, without output.
ReallocFails == got < written[call] /\ Return(-1)

\* read returns 0, when nobody has the writing end.
ReadEnd ==
  /\ got = written[call]
  /\ child[call] # "running" /\ writers[call] = 0
  /\ Return(got)

-----------------------------------------------------------------------------
(* The commands *)

WriteOut(c) ==
  /\ child[c] = "running" \/ writers[c] > 0
  /\ c # 0 /\ written[c] < MaxChunks
  /\ written' = [written EXCEPT ![c] = @ + 1]
  /\ UNCHANGED <<call, at, child, writers, got, returned, handler, pending, waiting, missed, ends>>

\* The command leaves a process in the background, which has the pipe, too.
LeaveBehind(c) ==
  /\ child[c] = "running" /\ c # 0 /\ writers[c] = 0
  /\ writers' = [writers EXCEPT ![c] = 1]
  /\ UNCHANGED <<call, at, child, written, got, returned, handler, pending, waiting, missed, ends>>

BackgroundEnds(c) ==
  /\ writers[c] > 0
  /\ writers' = [writers EXCEPT ![c] = @ - 1]
  /\ UNCHANGED <<call, at, child, written, got, returned, handler, pending, waiting, missed, ends>>

\* Without a handler SIGCHLD is ignored, and the child stays a zombie.
Exit(c) ==
  /\ child[c] = "running"
  /\ child' = [child EXCEPT ![c] = "zombie"]
  /\ pending' = (pending \/ handler)
  /\ missed' = IF handler THEN missed ELSE missed \cup {c}
  /\ UNCHANGED <<call, at, written, writers, got, returned, handler, waiting, ends>>

-----------------------------------------------------------------------------
(* sig_chld_handler *)

HandlerStarts ==
  /\ pending /\ ~ waiting
  /\ waiting' = TRUE /\ pending' = FALSE
  /\ UNCHANGED <<call, at, child, written, writers, got, returned, handler, missed, ends>>

\* Mutant: without the loop, one child is reaped for a signal.
WaitOnce(c) ==
  /\ waiting /\ child[c] = "zombie"
  /\ child' = [child EXCEPT ![c] = "reaped"]
  /\ waiting' = FALSE
  /\ UNCHANGED <<call, at, written, writers, got, returned, handler, pending, missed, ends>>

\* wait returns a child that has exited; it waits for those that run.
Wait(c) ==
  /\ waiting /\ child[c] = "zombie"
  /\ child' = [child EXCEPT ![c] = "reaped"]
  /\ UNCHANGED <<call, at, written, writers, got, returned, handler, pending, waiting, missed, ends>>

\* ECHILD
HandlerEnds ==
  /\ waiting /\ \A c \in Children : child[c] \in {"none", "reaped"}
  /\ waiting' = FALSE
  /\ UNCHANGED <<call, at, child, written, writers, got, returned, handler, pending, missed, ends>>

ExecNext ==
  \/ Fork \/ ForkFails \/ Install \/ Read \/ ReallocFails \/ ReadEnd
  \/ \E c \in Children :
       WriteOut(c) \/ LeaveBehind(c) \/ BackgroundEnds(c) \/ Exit(c) \/ Wait(c)
  \/ HandlerStarts \/ HandlerEnds

ExecSpec == ExecInit /\ [][ExecNext]_execVars

-----------------------------------------------------------------------------
(* Properties *)

\* "Preventing zombie" (xexccmd.c), although a signal stands for any number of
\* children: while neither the signal nor the handler is there, a zombie is
\* one that exited before the first call came to install the handler.
RestingZombies ==
  ~ pending /\ ~ waiting =>
    \A c \in Children : child[c] = "zombie" => c \in missed

\* What a call returns is all that the command and the processes it has left
\* behind have written, and ever will, unless memory ran out.
OutputIsComplete ==
  \A c \in Children \ {0} :
    c < call \/ at = "idle" => returned[c] \in {-1, written[c]}

\* Commands leave neither zombies nor output that is missing (xexccmd.c).
ExecIsClean == RestingZombies /\ OutputIsComplete

=============================================================================
