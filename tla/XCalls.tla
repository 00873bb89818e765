------------------------------- MODULE XCalls -------------------------------
(* What the functions of the library that wrap system calls hold while they *)
(* run and after they have returned: descriptors, streams, memory, files on *)
(* disk.  Every call that may fail does so here.                            *)
(*                                                                          *)
(* A function is a script: at each label, the set of its outcomes.  An      *)
(* outcome acquires and releases resources and goes to a label; one that    *)
(* releases what it gave up on stands for the error path with its close.    *)
(* A script ends at "ok" or "failed", or at "part" (a result without the    *)
(* memory for it) or "dead" (the program has exited).                       *)
EXTENDS Integers, Sequences, FiniteSets

VARIABLES
  called, \* the function the program has called
  frames, \* the functions that run, innermost first: name and label
  held,   \* what is held
  closed, \* what was released without being held
  outcome   \* how the call has ended
callVars == <<called, frames, held, closed, outcome>>

Back(ok, failed) == [ok |-> ok, failed |-> failed, part |-> failed]
NoWay == Back("", "")
Outcome(gets, frees, to) == [gets |-> gets, frees |-> frees, calls |-> "nothing", to |-> to, back |-> NoWay]
Go(to) == Outcome({}, {}, to)
Get(x, to) == Outcome({x}, {}, to)
Free(x, to) == Outcome({}, {x}, to)
FreeAll(xs, to) == Outcome({}, xs, to)
\* A call of another function; where it leads depends on how that one ends.
Call(f, back) == [gets |-> {}, frees |-> {}, calls |-> f, to |-> "", back |-> back]

-----------------------------------------------------------------------------
(* xsocket.c *)
xsocket == [start |-> {Get("socket", "ok"), Go("dead")}]
xsendto == [start |-> {Go("ok"), Free("to", "dead")}]
xconnect == [start |-> {Go("ok"), Free("to", "dead")}]
get_lsa == [start |-> {Go("size"), Go("failed")}, size |-> {Get("lsa", "ok"), Go("failed")}]
\* A bind that fails removes the file and forgets the socket.
xunix_socket == [start |-> {Get("socket", "bind"), Go("failed")}, bind |-> {Go("ok"), Go("failed")}]
xunix_send == [start |-> {Get("socket", "connect"), Go("failed")},
               connect |-> {Go("write"), Free("socket", "failed")},
               write |-> {Free("socket", "ok"), Free("socket", "failed")}]
xtcport_used == [start |-> {Get("stream", "line"), Go("failed")},
                 line |-> {Go("line"), Free("stream", "ok"), Free("stream", "failed")}]

(* xnetif.c: all of them give up the program without a socket. *)
xgetif_info == [start |-> {Call("xsocket", Back("ioctl", "failed"))},
                ioctl |-> {Free("socket", "ok"), Free("socket", "failed")}]
\* Mutant: the path on which the flags cannot be set forgets the socket.
xsetif_flagLeaking == [start |-> {Call("xsocket", Back("get", "failed"))},
                       get |-> {Go("set"), Free("socket", "failed")},
                       set |-> {Free("socket", "ok"), Go("failed")}]
xsetif_flag == [start |-> {Call("xsocket", Back("get", "failed"))},
                get |-> {Go("set"), Free("socket", "failed")},
                set |-> {Free("socket", "ok"), Free("socket", "failed")}]
xclrif_flag == [start |-> {Call("xsocket", Back("get", "failed"))},
                get |-> {Go("clear"), Free("socket", "failed")},
                clear |-> {Free("socket", "ok"), Free("socket", "failed")}]
xsetif_info == [start |-> {Go("failed"), Call("xsocket", Back("ioctl", "failed"))},
                ioctl |-> {Free("socket", "ok"), Free("socket", "failed")}]
\* No output is success, and then there is nothing to free.
xsetif_hwaddr == [start |-> {Go("failed"), Call("xscomb_cmd", [ok |-> "told", failed |-> "ok", part |-> "failed"])},
                  told |-> {Free("output", "failed")}]
xgetif_strip == [start |-> {Call("xgetif_info", Back("ok", "failed"))}]
xsetif_strip == [start |-> {Go("failed"), Call("xsetif_info", Back("ok", "failed"))}]
\* The route that is found is returned, its text forgotten; strstr takes the
\* NULL of a result without memory.
get_default_gw == [start |-> {Call("xspipe_cmd", [ok |-> "scan", failed |-> "failed", part |-> "dead"])},
                   scan |-> {Free("output", "failed"), Go("ok")}]
set_default_gw == [start |-> {Call("xspipe_cmd", [ok |-> "told", failed |-> "add", part |-> "add"])},
                   told |-> {Free("output", "add")},
                   add |-> {Call("xscomb_cmd", [ok |-> "refused", failed |-> "ok", part |-> "failed"])},
                   refused |-> {Free("output", "failed")}]
xarp_getmac == [start |-> {Get("stream", "entry"), Go("failed")},
                entry |-> {Go("entry"), Free("stream", "ok"), Free("stream", "failed")}]
xarp_getip == [start |-> {Get("stream", "entry"), Go("failed")},
               entry |-> {Go("entry"), Free("stream", "ok"), Free("stream", "failed")}]
xlease_getmac == [start |-> {Get("stream", "lease"), Go("failed")},
                  lease |-> {Go("lease"), Free("stream", "ok"), Free("stream", "failed")}]

(* xexccmd.c *)
\* The parent's side.  A fork that fails keeps both ends of the pipe; output
\* that cannot grow keeps what there was, under no name.
xspipe_cmd == [start |-> {Go("failed"), Outcome({"reading end", "writing end"}, {}, "fork")},
               fork |-> {Go("failed"), Outcome({"output"}, {"writing end"}, "read")},
               read |-> {Go("more"), FreeAll({"output", "reading end"}, "failed")},
               more |-> {Go("more"), Free("reading end", "ok"), Outcome({"lost output"}, {"output", "reading end"}, "part")}]
xscomb_cmd == [start |-> {Go("failed"), Get("command", "formatted")},
               formatted |-> {Free("command", "failed"),
                              Call("xspipe_cmd", [ok |-> "okay", failed |-> "none", part |-> "lost"])},
               okay |-> {Free("command", "ok")}, none |-> {Free("command", "failed")},
               lost |-> {Free("command", "part")}]
xsystem == [start |-> {Go("failed"), Get("command", "formatted")},
            formatted |-> {Free("command", "failed"), Free("command", "ok")}]
xcmd_agent == [start |-> {Get("stream", "written"), Go("failed")}, written |-> {Free("stream", "ok")}]
\* The parent exits; null is descriptor 2 or less if a stream was closed.
xdaemon == [start |-> {Go("dead"), Go("session")}, session |-> {Go("ok"), Get("null", "streams")},
            streams |-> {Free("null", "ok"), Outcome({"stream of the program"}, {"null"}, "ok")}]
\* The result of a program without a temporary file is -1 bytes long.
xcmd_func == [start |-> {Call("xtmpfile_create", Back("run", "failed"))},
              run |-> {Call("xfile_read", Back("keep", "drop"))},
              keep |-> {Call("xtmpfile_remove", Back("ok", "ok"))},
              drop |-> {Call("xtmpfile_remove", Back("failed", "failed"))}]

(* xfile.c *)
xfsize_file == [start |-> {Get("stream", "size"), Go("failed")}, size |-> {Free("stream", "ok")}]
xfzero == [start |-> {Go("failed"), Go("regular")}, regular |-> {Get("stream", "emptied"), Go("failed")},
           emptied |-> {Free("stream", "ok")}]
\* The file is made, closed, and opened again with the mode.
xtmpfile_create == [start |-> {Outcome({"file", "descriptor"}, {}, "made"), Go("failed")},
                    made |-> {Free("descriptor", "closed")},
                    closed |-> {Get("temporary", "ok"), Free("file", "failed")}]
\* Without the name of the file the stream is closed and the file stays.
xtmpfile_remove == [start |-> {Call("xfile_name", Back("named", "unnamed"))},
                    named |-> {FreeAll({"temporary", "file"}, "ok")}, unnamed |-> {Free("temporary", "failed")}]
xfile_name == [start |-> {Go("ok"), Go("failed")}]
\* A failed read is taken for a length of -1: the copy has no end.
xfile_read == [start |-> {Go("failed"), Go("dead"), Get("content", "more")},
               more |-> {Go("more"), Go("ok"), Go("dead"), Free("content", "failed")}]

(* xsystem.c, xscript.c, xsha1.c, xrandom.c, xfcfg.c *)
xgetcmdline_bypid == [start |-> {Go("failed"), Get("descriptor", "read")},
                      read |-> {Free("descriptor", "ok"), Free("descriptor", "failed")}]
xgetpid_byname == [start |-> {Get("directory", "entry"), Go("failed")},
                   entry |-> {Go("entry"), Call("xgetcmdline_bypid", Back("entry", "entry")), Free("directory", "ok")}]
xscript_add == [start |-> {Get("stream", "written"), Go("failed")}, written |-> {Free("stream", "ok")}]
xscript_create == [start |-> {Get("stream", "written"), Go("failed")}, written |-> {Free("stream", "ok")}]
sha1_stream == [start |-> {Go("failed"), Get("buffer", "block")},
                block |-> {Go("block"), Free("buffer", "failed"), Free("buffer", "ok")}]
xsha1file == [start |-> {Get("stream", "digest"), Go("failed")},
              digest |-> {Call("sha1_stream", Back("digested", "unread"))},
              digested |-> {Free("stream", "ok")}, unread |-> {Free("stream", "failed")}]
\* Descriptor 0, which a program without a standard input gets, is taken for
\* a failure.
xrand_rc4_init == [start |-> {Go("ok"), Get("descriptor", "opened")},
                   opened |-> {Go("ok"), Free("descriptor", "ok")}]
xfcfg_from_file == [start |-> {Get("stream", "line"), Go("failed")}, line |-> {Go("line"), Free("stream", "ok")}]

(* eloop/os_unix.c *)
os_daemonize == [start |-> {Go("failed"), Go("ok"), Get("stream", "written")}, written |-> {Free("stream", "ok")}]
os_get_random == [start |-> {Get("stream", "read"), Go("failed")},
                  read |-> {Free("stream", "ok"), Free("stream", "failed")}]
\* The buffer is made anew, twice as long, while the directory does not fit.
os_rel2abs_path == [start |-> {Get("path", "ok"), Go("failed"), Go("room")},
                    room |-> {Get("buffer", "cwd"), Go("failed")},
                    cwd |-> {Free("buffer", "room"), Free("buffer", "failed"), Go("join")},
                    join |-> {Free("buffer", "failed"), Outcome({"path"}, {"buffer"}, "ok")}]
os_readfile == [start |-> {Get("stream", "size"), Go("failed")},
                size |-> {Go("sized"), Free("stream", "failed")},
                sized |-> {Get("content", "read"), Free("stream", "failed")},
                read |-> {Free("stream", "ok"), FreeAll({"content", "stream"}, "failed")}]

-----------------------------------------------------------------------------
Script ==
  [xsocket |-> xsocket, xsendto |-> xsendto, xconnect |-> xconnect, get_lsa |-> get_lsa,
   xunix_socket |-> xunix_socket, xunix_send |-> xunix_send, xtcport_used |-> xtcport_used,
   xgetif_info |-> xgetif_info, xsetif_flag |-> xsetif_flag, xclrif_flag |-> xclrif_flag,
   xsetif_info |-> xsetif_info, xsetif_hwaddr |-> xsetif_hwaddr, xgetif_strip |-> xgetif_strip,
   xsetif_strip |-> xsetif_strip, get_default_gw |-> get_default_gw, set_default_gw |-> set_default_gw,
   xarp_getmac |-> xarp_getmac, xarp_getip |-> xarp_getip, xlease_getmac |-> xlease_getmac,
   xspipe_cmd |-> xspipe_cmd, xscomb_cmd |-> xscomb_cmd, xsystem |-> xsystem, xcmd_agent |-> xcmd_agent,
   xdaemon |-> xdaemon, xcmd_func |-> xcmd_func, xfsize_file |-> xfsize_file, xfzero |-> xfzero,
   xtmpfile_create |-> xtmpfile_create, xtmpfile_remove |-> xtmpfile_remove, xfile_name |-> xfile_name,
   xfile_read |-> xfile_read, xgetcmdline_bypid |-> xgetcmdline_bypid, xgetpid_byname |-> xgetpid_byname,
   xscript_add |-> xscript_add, xscript_create |-> xscript_create, sha1_stream |-> sha1_stream,
   xsha1file |-> xsha1file, xrand_rc4_init |-> xrand_rc4_init, xfcfg_from_file |-> xfcfg_from_file,
   os_daemonize |-> os_daemonize, os_get_random |-> os_get_random, os_rel2abs_path |-> os_rel2abs_path,
   os_readfile |-> os_readfile]

\* What the caller hands over, and what a call that has succeeded gives it.
Takes(f) == CASE f \in {"xsendto", "xconnect"} -> {"to"}
              [] f = "xtmpfile_remove" -> {"temporary", "file"}
              [] OTHER -> {}
Gives(f) == CASE f \in {"xsendto", "xconnect"} -> {"to"}
              [] f \in {"xsocket", "xunix_socket"} -> {"socket"}
              [] f = "get_lsa" -> {"lsa"}
              [] f \in {"xspipe_cmd", "xscomb_cmd"} -> {"output"}
              [] f = "xtmpfile_create" -> {"temporary", "file"}
              [] f \in {"xfile_read", "xcmd_func", "os_readfile"} -> {"content"}
              [] f = "os_rel2abs_path" -> {"path"}
              [] OTHER -> {}

Endings == {"ok", "failed", "part"}
Frame(f) == [name |-> f, at |-> "start", back |-> NoWay]

CallsInit ==
  /\ called \in DOMAIN Script
  /\ frames = <<Frame(called)>>
  /\ held = Takes(called)
  /\ closed = {}
  /\ outcome = "running"

Top == frames[1]

\* The innermost function takes a step of its own, or calls another one.
CallsStep ==
  /\ frames # <<>> /\ Top.at \notin Endings \cup {"dead"}
  /\ \E o \in Script[Top.name][Top.at] :
       /\ held' = (held \cup o.gets) \ o.frees
       /\ closed' = closed \cup (o.frees \ held)
       /\ \/ /\ o.calls = "nothing"
             /\ frames' = [frames EXCEPT ![1].at = o.to]
          \/ /\ o.calls # "nothing"
             /\ frames' = <<Frame(o.calls), [Top EXCEPT !.back = o.back]>> \o Tail(frames)
  /\ UNCHANGED <<called, outcome>>

\* It has ended, and its caller goes on where that leads.
CallsReturn ==
  /\ frames # <<>> /\ Top.at \in Endings
  /\ \/ /\ Len(frames) > 1
        /\ frames' = [Tail(frames) EXCEPT ![1].at = frames[2].back[Top.at]]
        /\ UNCHANGED outcome
     \/ /\ Len(frames) = 1
        /\ frames' = <<>> /\ outcome' = Top.at
  /\ UNCHANGED <<called, held, closed>>

\* The program has exited, or crashed.
CallsDie ==
  /\ frames # <<>> /\ Top.at = "dead"
  /\ frames' = <<>> /\ outcome' = "dead"
  /\ UNCHANGED <<called, held, closed>>

CallsNext == CallsStep \/ CallsReturn \/ CallsDie

-----------------------------------------------------------------------------
\* The paths that are known to forget something: a bind or a fork that fails,
\* the route that was found, output that could not grow, a name that cannot
\* be read, a descriptor 0.
Forgotten ==
  [xunix_socket    |-> {{"socket"}},
   get_default_gw  |-> {{"output"}, {"reading end", "writing end"}},
   set_default_gw  |-> {{"reading end", "writing end"}, {"lost output"},
                        {"reading end", "writing end", "lost output"}},
   xspipe_cmd      |-> {{"reading end", "writing end"}, {"lost output"}},
   xscomb_cmd      |-> {{"reading end", "writing end"}, {"lost output"}},
   xsetif_hwaddr   |-> {{"reading end", "writing end"}, {"lost output"}},
   xdaemon         |-> {{"stream of the program"}},
   xtmpfile_remove |-> {{"file"}},
   xcmd_func       |-> {{"file"}},
   xrand_rc4_init  |-> {{"descriptor"}}]

\* A call that returns has released all it acquired except what it gives its
\* caller, whichever of its calls failed, and releases nothing twice; but for
\* the paths above (xnetif.c:22-437, xsocket.c:69-450, xfile.c:87-382,
\* xexccmd.c:91-338, os_unix.c:221-436 and the others).
NothingLeftBehind ==
  /\ closed = {}
  /\ outcome \in Endings =>
       LET given == IF outcome = "ok" THEN Gives(called) ELSE {}
           left  == held \ given
       IN /\ given \subseteq held
          /\ left # {} => called \in DOMAIN Forgotten /\ left \in Forgotten[called]
=============================================================================
