------------------------------ MODULE Startup ------------------------------
(***************************************************************************)
(* The life of a process: main, which decodes the address to listen on,    *)
(* and proxy_task around its loop.  What the loop does is in ProxyLoop;    *)
(* here it opens and closes connections, until it fails.                   *)
(*                                                                         *)
(* Left out: the failure to insert the listener into the pool, which is    *)
(* empty then.                                                             *)
(***************************************************************************)
EXTENDS AddrParse

CONSTANTS
  Input,  \* the texts on the command line
  Conn    \* the connections that one process opens

ASSUME InputAssumption == Input \subseteq Seq(Token)
ASSUME ConnAssumption == {"epoll", "listen"} \cap Conn = {}

Descriptor == {"epoll", "listen"} \cup Conn

VARIABLES
  input,     \* the last argument
  entrance,  \* the address and port that were decoded
  pc,        \* the step that comes next
  fds,       \* each descriptor is "unused", "open", "closed", or closed "twice"
  listed     \* those of the streams in the list

args == <<input, entrance>>
vars == <<args, pc, fds, listed>>

TypeOK ==
  /\ input \in Seq(Token)
  /\ entrance = Failed \/ entrance \in [addr : Seq(Token), port : 0 .. PortMax]
  /\ pc \in {"main", "decode", "daemon", "events", "socket", "reuse", "bind", "backlog", "loop",
             "drain", "close", "exit"}
  /\ fds \in [Descriptor -> {"unused", "open", "closed", "twice"}]
  /\ listed \subseteq Descriptor

Init ==
  /\ input \in Input /\ entrance = Failed
  /\ pc = "main"
  /\ fds = [d \in Descriptor |-> "unused"] /\ listed = {}

-----------------------------------------------------------------------------
Opened(d) == [fds EXCEPT ![d] = "open"]

(* close, of descriptors that were opened; -1 is closed by nobody. *)
Closed(D) == [d \in Descriptor |->
                IF d \notin D THEN fds[d]
                ELSE CASE fds[d] = "open" -> "closed" [] fds[d] = "unused" -> "unused" [] OTHER -> "twice"]

ExitWith(f) == pc' = "exit" /\ fds' = f

-----------------------------------------------------------------------------
(* main *)

(* There is an address among the arguments, or not. *)
CountArgs ==
  /\ pc = "main"
  /\ ExitWith(fds) \/ (pc' = "decode" /\ UNCHANGED fds)
  /\ UNCHANGED <<args, listed>>

(* The option -d is there, or not. *)
DecodeAddress ==
  /\ pc = "decode"
  /\ entrance' = Decode(input)
  /\ \/ entrance' = Failed /\ ExitWith(fds)
     \/ entrance' # Failed /\ pc' \in {"daemon", "events"} /\ UNCHANGED fds
  /\ UNCHANGED <<input, listed>>

(* The parent exits at once; what goes on is its child. *)
Daemon ==
  /\ pc = "daemon"
  /\ \/ ExitWith(fds)
     \/ pc' = "events" /\ UNCHANGED fds
  /\ UNCHANGED <<args, listed>>

-----------------------------------------------------------------------------
(* proxy_task *)

(* There may be no epoll. *)
EventsSetup ==
  /\ pc = "events" /\ pc' = "socket"
  /\ fds' \in {fds, Opened("epoll")}
  /\ UNCHANGED <<args, listed>>

OpenSocket ==
  /\ pc = "socket"
  /\ \/ pc' = "reuse" /\ fds' = Opened("listen")
     \/ ExitWith(Closed({"epoll"}))
  /\ UNCHANGED <<args, listed>>

(* A mistake: only the listen socket is closed. *)
PrepareLeaks(step, next) ==
  /\ pc = step
  /\ \/ pc' = next /\ listed' = (IF next = "loop" THEN {"listen"} ELSE {}) /\ UNCHANGED fds
     \/ ExitWith(Closed({"listen"})) /\ UNCHANGED listed
  /\ UNCHANGED args

(* setsockopt, bind, listen: on a failure, listen_socket closes the        *)
(* socket, and proxy_task the epoll descriptor.                            *)
Prepare(step, next) ==
  /\ pc = step
  /\ \/ pc' = next /\ listed' = (IF next = "loop" THEN {"listen"} ELSE {}) /\ UNCHANGED fds
     \/ ExitWith(Closed({"listen", "epoll"})) /\ UNCHANGED listed
  /\ UNCHANGED args

OpenStream(c) ==
  /\ pc = "loop" /\ fds[c] = "unused"
  /\ fds' = Opened(c) /\ listed' = listed \cup {c}
  /\ UNCHANGED <<args, pc>>

RemoveStream(c) ==
  /\ pc = "loop" /\ c \in listed
  /\ fds' = Closed({c}) /\ listed' = listed \ {c}
  /\ UNCHANGED <<args, pc>>

(* handle_streams_cycle returns an error. *)
LoopFails == pc = "loop" /\ pc' = "drain" /\ UNCHANGED <<args, fds, listed>>

(* A mistake: the stream stays in the list. *)
DrainUnlisted(d) ==
  /\ pc = "drain" /\ d \in listed
  /\ fds' = Closed({d})
  /\ UNCHANGED <<args, pc, listed>>

(* remove_all_streams *)
Drain(d) ==
  /\ pc = "drain" /\ d \in listed
  /\ fds' = Closed({d}) /\ listed' = listed \ {d}
  /\ UNCHANGED <<args, pc>>

Drained == pc = "drain" /\ listed = {} /\ pc' = "close" /\ UNCHANGED <<args, fds, listed>>

CloseEvents ==
  /\ pc = "close"
  /\ ExitWith(Closed({"epoll"}))
  /\ UNCHANGED <<args, listed>>

Over == pc = "exit" /\ UNCHANGED vars

Ends == LoopFails \/ (\E d \in Descriptor : Drain(d)) \/ Drained \/ CloseEvents

Starts ==
  \/ CountArgs \/ DecodeAddress \/ Daemon \/ EventsSetup \/ OpenSocket
  \/ Prepare("reuse", "bind") \/ Prepare("bind", "backlog") \/ Prepare("backlog", "loop")

Next ==
  \/ Starts \/ Ends
  \/ \E c \in Conn : OpenStream(c) \/ RemoveStream(c)
  \/ Over

Spec == Init /\ [][Next]_vars

(* The process goes on while it starts and, if its loop fails, to its end. *)
FairSpec == Spec /\ WF_vars(Starts) /\ WF_vars((\E d \in Descriptor : Drain(d)) \/ Drained \/ CloseEvents)

-----------------------------------------------------------------------------
(* Correctness *)

(* What the process listens on is what was written: its address is the one *)
(* that comes first, with a bracket on either side if it is of IPv6, then  *)
(* a colon and the port.  A port is never taken for a part of an address,  *)
(* nor a part of an address for the port.  Of a number that is no port,    *)
(* only the low bits count.  What is logged of an address reads as it.     *)
ListensAsAsked ==
  pc = "loop" => StartsWith(input, entrance) /\ Decode(Format(entrance)) = entrance

(* An address and a port that are written as they should be, in any of the *)
(* forms, are neither refused nor mistaken, even if the last part of the   *)
(* address could be a port.                                                *)
WrittenIsRead ==
  [][pc = "decode" =>
       \A a \in PartsOf(input), p \in 0 .. PortMax :
         Writes(input, a, p) => entrance' = [addr |-> a, port |-> p]]_vars

(* However far the process got, and whichever step failed, it has closed   *)
(* all that it opened when it exits, and nothing twice.                    *)
ClosedOnce ==
  /\ \A d \in Descriptor : fds[d] # "twice"
  /\ pc = "exit" => \A d \in Descriptor : fds[d] # "open"

(* The process comes to serve, or exits; and a loop that has failed is     *)
(* followed by the exit, with all of the streams removed.                  *)
ServesOrExits ==
  /\ <>(pc \in {"loop", "exit"})
  /\ pc = "drain" ~> pc = "exit" /\ listed = {}

-----------------------------------------------------------------------------
(* The inductive invariant *)

(* What is open at each step, and known to those who must close it: before *)
(* the loop the two local descriptors, in the loop also what is listed.    *)
Opens ==
  /\ \A d \in Descriptor : fds[d] # "twice"
  /\ pc \in {"main", "decode", "daemon", "events"} => fds["epoll"] = "unused"
  /\ pc \in {"main", "decode", "daemon", "events", "socket"} => fds["listen"] = "unused"
  /\ pc \in {"reuse", "bind", "backlog"} => fds["listen"] = "open"
  /\ pc \notin {"loop", "drain", "close", "exit"} => \A c \in Conn : fds[c] = "unused"
  /\ pc \in {"loop", "drain", "close"} => \A d \in Descriptor \ {"epoll"} : fds[d] = "open" <=> d \in listed
  /\ pc # "exit" => fds["epoll"] # "closed"
  /\ pc \in {"loop", "drain"} \/ listed = {}
  /\ "epoll" \notin listed
  /\ pc = "exit" => \A d \in Descriptor : fds[d] # "open"

(* From the decoding on, the address is the decoded one. *)
Decoded ==
  pc \notin {"main", "decode", "exit"} => entrance = Decode(input) /\ entrance # Failed

IInv == TypeOK /\ Opens /\ Decoded

=============================================================================
