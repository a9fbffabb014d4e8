----------------------------- MODULE DnsClient -----------------------------
(***************************************************************************)
(* nsaddr: a name is resolved by querying a root server, and then whatever *)
(* the answers point at: other servers, the names of other servers, and    *)
(* other names for the same host.  dns_recursive_query calls itself, and   *)
(* dns_resolve_root, which calls it; the calls share one query counter.    *)
(*                                                                         *)
(* The program's stack is a sequence of frames of dns_recursive_query.     *)
(* dns_resolve_root only picks a server and leaves no frame.  Which server *)
(* is asked is left out: it may answer anything.                           *)
(***************************************************************************)
EXTENDS Integers, Sequences

CONSTANTS
  Limit,      \* DNS_QUERY_LIMIT
  Datagrams,  \* how many datagrams are awaited for a query, 255
  Name, Addr,
  Circle,        \* a name in a record whose pointers lead in a circle
  Failed, None,  \* a call that has failed, and no return at all
  Message        \* what a datagram may hold

ASSUME LimitAssumption == Limit \in Nat /\ Datagrams \in Nat \ {0}
ASSUME ReturnAssumption == Failed \notin Addr /\ None \notin Addr /\ Failed # None

(* A record of a section, or what is left of one at the end of a packet,   *)
(* where dns_nearby_answer gives up.                                       *)
Record ==
  [type : {"A"}, data : Addr] \cup [type : {"NS", "CNAME"}, data : Name \cup {Circle}] \cup
  [type : {"OTHER", "CUT"}]

ASSUME MessageAssumption ==
  Message \subseteq [answer : Seq(Record), authority : Seq(Record), additional : Seq(Record)]

VARIABLES
  host,      \* the name to resolve
  stack,     \* the calls of dns_recursive_query, the last one is running
  ret,       \* what the last call that ended has returned to it
  querycnt,  \* the counter they share
  asked,     \* history: how many queries were sent,
  heard,     \*   and how many times a datagram was awaited
  given,     \* history: the addresses that were given for a name,
  aliases    \*   and the other names

told == <<host, given, aliases>>
vars == <<stack, ret, querycnt, asked, heard, told>>

Phase == {"start", "receive", "additional", "authority", "delegated", "answer"}
Blank == [answer |-> <<>>, authority |-> <<>>, additional |-> <<>>]

Frame == [name : Name, phase : Phase, pos : Nat, got : 0 .. Datagrams,
          msg : Message \cup {Blank}]

TypeOK ==
  /\ host \in Name
  /\ stack \in Seq(Frame)
  /\ ret \in Addr \cup {Failed, None}
  /\ querycnt \in Nat /\ asked \in Nat /\ heard \in Nat
  /\ given \subseteq Name \X Addr
  /\ aliases \subseteq Name \X Name

Called(n) == [name |-> n, phase |-> "start", pos |-> 0, got |-> 0, msg |-> Blank]

Init ==
  /\ host \in Name
  /\ stack = <<Called(host)>>
  /\ ret = None
  /\ querycnt = 0 /\ asked = 0 /\ heard = 0
  /\ given = {} /\ aliases = {}

-----------------------------------------------------------------------------
Running == stack # <<>>
Top == stack[Len(stack)]
Callers == SubSeq(stack, 1, Len(stack) - 1)

(* The running frame goes on as f, or calls for name n, or returns.        *)
Becomes(f) == stack' = Append(Callers, f)
Calls(f, n) == stack' = Append(Append(Callers, f), Called(n)) /\ ret' = None
Returns(v) == stack' = Callers /\ ret' = v

In(phase) == Running /\ Top.phase = phase

OverLimit ==
  /\ In("start") /\ querycnt >= Limit
  /\ Returns(Failed)
  /\ UNCHANGED <<querycnt, asked, heard, told>>

SendFails ==
  /\ In("start") /\ querycnt < Limit
  /\ querycnt' = querycnt + 1
  /\ Returns(Failed)
  /\ UNCHANGED <<asked, heard, told>>

SendQuery ==
  /\ In("start") /\ querycnt < Limit
  /\ querycnt' = querycnt + 1
  /\ asked' = asked + 1
  /\ Becomes([Top EXCEPT !.phase = "receive"])
  /\ UNCHANGED <<ret, heard, told>>

(* An error, or a timeout. *)
RecvFails ==
  /\ In("receive")
  /\ heard' = heard + 1
  /\ Returns(Failed)
  /\ UNCHANGED <<querycnt, asked, told>>

(* A datagram that does not match, and is not the last. *)
RecvOther ==
  /\ In("receive") /\ Top.got + 1 < Datagrams
  /\ heard' = heard + 1
  /\ Becomes([Top EXCEPT !.got = @ + 1])
  /\ UNCHANGED <<ret, querycnt, asked, told>>

-----------------------------------------------------------------------------
(* Sections *)

Has(section, type) == {i \in DOMAIN section : section[i].type = type}
Reaches(section, i) == \A j \in Has(section, "CUT") : i < j
FirstAddr(section) ==
  {i \in Has(section, "A") : Reaches(section, i) /\ \A j \in Has(section, "A") : i <= j}
IsCut(section) == Has(section, "CUT") # {}

(* What a message says of the name that was asked for. *)
Gives(m, n) == {<<n, m.answer[i].data>> : i \in Has(m.answer, "A")}
Aliases(m, n) == {n} \X (Name \cap {m.answer[i].data : i \in Has(m.answer, "CNAME")})

(* The message that is used: one that matches, or the last one.  An        *)
(* address is returned at once; else the sections are searched for others  *)
(* to ask, unless one that must be passed over is cut.                     *)
Use(m) ==
  IF FirstAddr(m.answer) # {} THEN \E i \in FirstAddr(m.answer) : Returns(m.answer[i].data)
  ELSE IF IsCut(m.answer) \/ IsCut(m.authority) THEN Returns(Failed)
  ELSE Becomes([Top EXCEPT !.phase = "additional", !.msg = m]) /\ ret' = Failed

RecvMessage(m) ==
  /\ In("receive")
  /\ heard' = heard + 1
  /\ given' = given \cup Gives(m, Top.name)
  /\ aliases' = aliases \cup Aliases(m, Top.name)
  /\ Use(m)
  /\ UNCHANGED <<host, querycnt, asked>>

-----------------------------------------------------------------------------
(* The search of the sections, one call at a time *)

Wanted(phase) ==
  CASE phase = "additional" -> "A"
    [] phase = "authority" -> "NS"
    [] phase = "answer" -> "CNAME"

Searching ==
  Running /\ ret = Failed /\ Top.phase \in {"additional", "authority", "answer"}

(* The next record of the section that is worth a call. *)
IsNext(i) ==
  LET section == Top.msg[Top.phase]
      rest == {j \in Has(section, Wanted(Top.phase)) : j > Top.pos /\ Reaches(section, j)}
  IN  i \in rest /\ \A j \in rest : i <= j

(* dns_decompress_name comes back with the name of record i, or with -1;   *)
(* an additional record has none to read.                                  *)
Readable(i) == Top.phase = "additional" \/ Top.msg[Top.phase][i].data \in Name

(* A mistake: every other name is resolved on a budget of its own. *)
TryRecordAfresh ==
  /\ Searching
  /\ \E i \in DOMAIN Top.msg[Top.phase] :
       /\ IsNext(i) /\ Readable(i)
       /\ Calls([Top EXCEPT !.pos = i],
                IF Top.phase = "additional" THEN Top.name ELSE Top.msg[Top.phase][i].data)
  /\ querycnt' = IF Top.phase = "additional" THEN querycnt ELSE 0
  /\ UNCHANGED <<asked, heard, told>>

(* Another server is asked for the name, or a root server for another name. *)
TryRecord ==
  /\ Searching
  /\ \E i \in DOMAIN Top.msg[Top.phase] :
       /\ IsNext(i) /\ Readable(i)
       /\ Calls([Top EXCEPT !.pos = i],
                IF Top.phase = "additional" THEN Top.name ELSE Top.msg[Top.phase][i].data)
  /\ UNCHANGED <<querycnt, asked, heard, told>>

(* A mistake: the section is searched from its start again. *)
BadNameRestarts ==
  /\ Searching /\ Top.phase # "additional"
  /\ \E i \in DOMAIN Top.msg[Top.phase] : IsNext(i) /\ Readable(i) /\ Becomes([Top EXCEPT !.pos = 0])
  /\ UNCHANGED <<ret, querycnt, asked, heard, told>>

(* dns_decompress_name has failed: there is no room for the name. *)
BadName ==
  /\ Searching /\ Top.phase # "additional"
  /\ \E i \in DOMAIN Top.msg[Top.phase] : IsNext(i) /\ Readable(i) /\ Becomes([Top EXCEPT !.pos = i])
  /\ UNCHANGED <<ret, querycnt, asked, heard, told>>

(* The name of the next record leads in a circle.  Nothing counts the      *)
(* pointers, and dns_decompress_name never returns.                        *)
Circling == Searching /\ \E i \in DOMAIN Top.msg[Top.phase] : IsNext(i) /\ ~ Readable(i)
FollowCircle == Circling /\ UNCHANGED vars

(* Nothing is left in the section. *)
NextSection ==
  /\ Searching
  /\ \A i \in DOMAIN Top.msg[Top.phase] : ~ IsNext(i)
  /\ \/ /\ Top.phase # "answer"
        /\ Becomes([Top EXCEPT !.pos = 0,
                    !.phase = IF @ = "additional" THEN "authority" ELSE "answer"])
        /\ UNCHANGED ret
     \/ Top.phase = "answer" /\ Returns(Failed)
  /\ UNCHANGED <<querycnt, asked, heard, told>>

(* A mistake: its address is taken for the address of the host. *)
AskServerReturns ==
  /\ In("authority") /\ ret \in Addr
  /\ Returns(ret)
  /\ UNCHANGED <<querycnt, asked, heard, told>>

(* The server that NS names has an address, and is asked. *)
AskServer ==
  /\ In("authority") /\ ret \in Addr
  /\ Calls([Top EXCEPT !.phase = "delegated"], Top.name)
  /\ UNCHANGED <<querycnt, asked, heard, told>>

DelegationFails ==
  /\ In("delegated") /\ ret = Failed
  /\ Becomes([Top EXCEPT !.phase = "authority"])
  /\ UNCHANGED <<ret, querycnt, asked, heard, told>>

(* The address that a call has found is the caller's answer. *)
Found ==
  /\ Running /\ ret \in Addr
  /\ Top.phase \in {"additional", "delegated", "answer"}
  /\ Returns(ret)
  /\ UNCHANGED <<querycnt, asked, heard, told>>

Over == ~ Running /\ UNCHANGED vars

Next ==
  \/ OverLimit \/ SendFails \/ SendQuery
  \/ RecvFails \/ RecvOther \/ \E m \in Message : RecvMessage(m)
  \/ TryRecord \/ BadName \/ FollowCircle \/ NextSection
  \/ AskServer \/ DelegationFails \/ Found
  \/ Over

Spec == Init /\ [][Next]_vars
FairSpec == Spec /\ WF_vars(Next)

-----------------------------------------------------------------------------
(* Correctness *)

(* However the answers send the client about, the queries of one           *)
(* resolution stay within the limit, the calls that are open do not exceed *)
(* it, each with a buffer of 64 KB, and nor does the time that is spent    *)
(* waiting for datagrams, in units of the receive timeout.                 *)
Bounded ==
  /\ asked <= Limit
  /\ Len(stack) <= Limit + 1
  /\ heard <= Limit * Datagrams

(* The addresses that were given for a name, or for an alias of it.        *)
Means(n, a) ==
  \A S \in SUBSET (Name \X Addr) :
    /\ given \subseteq S
    /\ \A x \in aliases : \A b \in Addr : <<x[2], b>> \in S => <<x[1], b>> \in S
    => <<n, a>> \in S

(* What the first call returns is an address of the host: an address that  *)
(* was looked up on the way, of a server, is never taken for it.           *)
RightAddress == ~ Running /\ ret \in Addr => Means(host, ret)

(* Whatever the servers answer, the resolution comes to an end, unless it  *)
(* has to read a name that leads in a circle.  Then it stays there, and    *)
(* the whole proxy with it.                                                *)
Ends == <>(~ Running \/ Circling)

-----------------------------------------------------------------------------
(* The inductive invariant *)

Within ==
  /\ asked <= querycnt /\ querycnt <= Limit
  /\ Len(stack) <= querycnt + (IF In("start") THEN 1 ELSE 0)
  /\ heard <= asked * Datagrams - (IF In("receive") THEN Datagrams - Top.got ELSE 0)

(* The frames that wait for a call, and what was called for each. *)
Linked ==
  /\ Running => stack[1].name = host
  /\ \A i \in 1 .. Len(stack) : stack[i].phase \in {"start", "receive"} <=> i = Len(stack) /\ ret = None
  /\ \A i \in 1 .. Len(stack) :
       /\ stack[i].phase = "start" => stack[i].got = 0
       /\ stack[i].phase = "receive" => stack[i].got < Datagrams
       /\ Aliases(stack[i].msg, stack[i].name) \subseteq aliases
  /\ \A i \in 1 .. Len(stack) - 1 :
       /\ stack[i].phase \in {"additional", "delegated"} => stack[i + 1].name = stack[i].name
       /\ stack[i].phase = "answer" => <<stack[i].name, stack[i + 1].name>> \in aliases

(* What was returned is for the name that the frame asked about.           *)
ReturnFits ==
  /\ Running /\ ret \in Addr /\ Top.phase # "authority" => Means(Top.name, ret)
  /\ ~ Running => ret # None

IInv == TypeOK /\ Within /\ Linked /\ ReturnFits /\ RightAddress

=============================================================================
