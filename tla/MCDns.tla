------------------------------- MODULE MCDns --------------------------------
(***************************************************************************)
(* The parts of dns.c for TLC: a resolution, with messages of records; the *)
(* records and names of one packet; the encoding of one hostname.  They    *)
(* share no state, and in each behaviour one of them is at work, and the   *)
(* others are done with an input of their own.                             *)
(***************************************************************************)
EXTENDS DnsClient, SequencesExt

CONSTANTS
  n1, n2, a1, a2,                     \* names and addresses
  Packet, Start, Records, OutSize,    \* see DnsNames
  Char, Dot, MaxHost, LabelMax        \* see DnsEncode

ASSUME NamesAssumption ==
  Packet \subseteq Seq(0 .. 255) /\ Start \in Nat /\ Records \in Nat \ {0} /\ OutSize \in Nat
ASSUME EncodeAssumption == MaxHost \in Nat /\ LabelMax \in Nat

VARIABLES
  packet, left, pc, ptr, answer, ipos, out,  \* of DnsNames
  hostname, in, encoded, state               \* of DnsEncode

N == INSTANCE DnsNames
E == INSTANCE DnsEncode WITH host <- hostname, out <- encoded, pc <- state

names == <<packet, left, pc, ptr, answer, ipos, out>>
encode == <<hostname, in, encoded, state>>
all == <<vars, names, encode>>

-----------------------------------------------------------------------------
(* The messages that servers send. *)

A(a) == [type |-> "A", data |-> a]
NS(n) == [type |-> "NS", data |-> n]
CNAME(n) == [type |-> "CNAME", data |-> n]
Cut == [type |-> "CUT"]
Other == [type |-> "OTHER"]

(* An address, one behind an alias, aliases alone, a section that is cut;  *)
(* two servers that are named; two that are given by their addresses.      *)
Plain ==
  [answer : {<<>>, <<A(a1)>>, <<CNAME(n2), A(a2)>>, <<CNAME(n1), Other, CNAME(n2)>>, <<CNAME(n2), Cut>>},
   authority : {<<>>, <<NS(n1), Other, NS(n2)>>, <<Cut>>},
   additional : {<<>>, <<A(a1), A(a2), Cut>>}]

(* A server, and an alias, with a name that leads in a circle. *)
Turning ==
  {[answer |-> <<>>, authority |-> <<NS(n1), NS(Circle)>>, additional |-> <<A(a1)>>],
   [answer |-> <<CNAME(Circle), CNAME(n2)>>, authority |-> <<NS(n2)>>, additional |-> <<>>]}

Messages == Plain \cup Turning

-----------------------------------------------------------------------------
(* Packets with a question and two records. *)

(* The question, a.b, whose name starts at position 0. *)
Question == <<1, 97, 1, 98, 0>>

(* Nothing, a pointer to each part of the question, labels and labels with *)
(* a pointer, a pointer to the data of the first record, after an owner's  *)
(* name of two bytes.                                                      *)
Written == {<<0>>, <<192, 0>>, <<192, 2>>, <<1, 99, 0>>, <<1, 99, 192, 0>>,
            <<2, 99, 100, 192, 2>>, <<192, 17>>}

RecordOf(owner, data) ==
  owner \o <<0, 5, 0, 1, 0, 0, 0, 0, Len(data) \div 256, Len(data) % 256>> \o data

RecordsOf == {RecordOf(n, d) : n \in Written, d \in Written}

(* Data of two records that lead to themselves, at 17 and at 31, to each   *)
(* other, or to a label before the pointer.                                *)
Turned == {RecordOf(<<192, 0>>, d) : d \in Written \cup {<<192, 31>>, <<1, 99, 192, 17>>}}

WholePackets == {Question \o t[1] \o t[2] : t \in (RecordsOf \X RecordsOf) \cup (Turned \X Turned)}
Cuts(p) == {SubSeq(p, 1, n) : n \in 12 .. Len(p) - 1}
CutPackets == UNION {Cuts(Question \o r \o RecordOf(<<192, 0>>, <<0>>)) : r \in RecordsOf}

(* A name at position 1027, and one that ends in a pointer to it. *)
Far ==
  <<1, 97, 0, 0, 0>> \o RecordOf(<<0>>, [i \in 1 .. 1011 |-> 0]) \o
  RecordOf(<<1, 98, 0>>, <<1, 99, 192 + 4, 3>>)

Packets == WholePackets \cup CutPackets \cup {Far}

-----------------------------------------------------------------------------
(* Each part when it is done: a query that could not be sent, a packet     *)
(* that ends before its first record does, and the empty hostname.         *)
ClientDone ==
  /\ host = n1 /\ stack = <<>> /\ ret = Failed
  /\ querycnt = 1 /\ asked = 0 /\ heard = 0 /\ given = {} /\ aliases = {}

NamesDone ==
  /\ packet = SubSeq(Question \o RecordOf(<<0>>, <<0>>), 1, 12)
  /\ left = Records /\ pc = "cut" /\ ptr = Start /\ answer = 0 /\ ipos = 0 /\ out = <<>>

EncodeDone == hostname = <<>> /\ in = <<>> /\ encoded = <<0>> /\ state = "done"

AllInit ==
  \/ Init /\ NamesDone /\ EncodeDone
  \/ ClientDone /\ N!Init /\ EncodeDone
  \/ ClientDone /\ NamesDone /\ E!Init

AllNext ==
  \/ Next /\ UNCHANGED <<names, encode>>
  \/ N!Next /\ UNCHANGED <<vars, encode>>
  \/ E!Next /\ UNCHANGED <<vars, names>>

AllSpec == AllInit /\ [][AllNext]_all /\ WF_vars(Next) /\ WF_names(N!Next)

-----------------------------------------------------------------------------
(* Correctness of the parts *)

(* The records of a section are found where they are, and their names are  *)
(* read as what they stand for, through pointers, within the buffer.       *)
PacketsRead == N!TypeOK /\ N!RecordsFound /\ N!NamesRead

(* The names of a section are read to the end, unless they lead to a       *)
(* circle of pointers.                                                     *)
NamesEnd == N!NamesEnd

(* A hostname is written as its labels, within the buffer, and only        *)
(* refused if it has to be; and the length that the query is built with is *)
(* that of the encoded name, unless it is empty or ends with a dot.        *)
HostsEncoded == E!TypeOK /\ E!Encoded /\ E!LengthAgrees

=============================================================================
