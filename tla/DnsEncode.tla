----------------------------- MODULE DnsEncode -----------------------------
(***************************************************************************)
(* dns_encode_hostname: a hostname is cut into labels, a label at a time,  *)
(* each of which is written after its length.                              *)
(***************************************************************************)
EXTENDS Integers, Sequences, SequencesExt

CONSTANTS
  Char, Dot,  \* the characters of hostnames
  MaxHost,    \* bound of the length of a hostname
  LabelMax,   \* 255
  OutSize     \* DNS_NAME_SIZE_MAX

Hostname == SeqOf(Char \cup {Dot}, MaxHost)

VARIABLES
  host,  \* the hostname
  in,    \* what is left of it
  out,   \* what was written
  pc     \* "loop", "done", or "failed"

vars == <<host, in, out, pc>>

TypeOK ==
  /\ host \in Hostname
  /\ in \in {SubSeq(host, i, Len(host)) : i \in 1 .. Len(host) + 1}
  /\ out \in Seq(Char \cup Nat) /\ Len(out) <= OutSize
  /\ pc \in {"loop", "done", "failed"}

Init ==
  /\ host \in Hostname
  /\ in = host /\ out = <<>> /\ pc = "loop"

-----------------------------------------------------------------------------
(* The length of the first label. *)
IsLength(n) ==
  /\ \A i \in 1 .. n : in[i] # Dot
  /\ n < Len(in) => in[n + 1] = Dot

InLoop == pc = "loop" /\ Len(out) < OutSize

(* What is left after it, and after its dot. *)
Rest(n) == SubSeq(in, IF n < Len(in) THEN n + 2 ELSE n + 1, Len(in))

Terminate ==
  /\ InLoop /\ in = <<>>
  /\ out' = Append(out, 0) /\ pc' = "done"
  /\ UNCHANGED <<host, in>>

(* A mistake: a label may be empty. *)
CopyAnyLabel(n) ==
  /\ InLoop /\ in # <<>> /\ IsLength(n)
  /\ n <= LabelMax /\ Len(out) + n + 1 <= OutSize
  /\ out' = out \o <<n>> \o SubSeq(in, 1, n)
  /\ in' = Rest(n)
  /\ UNCHANGED <<host, pc>>

CopyLabel(n) ==
  /\ InLoop /\ in # <<>> /\ IsLength(n)
  /\ n > 0 /\ n <= LabelMax /\ Len(out) + n + 1 <= OutSize
  /\ out' = out \o <<n>> \o SubSeq(in, 1, n)
  /\ in' = Rest(n)
  /\ UNCHANGED <<host, pc>>

Refuse ==
  /\ pc = "loop"
  /\ Len(out) < OutSize =>
       /\ in # <<>>
       /\ \E n \in 0 .. Len(in) :
            IsLength(n) /\ (n = 0 \/ n > LabelMax \/ Len(out) + n + 1 > OutSize)
  /\ pc' = "failed"
  /\ UNCHANGED <<host, in, out>>

Over == pc # "loop" /\ UNCHANGED vars

Next == Terminate \/ (\E n \in 0 .. Len(in) : CopyLabel(n)) \/ Refuse \/ Over

Spec == Init /\ [][Next]_vars

-----------------------------------------------------------------------------
(* nsaddr: what it passes as the length of the encoded name. *)
EncLen == Len(host) + 2

-----------------------------------------------------------------------------
(* The format of names (RFC 1035, 3.1) *)

(* A label starts at the start of the hostname and behind each dot but a   *)
(* last one, and ends before a dot or with the hostname.                   *)
Starts == {i \in 1 .. Len(host) : i = 1 \/ host[i - 1] = Dot}
Length(i) ==
  CHOOSE n \in 0 .. Len(host) :
    /\ \A k \in i .. i + n - 1 : k <= Len(host) /\ host[k] # Dot
    /\ i + n <= Len(host) => host[i + n] = Dot

IsName == \A i \in Starts : Length(i) \in 1 .. LabelMax

(* Each dot gives way to the length of the label behind it, the first one  *)
(* has its length in front, and a zero comes last, in place of a last dot. *)
WireLen == Len(host) + (IF host = <<>> \/ host[Len(host)] = Dot THEN 1 ELSE 2)
Wire ==
  [j \in 1 .. WireLen |->
     IF j \in Starts THEN Length(j) ELSE IF j = WireLen THEN 0 ELSE host[j - 1]]

-----------------------------------------------------------------------------
(* Correctness *)

(* What is written stands for the labels of the hostname; a hostname is    *)
(* refused only if a label is empty or too long, or there is no room.      *)
Encoded ==
  /\ pc = "done" => IsName /\ out = Wire
  /\ pc = "failed" => ~ IsName \/ WireLen > OutSize

(* The length that the query is built with, which nsaddr computes from the *)
(* hostname, is that of the encoded name, unless the hostname is empty or  *)
(* ends with a dot.                                                        *)
LengthAgrees ==
  pc = "done" /\ host # <<>> /\ host[Len(host)] # Dot => EncLen = Len(out)

-----------------------------------------------------------------------------
(* The inductive invariant *)

(* What was written is the start of what stands for the hostname; as many  *)
(* characters of the hostname are behind, up to the start of a label; and  *)
(* the labels behind are good ones.                                        *)
Written ==
  LET p == Len(out)
  IN  pc = "loop" =>
        /\ in = SubSeq(host, p + 1, Len(host))
        /\ IF p < Len(host) THEN p + 1 \in Starts ELSE p = WireLen - 1
        /\ \A j \in 1 .. p : out[j] = Wire[j]
        /\ \A i \in Starts : i <= p => Length(i) \in 1 .. LabelMax

IInv == TypeOK /\ Written /\ Encoded

=============================================================================
