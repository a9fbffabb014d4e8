------------------------------ MODULE DnsNames ------------------------------
(***************************************************************************)
(* The records of a section and the names that they hold, as               *)
(* dns_nearby_answer and dns_decompress_name read them, a byte at a time.  *)
(* Positions count from 0, as in the code.                                 *)
(*                                                                         *)
(* Left out: the types of records.  Every record is read as one that holds *)
(* a name.  What follows a packet in the buffer is never looked at here;   *)
(* where the code looks at one byte of it, its value makes no difference.  *)
(***************************************************************************)
EXTENDS Integers, Sequences

CONSTANTS
  Packet,   \* packets, sequences of bytes
  Start,    \* where the section starts,
  Records,  \* and how many records the header announces
  OutSize   \* DNS_NAME_SIZE_MAX

Byte == 0 .. 255
StructSize == 10  \* of dns_answer_t

VARIABLES
  packet,
  left,    \* the records that are still to be read
  pc,      \* at an owner's name, at a name in a record, or done with either
  ptr,     \* *pptr
  answer,  \* the structure that was found
  ipos, out

vars == <<packet, left, pc, ptr, answer, ipos, out>>

TypeOK ==
  /\ packet \in Packet /\ left \in 0 .. Records
  /\ pc \in {"owner", "name", "read", "unread", "cut", "end"}
  /\ ptr \in Nat /\ answer \in Nat /\ ipos \in Nat
  /\ out \in Seq(Byte) /\ Len(out) <= OutSize

Size == Len(packet)
At(p) == packet[p + 1]
Word(p) == 256 * At(p) + At(p + 1)

Init ==
  /\ packet \in Packet
  /\ left = Records
  /\ pc = "owner" /\ ptr = Start
  /\ answer = 0 /\ ipos = 0 /\ out = <<>>

-----------------------------------------------------------------------------
(* dns_nearby_answer *)

OwnerByte ==
  /\ pc = "owner" /\ ptr < Size
  /\ At(ptr) \in 1 .. 191
  /\ ptr' = ptr + 1
  /\ UNCHANGED <<packet, left, pc, answer, ipos, out>>

(* Where the structure starts, after a pointer or a terminator. *)
IsStruct(s) == ptr < Size /\ At(ptr) \notin 1 .. 191 /\ s = IF At(ptr) = 0 THEN ptr + 1 ELSE ptr + 2
End(s) == s + StructSize + Word(s + StructSize - 2)
Fits(s) == s + StructSize <= Size /\ End(s) <= Size

FindAnswer(s) ==
  /\ pc = "owner" /\ IsStruct(s) /\ Fits(s)
  /\ answer' = s /\ ptr' = End(s)
  /\ pc' = "name" /\ ipos' = s + StructSize /\ out' = <<>>
  /\ UNCHANGED <<packet, left>>

NoAnswer ==
  /\ pc = "owner"
  /\ ptr < Size => \E s \in ptr .. ptr + 2 : IsStruct(s) /\ ~ Fits(s)
  /\ pc' = "cut"
  /\ UNCHANGED <<packet, left, ptr, answer, ipos, out>>

-----------------------------------------------------------------------------
(* dns_decompress_name *)

Inside == ipos + 1 < Size /\ At(ipos) # 0
InName == pc = "name" /\ Inside
AtEnd == pc = "name" /\ ~ Inside

CopyByte ==
  /\ InName /\ At(ipos) < 192 /\ Len(out) < OutSize
  /\ out' = Append(out, At(ipos)) /\ ipos' = ipos + 1
  /\ UNCHANGED <<packet, left, pc, ptr, answer>>

(* A mistake: the name goes on behind the pointer. *)
PassOverPointer ==
  /\ InName /\ At(ipos) >= 192
  /\ ipos' = ipos + 2
  /\ UNCHANGED <<packet, left, pc, ptr, answer, out>>

(* A mistake: pointers are counted from the start of the section. *)
FollowFromSection ==
  /\ InName /\ At(ipos) >= 192
  /\ ipos' = Start + (Word(ipos) % 1024)
  /\ UNCHANGED <<packet, left, pc, ptr, answer, out>>

(* The mask is 0x3FF. *)
FollowPointer ==
  /\ InName /\ At(ipos) >= 192
  /\ ipos' = Word(ipos) % 1024
  /\ UNCHANGED <<packet, left, pc, ptr, answer, out>>

NameEnds ==
  /\ AtEnd /\ Len(out) < OutSize
  /\ out' = Append(out, 0) /\ pc' = "read"
  /\ UNCHANGED <<packet, left, ptr, answer, ipos>>

NameTooLong ==
  /\ AtEnd \/ (InName /\ At(ipos) < 192)
  /\ Len(out) = OutSize
  /\ pc' = "unread"
  /\ UNCHANGED <<packet, left, ptr, answer, ipos, out>>

-----------------------------------------------------------------------------
NextRecord ==
  /\ pc \in {"read", "unread"}
  /\ left' = left - 1
  /\ pc' = IF left = 1 THEN "end" ELSE "owner"
  /\ UNCHANGED <<packet, ptr, answer, ipos, out>>

Over == pc \in {"cut", "end"} /\ UNCHANGED vars

Next ==
  \/ OwnerByte \/ (\E s \in ptr .. ptr + 2 : FindAnswer(s)) \/ NoAnswer
  \/ CopyByte \/ FollowPointer \/ NameEnds \/ NameTooLong
  \/ NextRecord \/ Over

Spec == Init /\ [][Next]_vars
FairSpec == Spec /\ WF_vars(Next)

-----------------------------------------------------------------------------
(* The format of names and records (RFC 1035, 4.1), of hostnames in ASCII, *)
(* in a packet b.                                                          *)

IsLabel(b, p) ==
  /\ b[p + 1] \in 1 .. 63 /\ p + b[p + 1] < Len(b)
  /\ \A i \in p + 1 .. p + b[p + 1] : b[i + 1] \in 1 .. 127

Number(b, p) == 256 * b[p + 1] + b[p + 2]
Pointer(b, p) == Number(b, p) - 192 * 256

(* The bytes of the name at p, none if it is not a name, or one of more    *)
(* than n labels and pointers.  A pointer is to be below the start of the  *)
(* labels that it ends.                                                    *)
Expansion(b) ==
  LET f[n \in Nat] ==
        [p \in Nat |-> [below \in Nat |->
           IF p >= Len(b) THEN <<>>
           ELSE IF b[p + 1] = 0 THEN <<0>>
           ELSE IF n = 0 THEN <<>>
           ELSE IF b[p + 1] >= 192
             THEN IF p + 1 < Len(b) /\ Pointer(b, p) < below
                    THEN f[n - 1][Pointer(b, p)][Pointer(b, p)] ELSE <<>>
           ELSE IF IsLabel(b, p) /\ f[n - 1][p + 1 + b[p + 1]][below] # <<>>
             THEN SubSeq(b, p + 1, p + 1 + b[p + 1]) \o f[n - 1][p + 1 + b[p + 1]][below]
           ELSE <<>>]]
  IN  f

(* No position is met twice. *)
NameAt(b, p) == Expansion(b)[Len(b)][p][p]

(* Where at most n labels from p on come to an end, with the name or the   *)
(* packet.                                                                 *)
LabelsEnd(b) ==
  LET f[n \in Nat] ==
        [p \in Nat |->
           IF p >= Len(b) THEN Len(b)
           ELSE IF b[p + 1] \notin 1 .. 191 THEN p
           ELSE IF n = 0 THEN Len(b)
           ELSE f[n - 1][p + 1 + b[p + 1]]]
  IN  f

OwnerEnd(b, p) == LabelsEnd(b)[Len(b)][p]

(* Where the name at p is over, if it is there as a whole. *)
Behind(b, p) ==
  LET e == OwnerEnd(b, p) IN IF e = Len(b) THEN e + 1 ELSE IF b[e + 1] = 0 THEN e + 1 ELSE e + 2

RecordEnd(b, s) == s + StructSize + Number(b, s + StructSize - 2)
IsWhole(b, s) == s + StructSize <= Len(b) /\ RecordEnd(b, s) <= Len(b)

(* Where record k starts, counted from 0, if those before it are whole. *)
Section(b) ==
  LET f[k \in Nat] ==
        IF k = 0 THEN Start
        ELSE IF IsWhole(b, Behind(b, f[k - 1])) THEN RecordEnd(b, Behind(b, f[k - 1])) ELSE Len(b)
  IN  f

StructOf(b, k) == Behind(b, Section(b)[k])

(* The labels of the names that own the first k records are in ASCII. *)
InAscii(b, k) ==
  \A j \in 0 .. k - 1 : \A i \in Section(b)[j] .. OwnerEnd(b, Section(b)[j]) - 1 : b[i + 1] \in 1 .. 127

-----------------------------------------------------------------------------
(* Correctness *)

Before == Records - left

(* dns_nearby_answer, which only looks for a terminator or a pointer,      *)
(* finds each record of a section where it is, and where the next one      *)
(* starts, and gives up at the first that is not whole and at no other.    *)
(* This is said of owners whose labels are in ASCII.                       *)
RecordsFound ==
  InAscii(packet, Before + 1) =>
    /\ pc \in {"name", "read", "unread"} =>
         answer = StructOf(packet, Before) /\ ptr = Section(packet)[Before + 1]
    /\ pc = "cut" => ~ IsWhole(packet, StructOf(packet, Before))

(* A name is read as what it stands for, through its pointers, and is only *)
(* refused if there is no room for it.  This is said of packets that need  *)
(* no pointer of more than the 10 bits that are kept.                      *)
NamesRead ==
  LET name == NameAt(packet, answer + StructSize)
  IN  Size <= 1024 =>
        /\ pc = "read" /\ name # <<>> => out = name
        /\ pc = "unread" /\ name # <<>> => Len(name) > OutSize

(* Where n pointers lead, one after the other, from where the code reads.  *)
Jump == LET f[n \in Nat] == IF n = 0 THEN ipos ELSE Word(f[n - 1]) % 1024 IN f
HoldsPointer(p) == p + 1 < Size /\ At(p) >= 192

(* More pointers in a row than there are bytes: one of them is met again.  *)
InCircle == pc = "name" /\ \A n \in 0 .. Size : HoldsPointer(Jump[n])

(* The names of a section are read to the end, except those that lead to a *)
(* circle of pointers alone.  Pointers to pointers come to an end, and so  *)
(* does a circle with a label in it, when the buffer is full; and no name  *)
(* that keeps to the format leads in a circle.                             *)
NamesEnd ==
  /\ pc = "name" ~> (pc \in {"read", "unread"} \/ InCircle)
  /\ (pc = "name" /\ NameAt(packet, answer + StructSize) # <<>>) ~> (pc \in {"read", "unread"})

-----------------------------------------------------------------------------
(* The inductive invariant *)

(* From the start of the record, the bytes of its owner's name are passed. *)
Passing ==
  pc = "owner" /\ InAscii(packet, Before) =>
    LET start == Section(packet)[Before]
    IN  start <= ptr /\ \A i \in start .. ptr - 1 : i < Size /\ At(i) \in 1 .. 191

(* Of a name, what was copied comes first, then the bytes up to the end of *)
(* the label where ipos is, and then what the rest stands for.             *)
Reading ==
  LET name == NameAt(packet, answer + StructSize)
  IN  pc = "name" /\ Size <= 1024 /\ name # <<>> =>
        \E d \in 0 .. Size, n \in 0 .. Size, below \in 0 .. Size :
          LET rest == Expansion(packet)[n][ipos + d][below]
          IN  /\ \A i \in ipos .. ipos + d - 1 : i < Size /\ At(i) \in 1 .. 127
              /\ rest # <<>>
              /\ name = out \o SubSeq(packet, ipos + 1, ipos + d) \o rest

IInv ==
  /\ TypeOK /\ (pc # "end" => left > 0)
  /\ Passing /\ Reading
  /\ RecordsFound /\ NamesRead

=============================================================================
