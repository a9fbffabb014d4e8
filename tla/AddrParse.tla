----------------------------- MODULE AddrParse -----------------------------
(***************************************************************************)
(* ip_port_decode: the address and port to listen on, from the command     *)
(* line.  A text is a sequence of colons, brackets, numbers and addresses  *)
(* in dotted decimal.  An address is known by the text that inet_pton      *)
(* takes for it.  The widths of integers are scaled down.  Startup decodes *)
(* a text, and states what must be true of the result.                     *)
(*                                                                         *)
(* Left out: texts too long for the buffer, which no address is.           *)
(***************************************************************************)
EXTENDS Integers, Sequences, SequencesExt

CONSTANTS
  Colon, Left, Right, Quad,  \* the tokens besides numbers
  Group,    \* the numbers that a part of an IPv6 address may be
  Groups,   \* how many parts it has, 8
  IntMax,   \* the largest int
  PortMax   \* and the largest port

ASSUME WidthAssumption ==
  PortMax \in Nat /\ IntMax \in Nat /\ PortMax <= IntMax /\ Groups \in Nat /\ Groups > 2
ASSUME TokenAssumption ==
  /\ {Colon, Left, Right, Quad} \cap Int = {} /\ Group \subseteq Int
  /\ Colon # Left /\ Colon # Right /\ Colon # Quad
  /\ Left # Right /\ Left # Quad /\ Right # Quad

Token == {Colon, Left, Right, Quad} \cup Int

(* No address is empty. *)
Failed == [addr |-> <<>>, port |-> 0]

-----------------------------------------------------------------------------
(* inet_pton *)

IsIPv4(text) == text = <<Quad>>

(* One gap of two colons, or all of the groups. *)
IsIPv6(text) ==
  LET colon == {i \in DOMAIN text : text[i] = Colon}
      quad == {i \in DOMAIN text : text[i] = Quad}
      gap == {i \in colon : i + 1 \in colon}
      width == Len(text) - Cardinality(colon) + Cardinality(quad)
  IN  /\ \A i \in DOMAIN text : text[i] \in Group \cup {Colon, Quad}
      /\ quad \subseteq {Len(text)}
      /\ \A i \in 1 .. Len(text) - 1 : i \in colon \/ i + 1 \in colon
      /\ 1 \in colon => 1 \in gap
      /\ Len(text) \in colon => Len(text) - 1 \in gap
      /\ \/ gap = {} /\ width = Groups
         \/ Cardinality(gap) = 1 /\ width < Groups

(* sscanf with %u, of a number that is stored in an int. *)
AsInt(n) ==
  LET u == n % (2 * (IntMax + 1)) IN IF u > IntMax THEN u - 2 * (IntMax + 1) ELSE u

IsNumber(token) == token \notin {Colon, Left, Right, Quad}

-----------------------------------------------------------------------------
(* ip_port_decode *)

Colons(text) == {i \in DOMAIN text : text[i] = Colon}
FirstColon(text) == Min(Colons(text))
LastColon(text) == Max(Colons(text))

(* A bracket on either side is passed over. *)
Strip(text) ==
  LET from == IF text # <<>> /\ Head(text) = Left THEN 2 ELSE 1
      to == IF from <= Len(text) /\ Last(text) = Right THEN Len(text) - 1 ELSE Len(text)
  IN  SubSeq(text, from, to)

(* A mistake: brackets are passed over in any address. *)
DecodeStripped(text) ==
  IF Colons(text) = {} THEN Failed
  ELSE LET address == Strip(SubSeq(text, 1, LastColon(text) - 1))
           rest == SubSeq(text, LastColon(text) + 1, Len(text))
       IN  IF (IsIPv4(address) \/ IsIPv6(address)) /\ rest # <<>> /\ IsNumber(rest[1]) /\ AsInt(rest[1]) <= PortMax
           THEN [addr |-> address, port |-> AsInt(rest[1]) % (PortMax + 1)]
           ELSE Failed

Decode(text) ==
  IF Colons(text) = {} THEN Failed
  ELSE LET v4 == FirstColon(text) = LastColon(text)
           before == SubSeq(text, 1, LastColon(text) - 1)
           rest == SubSeq(text, LastColon(text) + 1, Len(text))
           address == IF v4 THEN before ELSE Strip(before)
       IN  IF /\ IF v4 THEN IsIPv4(address) ELSE IsIPv6(address)
              /\ rest # <<>> /\ IsNumber(rest[1]) /\ AsInt(rest[1]) <= PortMax
           THEN [addr |-> address, port |-> AsInt(rest[1]) % (PortMax + 1)]
           ELSE Failed

-----------------------------------------------------------------------------
(* format_ip_port *)
Format(r) ==
  (IF IsIPv4(r.addr) THEN r.addr ELSE <<Left>> \o r.addr \o <<Right>>) \o <<Colon, r.port>>

-----------------------------------------------------------------------------
(* What a text is to stand for *)

(* Texts of an address, in brackets or not if it is of IPv6, and a port.   *)
(* Where an address goes on and a port starts, the last colon decides.     *)
Writes(text, address, port) ==
  \/ IsIPv4(address) /\ text = address \o <<Colon, port>>
  \/ IsIPv6(address) /\ text \in {address \o <<Colon, port>>, <<Left>> \o address \o <<Right, Colon, port>>}

(* What an address in the text may be. *)
PartsOf(text) == {SubSeq(text, i, j) : i \in 1 .. 2, j \in 0 .. Len(text)}

(* The text starts with the address, but for a bracket if it is one of     *)
(* IPv6, and goes on with a colon and a number, which is the port if it    *)
(* may be one.                                                             *)
StartsWith(text, r) ==
  \E i \in 1 .. 2, j \in 1 .. Len(text) - 2 :
    /\ r.addr = SubSeq(text, i, j)
    /\ i = 2 => text[1] = Left /\ IsIPv6(r.addr)
    /\ \E k \in {j + 1, j + 2} :
         /\ k = j + 2 => text[j + 1] = Right /\ IsIPv6(r.addr)
         /\ text[k] = Colon /\ k < Len(text) /\ IsNumber(text[k + 1])
         /\ text[k + 1] \in 0 .. PortMax => r.port = text[k + 1]

=============================================================================
