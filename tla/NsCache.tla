------------------------------ MODULE NsCache ------------------------------
(***************************************************************************)
(* nsaddr_cached: the name server cache, a table of records that is        *)
(* scanned from its start.  The time is read once, before a lookup that    *)
(* may take minutes, while the clock of the system goes on or is set.      *)
(*                                                                         *)
(* Left out: a hostname that is an address already, which is answered at   *)
(* once and touches nothing.                                               *)
(***************************************************************************)
EXTENDS Integers

CONSTANTS
  Records,    \* CACHE_RECORDS_LIMIT
  Life,       \* 900 seconds
  ShortName,  \* hostnames below CACHE_NAME_LENGTH
  LongName,   \* longer ones, which are never cached
  NoName,     \* the name in a record that was never used
  Addr, NoAddr,
  MaxTime     \* bound of the clock

ASSUME RecordsAssumption == Records \in Nat \ {0} /\ Life \in Nat \ {0} /\ MaxTime \in Nat
ASSUME NamesAssumption ==
  NoName \notin ShortName /\ ShortName \cap LongName = {} /\ NoAddr \notin Addr

Slot == 0 .. Records - 1
Hostname == ShortName \cup LongName

VARIABLES
  cache,     \* ns_cache
  now,       \* local: the time that was read, 0 outside of a lookup
  clock, stepped, pc, hostname, reply,   \* as in AgedAnswers
  told, latest                           \* history

history == <<told, latest>>
vars == <<cache, now, clock, stepped, pc, hostname, reply, history>>

TypeOK ==
  /\ cache \in [Slot -> [name : ShortName \cup {NoName}, addr : Addr \cup {NoAddr}, expiry : Nat]]
  /\ now \in Nat /\ clock \in Nat
  /\ stepped \in BOOLEAN
  /\ pc \in {"idle", "lookup"}
  /\ hostname \in Hostname
  /\ reply \in Addr \cup {NoAddr}
  /\ told \in [ShortName -> SUBSET Addr]
  /\ latest \in [ShortName -> [addr : Addr \cup {NoAddr}, at : Nat]]

Init ==
  /\ cache = [i \in Slot |-> [name |-> NoName, addr |-> NoAddr, expiry |-> 0]]
  /\ now = 0
  /\ clock \in 0 .. MaxTime /\ stepped = FALSE
  /\ pc = "idle" /\ reply = NoAddr
  /\ hostname \in Hostname
  /\ told = [h \in ShortName |-> {}]
  /\ latest = [h \in ShortName |-> [addr |-> NoAddr, at |-> 0]]

-----------------------------------------------------------------------------
(* The clock of the system goes on, or is set forth or back. *)
Tick ==
  /\ clock' \in 0 .. MaxTime /\ clock' # clock
  /\ stepped' = (stepped \/ clock' < clock)
  /\ UNCHANGED <<cache, now, pc, hostname, reply, history>>

(* A mistake: a record is good for one second more. *)
GoodTooLong(i, h, t) == cache[i].expiry >= t /\ cache[i].name = h

(* Record i answers h at time t. *)
Good(i, h, t) == cache[i].expiry > t /\ cache[i].name = h

Hit(h) ==
  /\ pc = "idle"
  /\ h \in ShortName
  /\ \E i \in Slot :
       /\ Good(i, h, clock)
       /\ \A j \in Slot : j < i => ~ Good(j, h, clock)
       /\ reply' = cache[i].addr
  /\ hostname' = h
  /\ UNCHANGED <<cache, now, clock, stepped, pc, history>>

(* A mistake: the scan stops at the first record that has expired. *)
MissAfterScan(h) ==
  /\ pc = "idle" /\ pc' = "lookup"
  /\ h \in ShortName => \A i \in Slot : Good(i, h, clock) =>
                          \E j \in Slot : j < i /\ cache[j].expiry <= clock
  /\ now' = IF h \in ShortName THEN clock ELSE 0
  /\ hostname' = h
  /\ reply' = NoAddr
  /\ UNCHANGED <<cache, clock, stepped, history>>

(* nsaddr is called, for a long name without a look at the clock. *)
Miss(h) ==
  /\ pc = "idle" /\ pc' = "lookup"
  /\ h \in ShortName => \A i \in Slot : ~ Good(i, h, clock)
  /\ now' = IF h \in ShortName THEN clock ELSE 0
  /\ hostname' = h
  /\ reply' = NoAddr
  /\ UNCHANGED <<cache, clock, stepped, history>>

LookupFails ==
  /\ pc = "lookup" /\ pc' = "idle"
  /\ now' = 0
  /\ UNCHANGED <<cache, clock, stepped, hostname, reply, history>>

Expired == {i \in Slot : cache[i].expiry <= now}

(* The record to overwrite: the first that has expired, or else any. *)
IsUpdate(i) ==
  IF Expired = {} THEN i = now % Records
                  ELSE i \in Expired /\ \A j \in Expired : i <= j

(* nsaddr has an answer.  It is recorded, but for a long name. *)
LookupAnswers(a) ==
  /\ pc = "lookup" /\ pc' = "idle"
  /\ hostname \in ShortName
  /\ reply' = a
  /\ \E i \in Slot :
       /\ IsUpdate(i)
       /\ cache' = [cache EXCEPT ![i] = [name |-> hostname, addr |-> a, expiry |-> now + Life]]
  /\ told' = [told EXCEPT ![hostname] = @ \cup {a}]
  /\ latest' = [latest EXCEPT ![hostname] = [addr |-> a, at |-> clock]]
  /\ now' = 0
  /\ UNCHANGED <<clock, stepped, hostname>>

LookupLongAnswers(a) ==
  /\ pc = "lookup" /\ pc' = "idle"
  /\ hostname \in LongName
  /\ reply' = a
  /\ UNCHANGED <<cache, now, clock, stepped, hostname, history>>

Next ==
  \/ Tick
  \/ \E h \in Hostname : Hit(h) \/ Miss(h)
  \/ LookupFails
  \/ \E a \in Addr : LookupAnswers(a) \/ LookupLongAnswers(a)

Spec == Init /\ [][Next]_vars

-----------------------------------------------------------------------------
(* Correctness *)

(* As long as the clock was not set back, no two records answer for the    *)
(* same name: the cache is never of two minds, wherever the scan starts.   *)
OneRecordPerName ==
  ~ stepped => \A h \in ShortName : \A i, j \in Slot :
                 Good(i, h, clock) /\ Good(j, h, clock) => i = j

(* The table implements the promise of the cache: an answer that is        *)
(* remembered was given for that name, and is the latest and not too old,  *)
(* unless the clock was set back.                                          *)
Aged == INSTANCE AgedAnswers
ImplementsAged == Aged!Spec

-----------------------------------------------------------------------------
(* The inductive invariant *)

(* What a record holds was said of its name, *)
Said ==
  \A i \in Slot : cache[i].expiry > 0 =>
    cache[i].name \in ShortName /\ cache[i].addr \in told[cache[i].name]

(* and last, and not long ago, if it is good. *)
Latest ==
  ~ stepped => \A h \in ShortName : \A i \in Slot : Good(i, h, clock) =>
    /\ cache[i].addr = latest[h].addr
    /\ cache[i].expiry <= latest[h].at + Life

(* During a lookup, no record is good for the name at the time that was    *)
(* read; that time is not ahead of the clock.                              *)
Asking ==
  pc = "lookup" /\ hostname \in ShortName =>
    /\ \A i \in Slot : ~ Good(i, hostname, now)
    /\ ~ stepped => now <= clock

IInv == TypeOK /\ Said /\ Latest /\ OneRecordPerName /\ Asking

=============================================================================
