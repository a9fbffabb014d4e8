---------------------------- MODULE AgedAnswers ----------------------------
(***************************************************************************)
(* What the name server cache promises, without its records: a remembered  *)
(* answer is one that the DNS client once gave for that very name, and, as *)
(* long as the clock was never set back, it is the latest one it gave and  *)
(* younger than Life.  It may forget whatever it likes.                    *)
(***************************************************************************)
EXTENDS Integers

CONSTANTS
  Life,     \* seconds for which an answer may be used
  NoAddr,   \* no reply, or a failed one
  Addr,
  ShortName,  \* hostnames whose answers may be remembered
  LongName    \* the others

Hostname == ShortName \cup LongName

VARIABLES
  clock,     \* time ( NULL )
  stepped,   \* whether the clock was ever set back
  pc,        \* "idle", or "lookup" while the DNS client is at work
  hostname,  \* what was asked for
  reply,     \* the address that was returned
  told,      \* for each short name, the addresses that the DNS client gave
  latest     \* the last of them, and when

vars == <<clock, stepped, pc, hostname, reply, told, latest>>

Init ==
  /\ clock \in Nat /\ stepped = FALSE
  /\ pc = "idle" /\ reply = NoAddr
  /\ hostname \in Hostname
  /\ told = [h \in ShortName |-> {}]
  /\ latest = [h \in ShortName |-> [addr |-> NoAddr, at |-> 0]]

Tick ==
  /\ clock' \in Nat /\ clock' # clock
  /\ stepped' = (stepped \/ clock' < clock)
  /\ UNCHANGED <<pc, hostname, reply, told, latest>>

Remember ==
  /\ pc = "idle"
  /\ hostname' \in ShortName
  /\ reply' \in told[hostname']
  /\ ~ stepped => /\ reply' = latest[hostname'].addr
                  /\ clock < latest[hostname'].at + Life
  /\ UNCHANGED <<clock, stepped, pc, told, latest>>

Ask ==
  /\ pc = "idle" /\ pc' = "lookup"
  /\ hostname' \in Hostname
  /\ reply' = NoAddr
  /\ UNCHANGED <<clock, stepped, told, latest>>

Fail ==
  /\ pc = "lookup" /\ pc' = "idle"
  /\ UNCHANGED <<clock, stepped, hostname, reply, told, latest>>

Learn ==
  /\ pc = "lookup" /\ pc' = "idle"
  /\ hostname \in ShortName
  /\ reply' \in Addr
  /\ told' = [told EXCEPT ![hostname] = @ \cup {reply'}]
  /\ latest' = [latest EXCEPT ![hostname] = [addr |-> reply', at |-> clock]]
  /\ UNCHANGED <<clock, stepped, hostname>>

Relay ==
  /\ pc = "lookup" /\ pc' = "idle"
  /\ hostname \in LongName
  /\ reply' \in Addr
  /\ UNCHANGED <<clock, stepped, hostname, told, latest>>

Next == Tick \/ Remember \/ Ask \/ Fail \/ Learn \/ Relay

Spec == Init /\ [][Next]_vars

=============================================================================
