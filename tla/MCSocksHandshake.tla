-------------------------- MODULE MCSocksHandshake --------------------------
(* Clients of SocksHandshake for TLC: with and without credentials, with   *)
(* each type of destination, and some that do not keep to the protocol.    *)
EXTENDS SocksHandshake

Plain == <<5, 1, 0>>
Password == <<5, 1, 2>>
Several == <<5, 2, 0, 2>>
Secret == <<1, 1, 65, 1, 66>>

ByIPv4 == <<5, 1, 0, 1, 10, 0, 0, 7, 0, 80>>
ByName == <<5, 1, 0, 3, 2, 65, 66, 0, 80>>
ByCutName == <<5, 1, 0, 3, 3, 65, 0, 66, 0, 80>>
ByIPv6 == <<5, 1, 0, 4, 1, 2, 3, 4, 5, 6, 7, 8, 9, 10, 11, 12, 13, 14, 15, 16, 0, 80>>

Clients ==
  {<<Plain, ByIPv4>>, <<Several, ByName>>, <<Password, Secret, ByName>>,
   <<Password, Secret, ByIPv6>>, <<Plain, ByCutName>>,
   <<<<4, 1>>, ByIPv4>>,                         \* another version
   <<Plain, <<5, 2, 0, 1, 10, 0, 0, 7, 0, 80>>>>,  \* another command
   <<Plain, ByIPv4 \o ByIPv6>>}                  \* more than the queue holds

=============================================================================
