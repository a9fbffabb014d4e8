----------------------------- MODULE MCStartup -------------------------------
(* Startup for TLC: the texts are any short ones, with a port behind or    *)
(* none, but for texts where two numbers would run into one.               *)
EXTENDS Startup

CONSTANTS MaxHead

(* At the bounds of a port, of an int and of an unsigned int. *)
Ports == {-9, -1, 0, 1, 3, 4, 7, 8, 15, 16, 19}

Apart(text) ==
  \A i \in 1 .. Len(text) - 1 : {text[i], text[i + 1]} \cap {Colon, Left, Right} # {}

Heads == {h \in SeqOf({Colon, Left, Right, Quad} \cup Group, MaxHead) : Apart(h)}
Behind == {<<>>} \cup {<<Colon, p>> : p \in Ports} \cup {<<Colon, p, Right>> : p \in Ports}
Texts == {h \o t : h \in Heads, t \in Behind}

=============================================================================
