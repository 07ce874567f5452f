---------------------------- MODULE BlkDriverMC ----------------------------
(* The values of the constants of BlkDriver for TLC.                       *)
EXTENDS BlkDriver

(* One segment, two of one size, and two of which the first is larger.     *)
Bios == {<<1>>, <<1, 2>>, <<2, 3>>}

(* A bio that follows another. *)
Following(c, d) == [i \in DOMAIN d |-> Last(c) + d[i]]

(* Requests of one bio and of two. *)
AllCuts == {<<c>> : c \in Bios} \cup {<<c, Following(c, d)>> : c \in Bios, d \in Bios}
=============================================================================
