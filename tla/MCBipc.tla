------------------------------- MODULE MCBipc -------------------------------
(* Bipc for TLC: four aipc objects, so that three accepted connections, *)
(* in different states when the stop arrives, coexist with the aipc    *)
(* accepting the next one.                                               *)
EXTENDS Bipc

CONSTANTS k1, k2, k3, k4

MCAipcs == {k1, k2, k3, k4}

=============================================================================
