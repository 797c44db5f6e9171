---------------------------- MODULE MCWpaNetworks ---------------------------
(* An instance of WpaNetworks for TLC: two access points of one network, whose *)
(* numbers in the supplicant overlap those of its profiles.                    *)
EXTENDS WpaNetworks

CONSTANTS c1, c2, b1, b2, s1

MCSsidOf == [b \in Bss |-> s1]
MCIdOf   == [b \in Bss |-> IF b = b1 THEN 0 ELSE 1]

\* One caller does everything but destroy configurations, which the other does.
MCCalling == [m \in Methods |-> CASE m = "destroy" -> {c1}
                                   [] OTHER -> {c2}]
=============================================================================
