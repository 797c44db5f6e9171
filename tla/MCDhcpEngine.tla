---------------------------- MODULE MCDhcpEngine ----------------------------
(* DhcpEngine for TLC: two DHCP servers that offer the same DNS server, one  *)
(* of them also the one of the configuration.                                *)
EXTENDS DhcpEngine, TLC

CONSTANTS s1, s2, d1, d2

MCDnsOf == (s1 :> {d2}) @@ (s2 :> {d1, d2})
=============================================================================
