---------------------------- MODULE MCDNSResolver ----------------------------
(* Instances of DNSResolver for TLC.                                       *)
EXTENDS DNSResolver, TLC

\* Callers and names are interchangeable.
MCSymmetry == Permutations(Callbacks) \cup Permutations(Hostnames)
=============================================================================
