------------------------------ MODULE MCTCPRelay ------------------------------
(* Instances of TCPRelay for TLC.                                          *)
EXTENDS TCPRelay, TLC

\* Handlers, descriptors and names are interchangeable.
MCSymmetry ==
    Permutations(Callbacks) \cup Permutations(Fds) \cup Permutations(Hostnames)
=============================================================================
