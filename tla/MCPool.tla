------------------------------- MODULE MCPool ------------------------------
EXTENDS Pool

\* Another process may have one of the UDP ports.
Taken == {<<"udp", 1>>}
=============================================================================
