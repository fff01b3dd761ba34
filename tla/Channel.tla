------------------------------ MODULE Channel ------------------------------
(***************************************************************************)
(* What the layers under a relayed connection promise in one direction:    *)
(* the bytes handed up are those written, in order, with nothing missing   *)
(* before them, or nothing was handed up and the peer is refused.          *)
(*                                                                         *)
(* A refused direction hands up bytes that are not the peer's data (2048   *)
(* letters E, or the undecoded stream), for the layer above to reject.     *)
(***************************************************************************)
EXTENDS Sequences, SequencesExt

VARIABLES
    sent,     \* what the sender wrote
    got,      \* what the receiver was handed
    refused   \* the receiver was handed something else

channelVars == <<sent, got, refused>>

ChannelInit ==
    /\ sent = <<>>
    /\ got = <<>>
    /\ refused = FALSE

Write ==
    /\ IsStrictPrefix(sent, sent')
    /\ UNCHANGED <<got, refused>>

Deliver ==
    /\ ~refused
    /\ IsStrictPrefix(got, got')
    /\ IsPrefix(got', sent)
    /\ UNCHANGED <<sent, refused>>

Refuse ==
    /\ ~refused
    /\ got = <<>>
    /\ refused' = TRUE
    /\ UNCHANGED <<sent, got>>

ChannelNext == Write \/ Deliver \/ Refuse

ChannelSpec == ChannelInit /\ [][ChannelNext]_channelVars
=============================================================================
