------------------------- MODULE MCUnclaimedRewards -------------------------
(* What the sources of metadata say of the native token, for TLC. *)
EXTENDS UnclaimedRewards

MCSources ==
    {[abci |-> "nodisplay", asset |-> "right", first |-> "other"],
     [abci |-> "broken", asset |-> Nil, first |-> "nodisplay"],
     [abci |-> Nil, asset |-> "right", first |-> "other"]}
=============================================================================
