----------------------------- MODULE MCScoring -----------------------------
\* Two Blend pools and a DeFindex strategy; a total supply on either side of
\* the floor of 50k USDC, an oracle price on either side of an hour.  A narrow
\* plate, on which neighbouring labels collide.
EXTENDS Plate

MCBlendPools == <<"p1", "p2">>
MCStrategies == <<"s1">>

\* topOf looks as far as six columns to the left on this plate.
MCCrags == {[drift |-> -6, y |-> 600], [drift |-> 0, y |-> 606]}

ASSUME RoomForLabels
=============================================================================
