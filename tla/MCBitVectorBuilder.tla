------------------------- MODULE MCBitVectorBuilder -------------------------
(***************************************************************************)
(* Model-checking instances of BitVectorBuilder on 4-bit words.            *)
(***************************************************************************)
EXTENDS BitVectorBuilder, TLC

\* reserve is called on an empty builder, as elias_fano_builder does.
MCReserveAtStart == {0}

\* reserve called at any point of the building.
MCReserveAnywhere == 0..12
=============================================================================
