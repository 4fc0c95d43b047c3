----------------------------- MODULE MCGateway -----------------------------
(* Gateway for TLC: of the two ayahs of the surah EveryAyah has one, and it *)
(* has a clip under a number the catalogue does not know.                   *)
EXTENDS Gateway

VoicedOnes == {<<"1", 1>>, <<"1", 9>>}
=============================================================================
