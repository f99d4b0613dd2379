---------------------------- MODULE MCOlafEngine ----------------------------
(* OlafEngine for TLC.                                                     *)
EXTENDS OlafEngine

\* No hit, one, or two that are counted apart; 0 and 1 are counted together.
MCLookups == {<<>>, <<0>>, <<-1, 1>>}
=============================================================================
