----------------------------- MODULE MCOlafPage -----------------------------
(* OlafPage for TLC: every demo and every kind of user in one instance.    *)
EXTENDS OlafPage

AllHaste == {{}, {"adding"}, {"asking", "adding"}}
=============================================================================
