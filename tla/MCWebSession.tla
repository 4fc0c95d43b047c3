---------------------------- MODULE MCWebSession ----------------------------
(* WebSession on small sets; the tabs and the users are interchangeable.     *)
EXTENDS WebSession, TLC

Interchangeable == Permutations(Tabs) \cup Permutations(Users)
=============================================================================
