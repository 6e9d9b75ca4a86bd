------------------------- MODULE MCSessionPipeline -------------------------
(* A phone of this version, and one that is too new. *)
EXTENDS SessionPipeline

MCPhoneVersions == {[min |-> 1, max |-> 2], [min |-> 2, max |-> 2]}

MCClientOrder == <<"c1", "c2">>

=============================================================================
