--------------------------- MODULE MCLearningLoop ---------------------------
(***************************************************************************)
(* Instances of LearningLoop for TLC.  The .cfg files give the sizes; the  *)
(* README says why they are enough.                                        *)
(***************************************************************************)
EXTENDS LearningLoop
=============================================================================
