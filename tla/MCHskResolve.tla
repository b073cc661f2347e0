---------------------------- MODULE MCHskResolve ----------------------------
(***************************************************************************)
(* Model of HskResolve for TLC: every input of up to MaxLen bytes over the *)
(* version byte, the NS, GLUE4 and TEXT tags and one letter, answered by   *)
(* every responder.                                                        *)
(***************************************************************************)
EXTENDS HskResolve

(* The tags of include/resource.h (HSK_DS 0 .. HSK_TEXT 6). *)
MCTag == [ t \in { "DS", "NS", "GLUE4", "GLUE6", "SYNTH4", "SYNTH6", "TEXT" } |->
             CASE t = "DS" -> 0 [] t = "NS" -> 1 [] t = "GLUE4" -> 2
               [] t = "GLUE6" -> 3 [] t = "SYNTH4" -> 4 [] t = "SYNTH6" -> 5
               [] t = "TEXT" -> 6 ]

=============================================================================
