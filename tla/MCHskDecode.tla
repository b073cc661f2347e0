---------------------------- MODULE MCHskDecode ----------------------------
(***************************************************************************)
(* Model of HskDecode for TLC: short inputs over a few byte values, and    *)
(* the encodings of well-formed lists of up to two records.                *)
(***************************************************************************)
EXTENDS HskDecode

(* The tags of include/resource.h (HSK_DS 0 .. HSK_TEXT 6). *)
MCTag == [ t \in DecodedTypes |->
             CASE t = "DS" -> 0 [] t = "NS" -> 1 [] t = "GLUE4" -> 2
               [] t = "GLUE6" -> 3 [] t = "SYNTH4" -> 4 [] t = "SYNTH6" -> 5
               [] t = "TEXT" -> 6 ]

(* Well-formed record bodies, one or two per type. *)
WFNames == { << 0 >>, << 1, 65, 0 >> }
WFBodies(t) ==
  CASE t = "DS"     -> { << 7, 0 >>, << 7, 1, 65 >> }
    [] t = "NS"     -> WFNames
    [] t = "GLUE4"  -> { n \o [ i \in 1 .. Inet4Size |-> 7 ] : n \in WFNames }
    [] t = "GLUE6"  -> { n \o [ i \in 1 .. Inet6Size |-> 7 ] : n \in WFNames }
    [] t = "SYNTH4" -> { [ i \in 1 .. Inet4Size |-> 7 ] }
    [] t = "SYNTH6" -> { [ i \in 1 .. Inet6Size |-> 7 ] }
    [] t = "TEXT"   -> { << 0 >>, << 1, 65 >>, << 1, 9 >> }

WFRecords == UNION { { Rec(t, TRUE, b) : b \in WFBodies(t) } : t \in DecodedTypes }

MCEncodings == BoundedSeq(WFRecords, 2)

=============================================================================
