--------------------------- MODULE MCHskDispatch ---------------------------
(***************************************************************************)
(* Model of HskDispatch for TLC: resources of up to MaxRecords records     *)
(* drawn from one representative of every record shape the responders      *)
(* tell apart.                                                              *)
(***************************************************************************)
EXTENDS HskDispatch

CONSTANT MaxRecords   \* records per resource (the code allows 255)

NsHost == "ns1.alice."

(* GLUE targets with exactly one of the two inline addresses set. *)
GlueVariants == { [ g4 |-> TRUE, g6 |-> FALSE ], [ g4 |-> FALSE, g6 |-> TRUE ] }

Plain(t) == [ g4 |-> FALSE, g6 |-> FALSE, host |-> NoHost, ok |-> TRUE,
              smtp |-> FALSE, tgt |-> NoTarget, type |-> t ]

HostBearing ==
  { [ Plain(t) EXCEPT !.tgt = k, !.host = NsHost, !.smtp = sm ] :
      t \in { "CANONICAL", "DELEGATE", "NS", "SERVICE" },
      k \in TargetKinds \ { "GLUE" }, sm \in BOOLEAN }
  \cup
  { [ Plain(t) EXCEPT !.tgt = "GLUE", !.host = NsHost, !.g4 = g.g4, !.g6 = g.g6,
                      !.smtp = sm ] :
      t \in { "CANONICAL", "DELEGATE", "NS", "SERVICE" }, g \in GlueVariants,
      sm \in BOOLEAN }

MCRecords ==
  LET hb == { r \in HostBearing : r.type # "SERVICE" => ~r.smtp } IN
  hb
  \cup { Plain(t) : t \in { "INET4", "INET6", "URI", "TEXT", "LOCATION", "DS", "SSH" } }
  \cup { [ Plain(t) EXCEPT !.ok = b ] : t \in { "MAGNET", "ADDR", "EMAIL" }, b \in BOOLEAN }
  \cup { [ Plain(t) EXCEPT !.host = NsHost ] : t \in { "GLUE4", "GLUE6" } }
  \cup { Plain(t) : t \in { "SYNTH4", "SYNTH6" } }

MCResources == BoundedSeq(MCRecords, MaxRecords)

=============================================================================
