------------------------------ MODULE MCHskUri ------------------------------
(* hsk_resource_to_uri with Cap = 8 for 255 and MagnetFixed = 2 for 16:    *)
(* every record shape is on both sides of the length test.                *)
EXTENDS HskUri

MCRecords ==
  { UriRecord("URI", 0, 1, 0) }
  \cup { UriRecord("MAGNET", 0, a, b) : a \in 1 .. 2, b \in 0 .. 2 }
  \cup { UriRecord("ADDR", 0, a, b) : a \in 1 .. 2, b \in { 1, 3, 5 } }
  \cup { UriRecord("ADDR", 3, a, b) : a \in 1 .. 2, b \in 0 .. 2 }
  \cup { UriRecord("ADDR", 1, 1, 1) }

MCResources == BoundedSeq(MCRecords, 3)

=============================================================================
