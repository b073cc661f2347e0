----------------------------- MODULE HskRecord -----------------------------
(***************************************************************************)
(* The decoded resource of src/src/resource.c (hsk_resource_t) and the     *)
(* record-set queries the dispatcher asks of it.                           *)
(*                                                                         *)
(* A record keeps only what some branch of resource.c tests:               *)
(*   type  the record tag (rec->type)                                      *)
(*   tgt   the kind of its embedded target (target->type), for the         *)
(*         host-bearing records CANONICAL, DELEGATE, NS and SERVICE        *)
(*   host  the FQDN it names (c->name, target->name), a model value        *)
(*   g4,g6 whether the inline glue address of a GLUE target is non-zero    *)
(*         (the memcmp against hsk_zero_inet4 / hsk_zero_inet6)            *)
(*   smtp  whether a SERVICE is "smtp." over "tcp." (the strcasecmp pair)  *)
(*   ok    whether a MAGNET / ADDR / EMAIL renders within its limit (the   *)
(*         length and ctype tests of hsk_resource_to_uri / _to_rp)         *)
(* Addresses, texts and digests are copied verbatim by the builders and    *)
(* are not told apart by any branch, so they are left out.                 *)
(***************************************************************************)
EXTENDS Naturals, Sequences, FiniteSets

CONSTANTS
  Hosts,       \* FQDNs a record can carry (model values)
  NoHost       \* the host of a record that carries none

ASSUME NoHost \notin Hosts

(* Record tags used by resource.c. *)
RecordTypes ==
  { "INET4", "INET6", "CANONICAL", "DELEGATE", "NS", "GLUE4", "GLUE6",
    "SYNTH4", "SYNTH6", "SERVICE", "URI", "EMAIL", "TEXT", "LOCATION",
    "MAGNET", "DS", "SSH", "ADDR" }

(* Kinds of an embedded hsk_target_t (target->type). *)
TargetKinds == { "NAME", "GLUE", "INET4", "INET6", "ONION" }

NoTarget == "NONE"

Record ==
  [ type : RecordTypes, tgt : TargetKinds \cup {NoTarget},
    host : Hosts \cup {NoHost}, g4 : BOOLEAN, g6 : BOOLEAN,
    smtp : BOOLEAN, ok : BOOLEAN ]

(* The records hsk_resource_has_ns counts as delegating: the code tests    *)
(* the tag range HSK_NS .. HSK_SYNTH6, which holds exactly these tags.     *)
NSLikeTypes == { "NS", "GLUE4", "GLUE6", "SYNTH4", "SYNTH6" }

(* hsk_resource_get / hsk_resource_has: some record carries the tag. *)
HasType(res, t) == \E i \in DOMAIN res : res[i].type = t

(* hsk_resource_has_ns *)
HasNS(res) == \E i \in DOMAIN res : res[i].type \in NSLikeTypes

=============================================================================
