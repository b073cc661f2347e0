---------------------------- MODULE HskBuilders ----------------------------
(***************************************************************************)
(* The section builders of src/src/resource.c.  Each hsk_resource_to_<x>   *)
(* walks res->records in order and, for every record it does not           *)
(* `continue` past, pushes RRs onto a section.  Here a builder is the      *)
(* sequence of RRs it pushes when no allocation fails; the dispatcher      *)
(* (HskDispatch) decides how much of it reaches the message when one does. *)
(*                                                                         *)
(* An RR keeps its type, its owner name, the host named by its RDATA (NS,  *)
(* CNAME, DNAME, MX), the type an RRSIG covers and the type bitmap of an   *)
(* NSEC and the key an RRSIG is made with.  Addresses, TTLs and digests  *)
(* are copied verbatim and left out.                                       *)
(***************************************************************************)
EXTENDS HskRecord, SequencesExt

CONSTANT NoType   \* covers of an RR that is not an RRSIG

RRTypes ==
  { "A", "AAAA", "CNAME", "DNAME", "NS", "MX", "TXT", "LOC", "DS", "SSHFP",
    "URI", "RP", "SOA", "NSEC", "RRSIG", "DNSKEY", "SRV" }

ASSUME NoType \notin RRTypes

RootName == "."

(* The name target_to_dns gives an INET4 / INET6 target: "_<b32>.<tld>."   *)
(* (resource.c:1997-2010); one name stands for every encoded address.      *)
PtrName(tld) == "_ptr." \o tld

(* The NS name hsk_resource_to_ns gives a SYNTH4 / SYNTH6: "_<b32>._synth."*)
SynthName == "_ptr._synth."

(* hsk_type_map: the bitmap of the root NSEC (NS SOA RRSIG NSEC DNSKEY). *)
RootTypeMap == { "NS", "SOA", "RRSIG", "NSEC", "DNSKEY" }

RR(t, o) == [ bits |-> {}, covers |-> NoType, host |-> NoHost, key |-> "none",
              owner |-> o, type |-> t ]
HostRR(t, o, h) == [ RR(t, o) EXCEPT !.host = h ]

(* One pass of `for (i = 0; i < res->record_count; i++)`: the RRs Out     *)
(* yields for each record, concatenated in record order.                   *)
Scan(res, Out(_)) == FlattenSeq([ i \in DOMAIN res |-> Out(res[i]) ])

(* target_to_dns: the host of a NAME / GLUE target, the pointer name of an *)
(* INET4 / INET6 target, and failure (NoHost) for any other kind.          *)
TargetToDns(r, tld) ==
  CASE r.tgt \in { "NAME", "GLUE" }   -> r.host
    [] r.tgt \in { "INET4", "INET6" } -> PtrName(tld)
    [] OTHER                          -> NoHost

hsk_resource_to_a(res, o) ==
  Scan(res, LAMBDA r : IF r.type = "INET4" THEN << RR("A", o) >> ELSE << >>)

hsk_resource_to_aaaa(res, o) ==
  Scan(res, LAMBDA r : IF r.type = "INET6" THEN << RR("AAAA", o) >> ELSE << >>)

(* CNAME / DNAME: only NAME and GLUE targets are used. *)
HostTargetRRs(res, rtype, t, o, tld) ==
  Scan(res, LAMBDA r :
         IF r.type = rtype /\ r.tgt \in { "NAME", "GLUE" }
           THEN << HostRR(t, o, TargetToDns(r, tld)) >> ELSE << >>)

hsk_resource_to_cname(res, o, tld) == HostTargetRRs(res, "CANONICAL", "CNAME", o, tld)

hsk_resource_to_dname(res, o, tld) == HostTargetRRs(res, "DELEGATE", "DNAME", o, tld)

(* NS: the stored name of NS / GLUE4 / GLUE6, the synthetic name of SYNTH. *)
hsk_resource_to_ns(res, o) ==
  Scan(res, LAMBDA r :
         CASE r.type \in { "SYNTH4", "SYNTH6" }    -> << HostRR("NS", o, SynthName) >>
           [] r.type \in { "NS", "GLUE4", "GLUE6" } -> << HostRR("NS", o, r.host) >>
           [] OTHER                                -> << >>)

(* Address RRs for the pointer names of INET4 / INET6 targets of the       *)
(* records Sel picks (NS for hsk_resource_to_nsip, smtp SERVICE for        *)
(* hsk_resource_to_srvip as called by hsk_resource_to_mxip).               *)
PtrAddrRRs(res, Sel(_), tld) ==
  Scan(res, LAMBDA r :
         IF Sel(r) /\ r.tgt \in { "INET4", "INET6" }
           THEN << RR(IF r.tgt = "INET4" THEN "A" ELSE "AAAA", PtrName(tld)) >>
           ELSE << >>)

hsk_resource_to_nsip(res, tld) == PtrAddrRRs(res, LAMBDA r : r.type = "NS", tld)

hsk_resource_to_mxip(res, tld) ==
  PtrAddrRRs(res, LAMBDA r : r.type = "SERVICE" /\ r.smtp, tld)

hsk_resource_to_mx(res, o, tld) ==
  Scan(res, LAMBDA r :
         IF r.type = "SERVICE" /\ r.smtp /\ TargetToDns(r, tld) # NoHost
           THEN << HostRR("MX", o, TargetToDns(r, tld)) >> ELSE << >>)

(* Builders that emit one RR per record of one tag, unconditionally. *)
PerRecord(res, rtype, t, o) ==
  Scan(res, LAMBDA r : IF r.type = rtype THEN << RR(t, o) >> ELSE << >>)

(* Mutant: the SSHFP builder stamps the record tag as the RR type. *)
ToSshfpRecordTag(res, o) == PerRecord(res, "SSH", "SSH", o)

hsk_resource_to_txt(res, o)   == PerRecord(res, "TEXT", "TXT", o)
hsk_resource_to_loc(res, o)   == PerRecord(res, "LOCATION", "LOC", o)
hsk_resource_to_ds(res, o)    == PerRecord(res, "DS", "DS", o)
hsk_resource_to_sshfp(res, o) == PerRecord(res, "SSH", "SSHFP", o)

(* URI: every URI record, then every MAGNET that fits, then every ADDR of  *)
(* ctype 0 or 3 that fits: three passes over the records.                  *)
hsk_resource_to_uri(res, o) ==
  LET Pass(rtype) ==
        Scan(res, LAMBDA r :
               IF r.type = rtype /\ (rtype = "URI" \/ r.ok)
                 THEN << RR("URI", o) >> ELSE << >>)
  IN  Pass("URI") \o Pass("MAGNET") \o Pass("ADDR")

(* RP: every EMAIL of at most 63 bytes that is a valid name once dotted. *)
hsk_resource_to_rp(res, o) ==
  Scan(res, LAMBDA r : IF r.type = "EMAIL" /\ r.ok THEN << RR("RP", o) >> ELSE << >>)

(* Glue: A / AAAA owned by the target name of the GLUE targets of the      *)
(* records that belong to rrtype.                                          *)
GlueParent(r, rrtype) ==
  CASE r.type = "CANONICAL" -> rrtype = "CNAME"
    [] r.type = "DELEGATE"  -> rrtype = "DNAME"
    [] r.type = "NS"        -> rrtype = "NS"
    [] r.type = "SERVICE"   -> \/ rrtype = "SRV"
                               \/ rrtype = "MX" /\ r.smtp
    [] OTHER                -> FALSE

hsk_resource_to_glue(res, rrtype) ==
  Scan(res, LAMBDA r :
         IF GlueParent(r, rrtype) /\ r.tgt = "GLUE"
           THEN (IF r.g4 THEN << RR("A", r.host) >> ELSE << >>)
                \o (IF r.g6 THEN << RR("AAAA", r.host) >> ELSE << >>)
           ELSE << >>)

(* The synthetic root zone's own RRs. *)
hsk_resource_root_to_soa    == << RR("SOA", RootName) >>
hsk_resource_root_to_ns     == << HostRR("NS", RootName, RootName) >>
hsk_resource_root_to_a      == << RR("A", RootName) >>
hsk_resource_root_to_aaaa   == << RR("AAAA", RootName) >>
hsk_resource_root_to_dnskey == << RR("DNSKEY", RootName), RR("DNSKEY", RootName) >>
hsk_resource_root_to_ds     == << RR("DS", RootName) >>
hsk_resource_root_to_nsec   == << [ RR("NSEC", RootName) EXCEPT !.bits = RootTypeMap ] >>

(* hsk_resource_to_empty as called by the dispatcher: type_map is NULL,   *)
(* so the NSEC at the name has an empty bitmap and next domain ".".        *)
hsk_resource_to_empty(o) == << RR("NSEC", o) >>

=============================================================================
