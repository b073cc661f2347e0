---------------------------- MODULE HskDispatch ----------------------------
(***************************************************************************)
(* The responders of src/src/resource.c: hsk_resource_to_dns (referral /   *)
(* authoritative / empty-proof dispatch), hsk_resource_root,               *)
(* hsk_resource_to_nx, _to_servfail and _to_notimp, as one resolver core   *)
(* that answers a stream of queries against one decoded resource.          *)
(*                                                                         *)
(* Every responder is one action: it allocates a message and runs its      *)
(* builder and signing calls in the code's order.  None of those calls'    *)
(* results is checked by the code, so when AllocMayFail holds each builder *)
(* may stop after any prefix of its RRs (hsk_dns_rr_create returned NULL)  *)
(* and each signing call may add nothing, and the responder goes on.       *)
(***************************************************************************)
EXTENDS HskBuilders

CONSTANTS
  Resources,     \* the decoded resources the core may hold
  AllocMayFail   \* whether an allocation may return NULL

VARIABLES
  res,       \* the hsk_resource_t queries are answered from
  query,     \* the last call made, for the properties
  resp       \* the message it returned (NoMsg for NULL)

vars == << res, query, resp >>

(* Query names: the resource belongs to the top-level name TldName; a     *)
(* query has 0 (the root), 1 (the TLD itself) or 2 labels.                 *)
TldName == "alice."
QName(n) == CASE n = 0 -> RootName [] n = 1 -> TldName [] n = 2 -> "sub.alice."
Labels == 0 .. 2

(* Query types hsk_resource_to_dns distinguishes; "SOA" stands for every   *)
(* type it does not.                                                        *)
QTypes == { "A", "AAAA", "CNAME", "DNAME", "NS", "MX", "TXT", "LOC", "DS",
            "SSHFP", "URI", "RP", "SOA" }
RootQTypes == { "ANY", "NS", "SOA", "DNSKEY", "DS", "A" }
(* The server address handed to hsk_resource_root. *)
AddrFamilies == { "ip4", "ip6" }

RCodes == { "NOERROR", "NXDOMAIN", "SERVFAIL", "NOTIMP" }
Sections == { "an", "ns", "ar" }

(* hsk_dns_msg_alloc *)
EmptyMsg == [ aa |-> FALSE, an |-> << >>, ar |-> << >>, ns |-> << >>,
              rcode |-> "NOERROR" ]

(* The NULL a responder returns, as a message with no rcode. *)
NoMsg == [ EmptyMsg EXCEPT !.rcode = "NULL" ]

-----------------------------------------------------------------------------
(* The calls a responder makes, as steps run in order over the message.   *)

Push(sec, rrs) == [ key |-> "none", op |-> "push", rrs |-> rrs, sec |-> sec, t |-> NoType ]
SignZsk(sec, t) == [ key |-> "zsk", op |-> "sign", rrs |-> << >>, sec |-> sec, t |-> t ]
SignKsk(sec, t) == [ key |-> "ksk", op |-> "sign", rrs |-> << >>, sec |-> sec, t |-> t ]
SetAA == [ key |-> "none", op |-> "aa", rrs |-> << >>, sec |-> "an", t |-> NoType ]

(* How many of n RRs a builder pushes: all, or any prefix when the        *)
(* allocation of the next one may fail.                                    *)
Kept(fail, n) == IF fail THEN 0 .. n ELSE {n}

(* hsk_dnssec_sign_zsk / _ksk: append one RRSIG over the RRs of type t in *)
(* the section, if there are any.                                          *)
Signed(sec, t) == \E i \in DOMAIN sec : sec[i].type = t
RRSig(sec, t, key) ==
  LET o == sec[CHOOSE i \in DOMAIN sec : sec[i].type = t].owner
  IN  [ RR("RRSIG", o) EXCEPT !.covers = t, !.key = key ]

DoStep(fail, m, s) ==
  CASE s.op = "push" ->
         { [ m EXCEPT ![s.sec] = @ \o SubSeq(s.rrs, 1, k) ] : k \in Kept(fail, Len(s.rrs)) }
    [] s.op = "sign" ->
         IF Signed(m[s.sec], s.t)
           THEN { [ m EXCEPT ![s.sec] = Append(@, RRSig(@, s.t, s.key)) ] }
                \cup (IF fail THEN {m} ELSE {})
           ELSE {m}
    [] s.op = "aa" -> { [ m EXCEPT !.aa = TRUE ] }

RECURSIVE Run(_, _, _)
Run(fail, S, steps) ==
  IF steps = << >> THEN S
  ELSE Run(fail, UNION { DoStep(fail, m, Head(steps)) : m \in S }, Tail(steps))

(* hsk_dns_msg_alloc, then the steps; NULL when the allocation fails. *)
Respond(fail, m0, steps) == Run(fail, {m0}, steps) \cup (IF fail THEN {NoMsg} ELSE {})

-----------------------------------------------------------------------------
(* hsk_resource_to_dns (resource.c:1563-1705) *)

(* Mutant: the delegation marks the message authoritative. *)
DelegationStepsAA(r, o) ==
  << SetAA,
     Push("ns", hsk_resource_to_ns(r, o)),
     Push("ns", hsk_resource_to_ds(r, o)),
     Push("ar", hsk_resource_to_nsip(r, TldName)),
     Push("ar", hsk_resource_to_glue(r, "NS")),
     SignZsk("ns", IF HasType(r, "DS") THEN "DS" ELSE "NS") >>

(* NS, DS, NSIP and NS glue, signed over DS if there is one, else over NS: *)
(* the referral (labels > 1) and the empty-answer tail for HSK_NS.         *)
DelegationSteps(r, o) ==
  << Push("ns", hsk_resource_to_ns(r, o)),
     Push("ns", hsk_resource_to_ds(r, o)),
     Push("ar", hsk_resource_to_nsip(r, TldName)),
     Push("ar", hsk_resource_to_glue(r, "NS")),
     SignZsk("ns", IF HasType(r, "DS") THEN "DS" ELSE "NS") >>

(* The empty proof: an NSEC at o with no type map, then the root SOA. *)
EmptyProofSteps(o) ==
  << Push("ns", hsk_resource_to_empty(o)), SignZsk("ns", "NSEC"),
     Push("ns", hsk_resource_root_to_soa), SignZsk("ns", "SOA") >>

(* Mutant: the CNAME answer is not signed. *)
CnameStepsUnsigned(r, o) ==
  << Push("an", hsk_resource_to_cname(r, o, TldName)),
     Push("ar", hsk_resource_to_glue(r, "CNAME")),
     SignZsk("ar", "A"), SignZsk("ar", "AAAA") >>

CnameSteps(r, o) ==
  << Push("an", hsk_resource_to_cname(r, o, TldName)),
     Push("ar", hsk_resource_to_glue(r, "CNAME")),
     SignZsk("an", "CNAME"), SignZsk("ar", "A"), SignZsk("ar", "AAAA") >>

DnameSteps(r, o) ==
  << Push("an", hsk_resource_to_dname(r, o, TldName)),
     Push("ar", hsk_resource_to_glue(r, "DNAME")),
     SignZsk("an", "DNAME"), SignZsk("ar", "A"), SignZsk("ar", "AAAA") >>

(* labels > 1 *)
ReferralSteps(r, name) ==
  IF HasNS(r) THEN DelegationSteps(r, TldName)
  ELSE IF HasType(r, "DELEGATE") THEN DnameSteps(r, name)
  ELSE EmptyProofSteps(TldName)

(* labels = 1: the switch on the query type. *)
AnswerSteps(r, name, t) ==
  CASE t = "A"     -> << Push("an", hsk_resource_to_a(r, name)), SignZsk("an", "A") >>
    [] t = "AAAA"  -> << Push("an", hsk_resource_to_aaaa(r, name)), SignZsk("an", "AAAA") >>
    [] t = "CNAME" -> CnameSteps(r, name)
    [] t = "DNAME" -> DnameSteps(r, name)
    [] t = "NS"    -> << Push("ns", hsk_resource_to_ns(r, name)),
                         Push("ar", hsk_resource_to_glue(r, "NS")),
                         Push("ar", hsk_resource_to_nsip(r, TldName)),
                         SignZsk("ns", "NS") >>
    [] t = "MX"    -> << Push("an", hsk_resource_to_mx(r, name, TldName)),
                         Push("ar", hsk_resource_to_mxip(r, TldName)),
                         Push("ar", hsk_resource_to_glue(r, "MX")),
                         SignZsk("an", "MX") >>
    [] t = "TXT"   -> << Push("an", hsk_resource_to_txt(r, name)), SignZsk("an", "TXT") >>
    [] t = "LOC"   -> << Push("an", hsk_resource_to_loc(r, name)), SignZsk("an", "LOC") >>
    [] t = "DS"    -> << Push("an", hsk_resource_to_ds(r, name)), SignZsk("an", "DS") >>
    [] t = "SSHFP" -> << Push("an", hsk_resource_to_sshfp(r, name)), SignZsk("an", "SSHFP") >>
    [] t = "URI"   -> << Push("an", hsk_resource_to_uri(r, name)), SignZsk("an", "URI") >>
    [] t = "RP"    -> << Push("an", hsk_resource_to_rp(r, name)), SignZsk("an", "RP") >>
    [] OTHER       -> << >>

(* After the switch: AA when the answer is not empty; when both answer    *)
(* and authority are empty, a CNAME, a delegation or an empty proof.       *)
TailSteps(r, name, m) ==
  (IF Len(m.an) > 0 THEN << SetAA >> ELSE << >>)
  \o IF Len(m.an) = 0 /\ Len(m.ns) = 0
       THEN IF HasType(r, "CANONICAL") THEN << SetAA >> \o CnameSteps(r, name)
            ELSE IF HasType(r, "NS") THEN DelegationSteps(r, name)
            ELSE EmptyProofSteps(name)
       ELSE << >>

hsk_resource_to_dns(fail, r, n, t) ==
  LET name == QName(n) IN
  IF n = 0 THEN {NoMsg}
  ELSE IF n > 1 THEN Respond(fail, EmptyMsg, ReferralSteps(r, name))
  ELSE LET S == Run(fail, {EmptyMsg}, AnswerSteps(r, name, t))
       IN  UNION { Run(fail, {m}, TailSteps(r, name, m)) : m \in S }
           \cup (IF fail THEN {NoMsg} ELSE {})

(* hsk_resource_root (resource.c:1707-1774) *)
AddrSteps(addr) ==
  IF addr = "ip4" THEN << Push("ar", hsk_resource_root_to_a), SignZsk("ar", "A") >>
                  ELSE << Push("ar", hsk_resource_root_to_aaaa), SignZsk("ar", "AAAA") >>

hsk_resource_root(fail, t, addr) ==
  Respond(fail, [ EmptyMsg EXCEPT !.aa = TRUE ],
    CASE t \in { "ANY", "NS" } ->
           << Push("an", hsk_resource_root_to_ns), SignZsk("an", "NS") >> \o AddrSteps(addr)
      [] t = "SOA" ->
           << Push("an", hsk_resource_root_to_soa), SignZsk("an", "SOA"),
              Push("ns", hsk_resource_root_to_ns), SignZsk("ns", "NS") >> \o AddrSteps(addr)
      [] t = "DNSKEY" -> << Push("an", hsk_resource_root_to_dnskey), SignKsk("an", "DNSKEY") >>
      [] t = "DS"     -> << Push("an", hsk_resource_root_to_ds), SignZsk("an", "DS") >>
      [] OTHER        -> << Push("ns", hsk_resource_root_to_nsec), SignZsk("ns", "NSEC"),
                           Push("ns", hsk_resource_root_to_soa), SignZsk("ns", "SOA") >>)

(* hsk_resource_to_nx (resource.c:1776-1801): two root NSECs, root SOA. *)
hsk_resource_to_nx(fail) ==
  Respond(fail, [ EmptyMsg EXCEPT !.aa = TRUE, !.rcode = "NXDOMAIN" ],
    << Push("ns", hsk_resource_root_to_nsec), Push("ns", hsk_resource_root_to_nsec),
       SignZsk("ns", "NSEC"), Push("ns", hsk_resource_root_to_soa), SignZsk("ns", "SOA") >>)

hsk_resource_to_servfail(fail) == Respond(fail, [ EmptyMsg EXCEPT !.rcode = "SERVFAIL" ], << >>)
hsk_resource_to_notimp(fail)   == Respond(fail, [ EmptyMsg EXCEPT !.rcode = "NOTIMP" ], << >>)

-----------------------------------------------------------------------------
(* The resolver core: one resource, any sequence of calls. *)

NoQuery == [ addr |-> "ip4", kind |-> "none", n |-> 0, t |-> "none" ]
Query(kd, ln, qt, ad) == [ addr |-> ad, kind |-> kd, n |-> ln, t |-> qt ]

(* The messages a call may return. *)
ResponsesTo(fail, r, q) ==
  CASE q.kind = "to_dns"   -> hsk_resource_to_dns(fail, r, q.n, q.t)
    [] q.kind = "root"     -> hsk_resource_root(fail, q.t, q.addr)
    [] q.kind = "nx"       -> hsk_resource_to_nx(fail)
    [] q.kind = "servfail" -> hsk_resource_to_servfail(fail)
    [] q.kind = "notimp"   -> hsk_resource_to_notimp(fail)

Types(sec) == { sec[i].type : i \in DOMAIN sec }

(* Types of the RRsets a message shows at the TLD, and the types its NSEC *)
(* at the TLD says do not exist there (all but those in its bitmap).       *)
TldTypes(m) ==
  IF m = NoMsg THEN {}
  ELSE { x.type : x \in { y \in Range(m.an) \cup Range(m.ns) : y.owner = TldName } }
       \ { "RRSIG", "NSEC" }
TldDenied(m) ==
  IF m = NoMsg THEN {}
  ELSE UNION { RRTypes \ (x.bits \cup { "RRSIG", "NSEC" }) :
                 x \in { y \in Range(m.ns) : y.type = "NSEC" /\ y.owner = TldName } }

Init ==
  /\ res \in Resources
  /\ query = NoQuery
  /\ resp = NoMsg

(* One call of a responder, for the query of kind kd with the arguments  *)
(* ln, qt and ad it takes.                                                  *)
Answer(kd, ln, qt, ad) ==
  LET q == Query(kd, ln, qt, ad) IN
  \E m \in ResponsesTo(AllocMayFail, res, q) :
    /\ query' = q
    /\ resp' = m
    /\ UNCHANGED res

ToDns    == \E n \in Labels, t \in QTypes : Answer("to_dns", n, t, "ip4")
Root     == \E t \in RootQTypes, a \in AddrFamilies : Answer("root", 0, t, a)
ToNx       == Answer("nx", 0, "none", "ip4")
ToServfail == Answer("servfail", 0, "none", "ip4")
ToNotimp   == Answer("notimp", 0, "none", "ip4")

Next == ToDns \/ Root \/ ToNx \/ ToServfail \/ ToNotimp

Spec == Init /\ [][Next]_vars

-----------------------------------------------------------------------------
(* Properties *)

TypeOK ==
  /\ res \in Resources
  /\ query.kind \in { "none", "to_dns", "root", "nx", "servfail", "notimp" }
  /\ query.n \in Labels
  /\ resp.aa \in BOOLEAN
  /\ resp.rcode \in RCodes \cup { NoMsg.rcode }
  /\ \A s \in Sections : \A i \in DOMAIN resp[s] : resp[s][i].type \in RRTypes

(* P4 of the spec, second half: a referral (no answer, NS in the          *)
(* authority section) is not authoritative, on every path that builds NS  *)
(* into the authority section.                                             *)
ReferralNotAuthoritative ==
  resp # NoMsg /\ Len(resp.an) = 0 /\ "NS" \in Types(resp.ns) => ~resp.aa

(* P5 of the spec, over every path of the responders: every RRset in the  *)
(* answer and authority sections carries an RRSIG by the right key (the    *)
(* KSK over DNSKEY, the ZSK over the rest), save the NS set of a           *)
(* non-authoritative delegation that has a DS, which DNSSEC leaves         *)
(* unsigned.                                                               *)
SignedSections ==
  resp # NoMsg =>
    \A s \in { "an", "ns" } : \A t \in Types(resp[s]) \ { "RRSIG" } :
      \/ \E i \in DOMAIN resp[s] :
           /\ resp[s][i].type = "RRSIG"
           /\ resp[s][i].covers = t
           /\ resp[s][i].key = (IF t = "DNSKEY" THEN "ksk" ELSE "zsk")
      \/ s = "ns" /\ t = "NS" /\ ~resp.aa /\ "DS" \in Types(resp.ns)

-----------------------------------------------------------------------------
(* Properties the code is found to break (one violation run each). *)

(* The NSEC that hsk_resource_to_dns puts at the TLD (an empty proof with  *)
(* no type map) denies no type of RRset that another query against the     *)
(* same resource is answered with at the TLD: a validating resolver that   *)
(* caches the NSEC would otherwise refuse those answers.                   *)
NsecConsistent ==
  query.kind = "to_dns" /\ resp # NoMsg =>
    \A n \in { 1, 2 }, t \in QTypes :
      \A m \in hsk_resource_to_dns(FALSE, res, n, t) :
        TldDenied(resp) \cap TldTypes(m) = {}

(* P4 of the spec, first half: a response with a non-empty answer section *)
(* is authoritative.  The referral path of hsk_resource_to_dns (labels > 1, *)
(* lines 1595-1610) pushes the DNAME of a DELEGATE record into the answer  *)
(* and returns before the AA logic of lines 1612-1620.                      *)
AnswerIsAuthoritative ==
  resp # NoMsg /\ resp.an # << >> => resp.aa

=============================================================================
