----------------------------- MODULE HskResolve -----------------------------
(***************************************************************************)
(* The decoder and the responders together, as hnsd uses them: the bytes  *)
(* of a name's resource go through hsk_resource_decode (HskDecode), and    *)
(* once it has returned true the resulting hsk_resource_t answers queries  *)
(* (HskDispatch).  The dispatcher's resource is not a free choice here but *)
(* the records the decoder stored, whatever their readers returned.        *)
(***************************************************************************)
EXTENDS Naturals, Sequences

CONSTANTS
  Bytes, MaxLen, Tag, DSFixed, Inet4Size, Inet6Size, MaxDigest, RecordCap,
  Encodings, MallocMayFail,   \* HskDecode's
  Hosts, NoHost, NoType,      \* HskDispatch's names
  AllocMayFail                \* whether a responder's allocation may fail

VARIABLES
  input, source, dat, pc, recs, live, oom,   \* the decoder's
  query, resp                                \* the responders'

decVars == << input, source, dat, pc, recs, live, oom >>
vars == << input, source, dat, pc, recs, live, oom, query, resp >>

Dec == INSTANCE HskDecode

(* The host a name that was read stands for: every name the decoder reads *)
(* is an FQDN (hsk_dns_name_read writes the dotted form).                  *)
ReadHost == CHOOSE h \in Hosts : TRUE

(* A decoded record as the builders see it.  hsk_record_init zeroes the   *)
(* name of an NS / GLUE4 / GLUE6 (lines 221-236), and a name read that    *)
(* fails consumes nothing, so a record whose reader stopped at the name    *)
(* keeps the empty string: no host.  The NS record's target, which         *)
(* hsk_resource_to_nsip tests, overlays that name and is never an address  *)
(* kind; GLUE addresses are left out (the builders take glue only from     *)
(* GLUE targets of host records, which the decoder does not produce).      *)
AsRecord(d) ==
  [ g4 |-> FALSE, g6 |-> FALSE,
    host |-> IF d.type \in { "NS", "GLUE4", "GLUE6" } /\ d.body # << >>
               THEN ReadHost ELSE NoHost,
    ok |-> TRUE, smtp |-> FALSE, tgt |-> "NONE", type |-> d.type ]

Resolved == [ i \in DOMAIN recs |-> AsRecord(recs[i]) ]

Dis == INSTANCE HskDispatch WITH res <- Resolved, Resources <- {}

Init ==
  /\ Dec!Init
  /\ query = Dis!NoQuery
  /\ resp = Dis!NoMsg

(* hsk_resource_decode runs to its return before anything is answered. *)
Decode == Dec!Next /\ UNCHANGED << query, resp >>

(* A query against the resource the decoder returned true with. *)
Serve == pc = "done" /\ UNCHANGED decVars /\ Dis!Next

Next == Decode \/ Serve

Spec == Init /\ [][Next]_vars

-----------------------------------------------------------------------------
(* hsk_resource_to_ns asserts that the name of every NS / GLUE record is an *)
(* FQDN before it copies it into an NS RR (line 708): every NS RR a         *)
(* responder builds from a decoded resource names a host.                    *)
NsNameIsFqdn ==
  resp # Dis!NoMsg =>
    \A s \in { "an", "ns" } : \A i \in DOMAIN resp[s] :
      resp[s][i].type = "NS" => resp[s][i].host # NoHost

=============================================================================
