------------------------------- MODULE HskUri -------------------------------
(***************************************************************************)
(* hsk_resource_to_uri (src/src/resource.c:1061-1199) step by step: three  *)
(* passes over res->records (URI, MAGNET, ADDR), one step per iteration,   *)
(* with the stack buffer nin[] that the MAGNET pass hex-encodes into and   *)
(* the ADDR pass reuses as addr.  nin is a sequence of cells: "c" a        *)
(* character, "z" a NUL, "u" never written.                                *)
(*                                                                         *)
(* Lengths are scaled: Cap stands for the 255 of the `len + 1 > 255`       *)
(* tests and of rd->data[], nin has Cap + 1 cells (HSK_DNS_MAX_NAME + 1),  *)
(* MagnetFixed for the 16 characters "magnet:?xt=urn:" and ':'.            *)
(***************************************************************************)
EXTENDS Naturals, Sequences, SequencesExt

CONSTANTS
  Cap,          \* 255
  MagnetFixed,  \* 16
  Resources,    \* the record lists the builder may be given
  AllocMayFail  \* whether hsk_dns_rr_create may return NULL

(* A record keeps the lengths the builder computes with:                   *)
(*   URI:    n1 = strlen(text)                                             *)
(*   MAGNET: n1 = nid_len, n2 = nin_len                                    *)
(*   ADDR:   ctype, n1 = currency_len, n2 = strlen(address) (ctype 0) or   *)
(*           hash_len (ctype 3)                                            *)
UriRecord(t, c, a, b) == [ ctype |-> c, n1 |-> a, n2 |-> b, type |-> t ]

NinSize == Cap + 1

VARIABLES
  res,      \* the records
  pass,     \* "uri", "magnet", "addr", then "done" (true) or "failed" (false)
  i,        \* the loop index, 1-based
  nin,      \* the nin[] / addr buffer
  out       \* the RRs pushed: [dlen |-> rd->data_len, wrote |-> bytes sprintf stored]

vars == << res, pass, i, nin, out >>

(* hsk_hex_encode of n bytes: 2n characters and a NUL. *)
HexInto(buf, from, n) ==
  [ k \in 1 .. NinSize |->
      IF k >= from /\ k < from + 2 * n THEN "c"
      ELSE IF k = from + 2 * n THEN "z" ELSE buf[k] ]

(* memcpy(addr, rec->address, n): n characters, no NUL. *)
CopyInto(buf, n) == [ k \in 1 .. NinSize |-> IF k <= n THEN "c" ELSE buf[k] ]

(* strlen(addr): where the string can end.  A character cell goes on, a  *)
(* NUL ends it, and a cell never written holds whatever the stack held: it *)
(* may end the string or not.  A string that runs off nin[] goes on into   *)
(* stack the function never wrote (at least one cell more).                *)
StrEnds(buf) ==
  { k \in 1 .. NinSize :
      buf[k] # "c" /\ \A j \in 1 .. k - 1 : buf[j] # "z" }
  \cup (IF \A j \in 1 .. NinSize : buf[j] # "z" THEN { NinSize + 1 } ELSE { })

(* Mutant: the MAGNET length without the NID. *)
MagnetLenNoNid(r) == MagnetFixed + 2 * r.n2

(* size_t len = 16 + nid_len + rec->nin_len * 2 *)
MagnetLen(r) == MagnetFixed + r.n1 + 2 * r.n2

(* addr_len, and currency_len + 1 + addr_len *)
AddrLen(r) == IF r.ctype = 0 THEN r.n2 ELSE 2 + 2 * r.n2
AddrRecLen(r) == r.n1 + 1 + AddrLen(r)

(* Mutant: the ADDR length test dropped. *)
AddrFitsUnchecked(r) == TRUE

(* if (len + 1 > 255) continue; *)
AddrFits(r) == AddrRecLen(r) + 1 <= Cap

(* The ADDR pass writes the address into the buffer before its length    *)
(* test: "0x" and hex for ctype 3, a bare copy for ctype 0.                *)
AddrInto(buf, r) == IF r.ctype = 0 THEN CopyInto(buf, r.n2) ELSE HexInto(buf, 3, r.n2)

Init ==
  /\ res \in Resources
  /\ pass = "uri"
  /\ i = 1
  /\ nin = [ k \in 1 .. NinSize |-> "u" ]
  /\ out = << >>

(* for (i = 0; i < res->record_count; i++): the end of a pass. *)
NextPass ==
  /\ pass \in { "uri", "magnet", "addr" }
  /\ i > Len(res)
  /\ pass' = CASE pass = "uri" -> "magnet" [] pass = "magnet" -> "addr" [] OTHER -> "done"
  /\ i' = 1
  /\ UNCHANGED << res, nin, out >>

(* First pass: every URI record, data_len = strlen(text), memcpy. *)
UriStep ==
  /\ pass = "uri" /\ i <= Len(res)
  /\ out' = IF res[i].type = "URI"
              THEN Append(out, [ dlen |-> res[i].n1, wrote |-> res[i].n1 ]) ELSE out
  /\ i' = i + 1
  /\ UNCHANGED << res, pass, nin >>

(* Second pass: a MAGNET that fits is hex-encoded into nin, then printed. *)
MagnetStep ==
  /\ pass = "magnet" /\ i <= Len(res)
  /\ LET r == res[i] IN
     IF r.type = "MAGNET" /\ MagnetLen(r) + 1 <= Cap
       THEN /\ nin' = HexInto(nin, 1, r.n2)
            /\ out' = Append(out, [ dlen |-> MagnetLen(r), wrote |-> MagnetLen(r) + 1 ])
       ELSE UNCHANGED << nin, out >>
  /\ i' = i + 1
  /\ UNCHANGED << res, pass >>

(* Third pass: an ADDR of ctype 0 or 3 is written into addr (= nin); if   *)
(* it fits, sprintf("%s:%s", currency, addr) prints up to addr's NUL.      *)
AddrStep ==
  /\ pass = "addr" /\ i <= Len(res)
  /\ LET r == res[i]
         buf == AddrInto(nin, r)
     IN  IF r.type = "ADDR" /\ r.ctype \in { 0, 3 }
           THEN /\ nin' = buf
                /\ IF AddrFits(r)
                     THEN \E e \in StrEnds(buf) :
                            out' = Append(out, [ dlen |-> AddrRecLen(r),
                                                 wrote |-> r.n1 + 1 + (e - 1) + 1 ])
                     ELSE UNCHANGED out
           ELSE UNCHANGED << nin, out >>
  /\ i' = i + 1
  /\ UNCHANGED << res, pass >>

(* The iteration that reaches hsk_dns_rr_create: a URI record, a MAGNET  *)
(* that fits, an ADDR of ctype 0 or 3 that fits.                           *)
CreatesRR(r) ==
  CASE pass = "uri"    -> r.type = "URI"
    [] pass = "magnet" -> r.type = "MAGNET" /\ MagnetLen(r) + 1 <= Cap
    [] OTHER           -> r.type = "ADDR" /\ r.ctype \in { 0, 3 } /\ AddrFits(r)

(* if (!rr) return false; -- in the ADDR pass after addr was written.     *)
RRCreateFails ==
  /\ AllocMayFail
  /\ pass \in { "uri", "magnet", "addr" } /\ i <= Len(res)
  /\ CreatesRR(res[i])
  /\ pass' = "failed"
  /\ nin' = IF pass = "addr" THEN AddrInto(nin, res[i]) ELSE nin
  /\ UNCHANGED << res, i, out >>

Next == NextPass \/ UriStep \/ MagnetStep \/ AddrStep \/ RRCreateFails

Spec == Init /\ [][Next]_vars

-----------------------------------------------------------------------------
UriRR == [ dlen : 0 .. Cap, wrote : Nat ]

TypeOK ==
  /\ pass \in { "uri", "magnet", "addr", "done", "failed" }
  /\ i \in 1 .. Len(res) + 1
  /\ nin \in [ 1 .. NinSize -> { "c", "z", "u" } ]
  /\ out \in Seq(UriRR)

(* Spec 4.5, URI, written without the builder's loops: the data_len of   *)
(* each URI RR, in the order the RRs are to be pushed.  First every URI    *)
(* record's text, then every MAGNET whose "magnet:?xt=urn:<nid>:<hex>",    *)
(* then every ADDR of ctype 0 or 3 whose "<currency>:<addr>" (addr the     *)
(* stored text or "0x" and the hex of the hash) fits rd->data with the NUL  *)
(* sprintf writes after it.                                                *)
FitsRData(len) == len < Cap
MagnetText(r) == MagnetFixed + r.n1 + 2 * r.n2
AddrText(r) == r.n1 + 1 + (IF r.ctype = 0 THEN r.n2 ELSE 2 + 2 * r.n2)
SpecUriLens(rs) ==
  LET uri == SelectSeq(rs, LAMBDA r : r.type = "URI")
      mag == SelectSeq(rs, LAMBDA r : r.type = "MAGNET" /\ FitsRData(MagnetText(r)))
      adr == SelectSeq(rs, LAMBDA r : r.type = "ADDR" /\ r.ctype \in { 0, 3 }
                                      /\ FitsRData(AddrText(r)))
  IN  [ k \in DOMAIN uri |-> uri[k].n1 ]
      \o [ k \in DOMAIN mag |-> MagnetText(mag[k]) ]
      \o [ k \in DOMAIN adr |-> AddrText(adr[k]) ]

(* Across the three passes and the early return of a failed              *)
(* hsk_dns_rr_create: the builder that returns true has pushed exactly the *)
(* URI RRs of spec 4.5, in that order and with those lengths; the builder  *)
(* that returns false has pushed a proper prefix of them, the RRs of the   *)
(* records it got through before the allocation failed.                    *)
UriOutput ==
  LET lens == [ k \in DOMAIN out |-> out[k].dlen ] IN
  /\ pass = "done" => lens = SpecUriLens(res)
  /\ pass = "failed" => IsStrictPrefix(lens, SpecUriLens(res))

(* Spec 4.5: an ADDR URI is the text "<currency>:<addr>" that the length *)
(* test at line 1174 found to fit in 255 bytes with its NUL.  sprintf      *)
(* prints addr up to its NUL, not up to addr_len, so what it stores into   *)
(* rd->data must still fit there.                                          *)
RDataWithinBuffer == \A k \in DOMAIN out : out[k].wrote <= Cap

=============================================================================
