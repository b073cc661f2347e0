----------------------------- MODULE HskDecode -----------------------------
(***************************************************************************)
(* hsk_resource_decode (src/src/resource.c:427-488) and the record         *)
(* readers it calls, over a byte string.  One step reads the version, one  *)
(* step per iteration of the `while (data_len > 0)` loop reads a record.   *)
(*                                                                         *)
(* The readers advance the cursor only as far as the primitive reads that  *)
(* succeed (read_u8, read_bytes, slice_bytes and hsk_dns_name_read leave   *)
(* it alone when they fail), and hsk_record_read stores the record and     *)
(* returns true whatever the reader returned.                              *)
(*                                                                         *)
(* Field widths are constants: the code's are DSFixed = 4 (key tag,        *)
(* algorithm, digest type), Inet4Size = 4, Inet6Size = 16, MaxDigest = 64, *)
(* RecordCap = 255 (hsk_resource_t.records).                               *)
(***************************************************************************)
EXTENDS Naturals, Sequences, SequencesExt

CONSTANTS
  Bytes,       \* the byte values inputs are made of
  MaxLen,      \* longest input
  Tag,         \* Tag[t]: the type byte of record type t (include/resource.h)
  DSFixed,     \* bytes of a DS record before its digest size byte
  Inet4Size,   \* bytes of an IPv4 address
  Inet6Size,   \* bytes of an IPv6 address
  MaxDigest,   \* largest DS digest
  RecordCap,   \* slots of res->records
  Encodings,   \* well-formed record lists whose encodings are inputs too
  MallocMayFail  \* whether malloc may return NULL

DecodedTypes == { "DS", "NS", "GLUE4", "GLUE6", "SYNTH4", "SYNTH6", "TEXT" }

ASSUME Tag \in [ DecodedTypes -> 0 .. 255 ]

VARIABLES
  input,    \* the bytes handed to hsk_resource_decode
  source,   \* {rs} when input encodes the record list rs, {} for arbitrary bytes
  dat,      \* the bytes not yet read (dat / data_len)
  pc,       \* "version", "loop", "done", "fail", "crashed" (a write through NULL),
            \* or "freed" (the caller freed the decoded resource)
  recs,     \* res->records[0 .. i-1]
  live,     \* records allocated and not freed
  oom       \* whether a malloc has returned NULL

vars == << input, source, dat, pc, recs, live, oom >>

(* Mutant: the character test without the TAB / LF / CR exception. *)
TextCharNoControl(ch) == ch # 127 /\ ch >= 32

(* hsk_resource_str_read's character test (resource.c:160-177). *)
TextChar(ch) == ch # 127 /\ (ch >= 32 \/ ch \in { 9, 10, 13 })

(* A reader's outcome: its result and how far it moved the cursor. *)
Read(ok, adv) == [ adv |-> adv, ok |-> ok ]

(* read_bytes / slice_bytes of n bytes. *)
ReadN(d, n) == IF Len(d) >= n THEN Read(TRUE, n) ELSE Read(FALSE, 0)

(* hsk_dns_name_read, without compression pointers: labels of 1 .. 63     *)
(* bytes, each after its length byte, up to a zero byte.  Returns the      *)
(* length of the wire name, 0 when it does not parse.                      *)
RECURSIVE NameEnd(_, _)
NameEnd(d, p) ==
  IF p > Len(d) THEN 0
  ELSE IF d[p] = 0 THEN p
  ELSE IF d[p] > 63 THEN 0
  ELSE NameEnd(d, p + d[p] + 1)

hsk_dns_name_read(d) ==
  IF NameEnd(d, 1) = 0 THEN Read(FALSE, 0) ELSE Read(TRUE, NameEnd(d, 1))

(* A read of r followed by one of width n, from where r left the cursor. *)
Then(d, r, n) ==
  IF ~r.ok THEN r
  ELSE LET s == ReadN(SubSeq(d, r.adv + 1, Len(d)), n)
       IN  Read(s.ok, r.adv + s.adv)

hsk_ds_record_read(d) ==
  IF Len(d) < DSFixed + 1 THEN Read(FALSE, 0)
  ELSE LET size == d[DSFixed + 1] IN
       IF size > MaxDigest THEN Read(FALSE, DSFixed + 1)
       ELSE Then(d, Read(TRUE, DSFixed + 1), size)

hsk_resource_str_read(d) ==
  IF Len(d) = 0 THEN Read(FALSE, 0)
  ELSE IF Len(d) - 1 < d[1] THEN Read(FALSE, 1)
  ELSE IF \E i \in 2 .. d[1] + 1 : ~TextChar(d[i]) THEN Read(FALSE, 1 + d[1])
  ELSE Read(TRUE, 1 + d[1])

hsk_synth4_record_read(d) == ReadN(d, Inet4Size)
hsk_synth6_record_read(d) == ReadN(d, Inet6Size)

(* hsk_record_read's switch (resource.c:379-420). *)
RecordRead(t, d) ==
  CASE t = "DS"     -> hsk_ds_record_read(d)
    [] t = "NS"     -> hsk_dns_name_read(d)
    [] t = "GLUE4"  -> Then(d, hsk_dns_name_read(d), Inet4Size)
    [] t = "GLUE6"  -> Then(d, hsk_dns_name_read(d), Inet6Size)
    [] t = "SYNTH4" -> hsk_synth4_record_read(d)
    [] t = "SYNTH6" -> hsk_synth6_record_read(d)
    [] t = "TEXT"   -> hsk_resource_str_read(d)

TypeOf(b) == CHOOSE t \in DecodedTypes : Tag[t] = b

(* Mutant: the type byte is peeked at, not consumed. *)
PeekU8(d) == [ b |-> Head(d), rest |-> d ]

(* read_u8 of the record type (resource.c:464). *)
ReadU8(d) == [ b |-> Head(d), rest |-> Tail(d) ]

(* The stored record: its type, whether its reader succeeded, and the     *)
(* bytes its reader consumed.                                              *)
Rec(t, ok, body) == [ body |-> body, ok |-> ok, type |-> t ]

(* The reference encoding of a record list: version 0, then each record's *)
(* type byte and body.                                                     *)
Encode(rs) ==
  << 0 >> \o FlattenSeq([ i \in DOMAIN rs |-> << Tag[rs[i].type] >> \o rs[i].body ])

-----------------------------------------------------------------------------

Init ==
  /\ \/ \E rs \in Encodings : input = Encode(rs) /\ source = {rs}
     \/ input \in BoundedSeq(Bytes, MaxLen) /\ source = {}
  /\ dat = input
  /\ pc = "version"
  /\ recs = << >>
  /\ live = 0
  /\ oom = FALSE

(* malloc of the hsk_resource_t returns NULL: goto fail, and             *)
(* hsk_resource_free(NULL) returns at once.                                *)
ResourceAllocFails ==
  /\ MallocMayFail
  /\ pc = "version"
  /\ pc' = "fail"
  /\ oom' = TRUE
  /\ UNCHANGED << input, source, dat, recs, live >>

(* read_u8 of the version; only version 0 is accepted. *)
ReadVersion ==
  /\ pc = "version"
  /\ pc' = IF dat # << >> /\ Head(dat) = 0 THEN "loop" ELSE "fail"
  /\ dat' = IF dat # << >> THEN Tail(dat) ELSE dat
  /\ UNCHANGED << input, source, recs, live, oom >>

(* One iteration: read the type byte, allocate the record (NULL for an    *)
(* unknown type, which fails the decode), run its reader, store it.  On    *)
(* failure hsk_resource_free frees record_count = 0 records.               *)
ReadRecord ==
  /\ pc = "loop"
  /\ dat # << >>
  /\ LET b == ReadU8(dat).b
         d == ReadU8(dat).rest
     IN  IF b \notin Range(Tag)
           THEN /\ pc' = "fail"
                /\ dat' = d
                /\ UNCHANGED << recs, live >>
           ELSE LET t == TypeOf(b)
                    r == RecordRead(t, d)
                IN  /\ recs' = Append(recs, Rec(t, r.ok, SubSeq(d, 1, r.adv)))
                    /\ live' = live + 1
                    /\ dat' = SubSeq(d, r.adv + 1, Len(d))
                    /\ UNCHANGED pc
  /\ UNCHANGED << input, source, oom >>

(* hsk_record_alloc's malloc returns NULL for a known type: it stores     *)
(* r->type through the NULL pointer before anyone tests it.                *)
RecordAllocFails ==
  /\ MallocMayFail
  /\ pc = "loop"
  /\ dat # << >>
  /\ ReadU8(dat).b \in Range(Tag)
  /\ pc' = "crashed"
  /\ oom' = TRUE
  /\ dat' = ReadU8(dat).rest
  /\ UNCHANGED << input, source, recs, live >>

(* Mutant: the loop test never sees the bytes run out. *)
FinishNever ==
  /\ pc = "loop"
  /\ Len(dat) < 0
  /\ pc' = "done"
  /\ UNCHANGED << input, source, dat, recs, live, oom >>

(* The loop ends when the bytes run out: record_count = i. *)
Finish ==
  /\ pc = "loop"
  /\ dat = << >>
  /\ pc' = "done"
  /\ UNCHANGED << input, source, dat, recs, live, oom >>

(* The types hsk_record_free's switch frees (lines 306-341); any other    *)
(* type falls into the default case and is not freed.                     *)
RecordFreeTypes == { "DS", "NS", "GLUE4", "GLUE6", "SYNTH4", "SYNTH6", "TEXT" }

(* The caller frees a resource the decoder returned: hsk_resource_free    *)
(* calls hsk_record_free on records[0 .. record_count-1], then frees res.  *)
ResourceFree ==
  /\ pc = "done"
  /\ pc' = "freed"
  /\ live' = live - Len(SelectSeq(recs, LAMBDA r : r.type \in RecordFreeTypes))
  /\ UNCHANGED << input, source, dat, recs, oom >>

DecodeStep == ReadVersion \/ ResourceAllocFails \/ ReadRecord \/ RecordAllocFails \/ Finish

Next == DecodeStep \/ ResourceFree

(* hsk_resource_decode is one C call: nothing it waits on can keep an     *)
(* enabled step from being taken.  Whether the caller ever frees the      *)
(* resource is up to the caller, so ResourceFree gets no fairness.         *)
Spec == Init /\ [][Next]_vars /\ WF_vars(DecodeStep)

-----------------------------------------------------------------------------
(* Properties *)

TypeOK ==
  /\ input \in Seq(0 .. 255)
  /\ dat \in Seq(0 .. 255)
  /\ IsSuffix(dat, input)
  /\ pc \in { "version", "loop", "done", "fail", "crashed", "freed" }
  /\ oom \in BOOLEAN
  /\ \A i \in DOMAIN recs : recs[i].type \in DecodedTypes /\ recs[i].ok \in BOOLEAN
  /\ live \in Nat
  \* every stored record consumed at least its type byte
  /\ Len(recs) <= Len(input)

(* Spec P2 on well-formed input: the encoding of a record list decodes,    *)
(* every reader taking exactly its record's bytes, to that record list.    *)
(* A well-formed encoding is only ever refused when memory runs out.       *)
WellFormedRoundTrip ==
  \A rs \in source : /\ (pc \in { "fail", "crashed" } => oom)
                      /\ (pc = "done" => recs = rs)

(* The `while (data_len > 0)` loop ends on every input: each iteration    *)
(* consumes at least its type byte, whatever the reader does.              *)
LoopEnds == <>(pc \in { "done", "fail", "crashed" })

(* Spec 4.2 / 7: a failed decode leaves nothing behind; every record it   *)
(* allocated is freed.                                                     *)
NoLeakOnFailure == pc = "fail" => live = 0

(* Spec 3 and 7: decoding writes only memory it owns.  hsk_resource_decode *)
(* stores record pointers only into the 255 slots of res->records, and     *)
(* hsk_record_alloc writes r->type only through a pointer malloc returned, *)
(* not NULL.                                                               *)
NoInvalidWrite == pc # "crashed" /\ Len(recs) <= RecordCap

(* Spec 3: every text field holds printable ASCII (0x20 .. 0x7e) or TAB,  *)
(* LF, CR.                                                                 *)
TextPrintable ==
  pc = "done" =>
    \A i \in DOMAIN recs :
      recs[i].type = "TEXT" /\ recs[i].ok =>
        \A j \in 2 .. Len(recs[i].body) :
          recs[i].body[j] \in (32 .. 126) \cup { 9, 10, 13 }

=============================================================================
