# TLA+ models of hnsd's resource translation

This directory models `src/src/resource.c` and `src/include/hsk-resource.h`.
Together they turn a Handshake name resource into DNS messages. `resource.c`
has two halves:

1. **The decoder.** `hsk_resource_decode` (427-488) reads a version byte and
   then records until the bytes run out. Each record is handled by
   `hsk_record_read` (364-425), which calls `hsk_record_alloc` and a
   type-specific reader (`hsk_ds_record_read`, `hsk_ns_record_read`,
   `hsk_glue4/6_record_read`, `hsk_synth4/6_record_read`, `hsk_txt_record_read`
   via `hsk_resource_str_read`).
2. **The responders.** They build DNS messages from a decoded resource.
   - `hsk_resource_to_dns` (1563-1705) picks a referral when the name has more
     than one label, and otherwise an answer switched on the query type. It ends
     with the *empty-answer tail*: a CNAME, a delegation or an empty NSEC proof.
   - `hsk_resource_root` answers for the synthetic root zone.
   - `hsk_resource_to_nx`, `_to_servfail` and `_to_notimp` build the error
     answers.

   The responders call the *section builders* `hsk_resource_to_<x>` and
   `hsk_resource_root_to_<x>`. Each builder walks `res->records` and pushes RRs
   onto a section. The responders also call the DNSSEC signer
   (`hsk_dnssec_sign_zsk/ksk`). The signer, like `hsk_dns_msg_alloc`,
   `hsk_dns_rr_create` and `read_u8` / `read_bytes` / `hsk_dns_name_read`, is not
   under `src/`. Those functions are modelled from how resource.c uses them and
   are marked `spec_modelled` in PROJECT.json.
3. **The pointer codec.** `ip_size`, `ip_write`, `ip_read`, `ip_to_b32`,
   `b32_to_ip`, `pointer_to_ip`, `target_to_dns` and `hsk_resource_is_ptr`
   (1827-2018) turn addresses into `_<base32>.` labels and back.

The code is sequential: it has no threads, no callbacks and no persistence. What
is hard to test is therefore different:

- the many paths through the dispatcher, and how they combine with the record
  mix of a resource;
- what the decoder does with malformed input;
- what happens when an allocation fails half-way through a message;
- consistency *between* the answers to different queries about one resource.

## Modules

| module | models | state / actions |
|---|---|---|
| `HskRecord` | `hsk_resource_t` records; `hsk_resource_get/has/has_ns` | a record is a tag, its target kind, its host, and the flags some branch of the builders tests |
| `HskBuilders` | every `hsk_resource_to_*` builder, the root RR builders, `target_to_dns` | pure operators: the sequence of RRs a builder pushes when nothing fails |
| `HskDispatch` | `hsk_resource_to_dns`, `hsk_resource_root`, `_to_nx`, `_to_servfail`, `_to_notimp` | `res` is the decoded resource. `query` and `resp` hold the last call and its message. There is one action per responder (`ToDns`, `Root`, `ToNx`, `ToServfail`, `ToNotimp`), with the query name and type chosen by `\E`. |
| `HskDecode` | `hsk_resource_decode`, `hsk_record_alloc`, `hsk_record_read`, the record readers, `hsk_record_free`, `hsk_resource_free` | The variables are `input`, `dat` (the unread bytes), `pc` (including `"crashed"` for a write through NULL), `recs` (`res->records`), `live` (records allocated and not yet freed) and `oom` (a malloc has returned NULL). The actions are `ReadVersion`, `ReadRecord` (one loop iteration, covering the whole of `hsk_record_read` and the `goto fail` path), `Finish`, and, when `MallocMayFail` holds, `ResourceAllocFails` (the resource's malloc) and `RecordAllocFails` (a record's malloc, whose NULL `hsk_record_alloc` writes through at line 295). `ResourceFree` is the caller's `hsk_resource_free` of a resource the decoder returned (`pc = "freed"`). |
| `HskResolve` | the decoder feeding the responders | Instantiates `HskDecode` and `HskDispatch`. The dispatcher's `res` is the decoder's `recs`, each mapped by `AsRecord` to the record the builders read (a name whose read failed keeps the empty name `hsk_record_init` gave it). `Decode` runs the decoder; `Serve` answers queries once it returned true. |
| `HskPtr` | `ip_size`, `ip_write`, `ip_read`, `ip_to_b32`, `b32_to_ip`, `pointer_to_ip`, `hsk_resource_is_ptr`; the encoding calls in `hsk_resource_to_ns` (SYNTH) and `target_to_dns` (INET) | The codec is written as operators. `ip_size` is a `RECURSIVE` scan. The variables are `call` (the last call: kind, address, name) and `out` (its result). There is one action per caller: `SynthNs`, `TargetPtr` and `IsPtr`. Each behaviour makes one call, because the codec keeps no state between calls. |
| `HskUri` | `hsk_resource_to_uri`, one loop iteration per step | The variables are `res`, `pass` (URI, MAGNET, ADDR, then returned true or false), `i`, `nin` (the `nin[]`/`addr` stack buffer as cells: character, NUL, never written) and `out` (each pushed RR's `data_len` and the bytes `sprintf` stored). The actions are `UriStep`, `MagnetStep`, `AddrStep`, `NextPass` and `RRCreateFails`. |
| `MCHskDispatch`, `MCHskDecode`, `MCHskUri`, `MCHskResolve` | the models TLC checks | They define the record universe, the type tags, the well-formed encodings and the URI record shapes. |

**Responders** are written as lists of *steps* (`Push`, `SignZsk`, `SignKsk`,
`SetAA`) that appear in the code's order. `Run` folds a step list over a set of
messages.

- When `AllocMayFail` holds, a `Push` may keep any prefix of its RRs, because
  `hsk_dns_rr_create` returned NULL and the builder returned false. A signing
  call may then add nothing, and `hsk_dns_msg_alloc` may return NULL.
- The responders check none of these results, so the remaining steps still run.

**Pointer codec scaling.** An address has `IpLen = 6` bytes, standing for 16,
and an IPv4 address has `V4Len = 2`, standing for 4.
- The header byte `(start << 4) | len` becomes `start * IpLen + len`, which
  keeps its wrap-around for out-of-range values.
- base32 (not under `src/`) is reduced to the character count of its unpadded
  encoding and to the bytes it decodes to.
- Memory the code reads past what it wrote takes values from `Garbage`.
- Two constants select build variants: `Ptr32` (pointers of 4 bytes) and
  `NDEBUG` (the decode inside `assert()` is compiled out).

**URI scaling.** `Cap = 8` stands for the 255 of the length tests and of
`rd->data`, `nin` has `Cap + 1` cells, and `MagnetFixed = 2` stands for the 16
fixed characters of a magnet URI. Only lengths are kept, because the buffer
bug depends on lengths and NULs, not on which characters are stored.

**Record tags.** The record tags that `resource.c` uses (`HSK_GLUE4`,
`HSK_SYNTH6`, ...) come from a `resource.h` that is not in the repository.
`hsk-resource.h` defines the older tag set (`HSK_NS = 9`, no GLUE/SYNTH).

- The models therefore name tags by strings.
- The decoder takes the tag bytes as the constant `Tag`. The MC model uses hnsd's
  values `DS = 0 .. TEXT = 6`, so the range test of `hsk_resource_has_ns`
  (`HSK_NS .. HSK_SYNTH6`) covers NS, GLUE4, GLUE6, SYNTH4 and SYNTH6.
- The dispatcher's resources draw on every tag the builders scan for, because
  the builders are written for all of them. `hsk_record_alloc` allocates only
  the seven new tags, so a resource made by `hsk_resource_decode` today holds
  only DS, NS, GLUE, SYNTH and TEXT records.

**Query arguments.** `Answer` takes the query's kind, label count, type and
address family as scalars, and builds the `query` record itself. It does not
take a ready-made record, for a reason in TLC 2.19, not in the model:

- When an action is applied to constant arguments (as in `ToNx`), TLC evaluates
  a record argument once and shares it between its workers.
- Each worker then sorts that record's fields in place when it fingerprints a
  state. With two workers this fails now and then with "Field name ... occurs
  multiple times in record" or an index of -1.

Building the record inside the action gives each step a record of its own.

## Runs

| run | expect | what it shows |
|---|---|---|
| `dispatch_core` | pass | `TypeOK`. `ReferralNotAuthoritative`: no path that puts NS in authority with no answer sets AA. `SignedSections`: every answer and authority RRset has an RRSIG by the right key, except the NS set of a delegation that has DS. |
| `dispatch_nsec_consistent` | violation | `NsecConsistent`: the empty proof's NSEC has no bitmap, so it denies types that other queries of the same resource answer at the TLD. The code does what spec 4.6 item 2 and scenario 1 prescribe; both disagree with DNSSEC, under which a resolver that caches the NSEC rejects those answers. |
| `dispatch_aa` | violation | `AnswerIsAuthoritative` (spec P4, first half): a non-empty answer carries AA. A DELEGATE resource queried below the TLD gets a DNAME answer from the referral branch, which returns at line 1610, before the AA logic. |
| `decode_core` | pass | With both mallocs allowed to fail: `TypeOK`. `WellFormedRoundTrip`: the encoding of any list of up to two well-formed records decodes to that list unless a malloc returned NULL, while arbitrary inputs of up to 5 bytes over 9 byte values also run through the decoder. `LoopEnds`: the decode loop always returns, although a reader may consume nothing. |
| `resolve_ns_fqdn` | violation | `NsNameIsFqdn` (`HskResolve`): every NS RR built from a decoded resource names a host, as the `assert` at line 708 demands. TLC's trace decodes input `00 01` (version, NS tag, no name; `00 02`, a GLUE4 with no name, fails the same way): `hsk_record_read` drops the reader's failure (line 424) and keeps the zeroed name. An NS query for the TLD then reaches the assert with `""`. |
| `decode_leak` | violation | `NoLeakOnFailure`: the fail path frees with `record_count = 0`. |
| `decode_invalid_write` | violation | `NoInvalidWrite`: the decoder writes only through pointers it owns. TLC's shortest trace is a record malloc returning NULL, which `hsk_record_alloc` writes `r->type` through (line 295). The other way is `res->records[i]` past its slots: there is no bound check (line 472; the cap is scaled to 2 here). |
| `decode_text_printable` | violation | `TextPrintable`: bytes `0x80..0xff` pass the character test. |
| `ptr_core` | pass | `TypeOK` (every encoding fits the 29-character label bound). `IpSizeIsLongestZeroRun`: `ip_size` finds the first longest zero run, checked against a reference definition. `Synth6RoundTrip`: every SYNTH6 NS name decodes back to its address. |
| `ptr_roundtrip` | violation | `PointerRoundTrip`: the SYNTH4 name encodes 16 bytes read from the 4-byte `inet4` field, and `target_to_dns` encodes the `hsk_target_t` struct itself. Neither decodes to its address. |
| `uri_core` | pass | `TypeOK`. `UriOutput`: when the loop returns true it has pushed one RR per URI record, then per MAGNET record and per ADDR record (ctype 0 or 3) whose rendered text fits in 255 bytes, in that order and with the RDATA lengths spec 4.5 gives (the NID, the hex NIN and the fixed `magnet:?xt=urn:` text; the currency, `:` and the address); when an `hsk_dns_rr_create` failed it has pushed a strict prefix of that list. The reference list is computed from the records, not from the loop. |
| `uri_rdata_overflow` | violation | `RDataWithinBuffer`: `sprintf("%s:%s")` prints `addr` up to a NUL that a ctype-0 `memcpy` never wrote. It runs through uninitialized stack (TLC's trace) or the tail of an older, longer address, past the 255 bytes the length test allowed. |

Each property of a passing run has a mutant in PROJECT.json that a plausible
code slip would produce. Examples:
- a delegation setting AA;
- a CNAME answer left unsigned;
- the type byte peeked instead of consumed;
- the TAB/LF/CR exception dropped;
- `data[16]` instead of `data[17]`;
- the zero run at the end of an address left open;
- the all-zero reset dropped;
- the ADDR length test dropped;
- the NID left out of the MAGNET length;
- the loop never seeing its bytes run out;

TLC finds the property violated under each mutant.

**Further disagreements the models show.** These have no run of their own.
Each can be reproduced by a cfg that checks the named property.
- *32-bit builds:* `Synth6RoundTrip` with `Ptr32 = TRUE`. `sizeof(ip)` is the
  size of a pointer (line 1923), so every address is encoded from its first 4
  bytes.
- *NDEBUG builds:* with `NDEBUG = TRUE`, `b32_to_ip`'s decode inside `assert()`
  is compiled out, so `hsk_resource_is_ptr` parses an uninitialized buffer
  (line 1953) and may answer differently for the same label.
- *Non-canonical pointer labels:* `hsk_resource_is_ptr` accepts labels whose
  length disagrees with their header, because `b32_to_ip` never compares the
  decoded size with `1 + start + left` (line 1949).
- *The referral DNAME answer* (line 1596) is owned by the query name, not the
  TLD (its missing AA flag is the `dispatch_aa` run).
- *After an allocation failure* a half-built message is returned (line 1587),
  where spec 7 says the dispatcher returns nothing. `HskDispatch` models the
  failure (`AllocMayFail`), but no kept run sets it.

## Bounds

**Dispatcher.**
- One host, and resources of up to 2 records.
- Each record is drawn from one representative of every shape a branch tells
  apart: tag, target kind, which glue address is set, smtp-or-not, and fits or
  does not fit.
- 3 query names: the root, the TLD, and a name below it. Every handled query
  type, plus one unhandled type.
- Two records are enough to make every pair of branches meet: for example DS
  with NS (the DS-signed delegation), CANONICAL with NS (the tail order), and
  DELEGATE with GLUE (the referral choice).
- The run covers about 124k states in about 1 minute.

**Decoder.**
- Field widths are scaled: DS fixed part 1 byte, IPv4 1 byte, IPv6 2 bytes,
  digests of up to 1 byte.
- Arbitrary inputs have up to 5 bytes over `{0..7, 65}`. They include every tag,
  an unknown tag, label lengths that overrun, and a text byte.
- The well-formed encodings cover every record type with up to two records.
- Every reader path is reached: success, a truncated read after the type byte,
  a failure after a partial read, and an oversize digest.
- Both mallocs may fail at every step where the code calls them. The run
  covers 231k states in about 10 seconds.

**Decode then answer.**
- Inputs of up to 3 bytes over `{0, 1, 2, 6, 65}`. These include the version
  byte, the NS, GLUE4 and TEXT tags, and a letter. Every responder then
  answers every query of the dispatcher's model.
- The shortest bad input needs 2 bytes, and 3 bytes also give a GLUE4 whose
  name was read but whose address was not.

**Pointer codec.**
- Octets `{0, 1, 255}` give zero runs at every position and length, all-zero
  and no-zero addresses, and the `ff ff` of the v4-mapped prefix.
- `Garbage = {0, 35}` lets stack contents both look like a valid header and
  not.
- `is_ptr` names cover every header byte with payloads of every length the
  label bound allows, plus a label with no `_` and one that is too short.

**URI builder.**
- Resources of up to 3 records, drawn from 20 record shapes. Each length is
  on both sides of its test, with ctype 0, 3 and an unsupported ctype.
- Three records give a MAGNET before an ADDR, two ADDRs in either order of
  length, and a skipped ADDR before a kept one.

**Fairness.** `HskDecode`'s `Spec` has `WF_vars(DecodeStep)`:
  `hsk_resource_decode` is one C call that runs to its return, and no lock,
  I/O or other thread can keep an enabled iteration from being taken. The caller's `ResourceFree` gets no
  fairness, because the code does not promise the caller frees anything. `LoopEnds` then holds because each
  iteration consumes at least the type byte, even when the reader fails.
- `HskResolve` assumes no fairness. Queries come from the network, and no
  property of it is about progress.
- `HskUri` assumes none: its one property, `UriOutput`, is an invariant.
- The other passing properties are invariants.

## Not modelled

1. **Abstract specifications as separate modules.** The spec's P4-P5 are
   checked as invariants of `HskDispatch`, and what `hsk_resource_to_uri`
   promises as the invariant `UriOutput` of `HskUri`, against a reference list
   computed from the records. A one-step decoder, responder or URI builder
   that the code refines would compare no more than these invariants do (for
   the URI builder, only how many RRs were pushed), so none is kept.
2. **DNS name compression.** `hsk_dns_name_read` is not under `src/`. The
   decoder reads uncompressed names only, so inputs with compression pointers
   are outside the model.
3. **The pointer codec's decoding direction as a caller.** `pointer_to_ip` is
   only called by `hsk_resource_is_ptr`, with `ip = NULL`. The round-trip
   properties call it with an output address, as spec P1 describes.
4. **Left out on purpose.**
   - `hsk_resource_to_srv`: it has no caller.
   - `hsk_resource_to_srvip`: it is called but not defined in `src/`. It is
     modelled like `hsk_resource_to_nsip`.
   - `to_fqdn`: it has no caller.
   - TTLs, addresses, digests and text contents are copied verbatim, and no
     branch tells them apart.
5. **Beyond these, nothing more of `src/` is left to model.** What remains
   partly modelled is partly modelled because the code it calls is not under
   `src/`. That code is the DNS message, RR, DNSSEC, base32 and name codecs,
   and it is modelled from its use. The other reason is one builder with no
   caller (`hsk_resource_to_srv`).
