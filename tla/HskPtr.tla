------------------------------- MODULE HskPtr -------------------------------
(***************************************************************************)
(* The pointer codec of src/src/resource.c (1839-2019): an address packed  *)
(* by run-of-zeros compression (ip_size, ip_write, ip_read), carried in a  *)
(* DNS label "_<base32hex>" (ip_to_b32, b32_to_ip, pointer_to_ip) and      *)
(* recognised by hsk_resource_is_ptr.  The calls that make such labels     *)
(* are the SYNTH branch of hsk_resource_to_ns (693-705) and target_to_dns  *)
(* for INET targets (1997-2010), reached from hsk_resource_to_nsip.        *)
(*                                                                         *)
(* Widths are scaled: IpLen stands for the 16 bytes of an address, V4Len   *)
(* for the 4 of an IPv4 one, and the header byte (start << 4) | len packs  *)
(* its two fields in base IpLen, so that a run as long as the address      *)
(* spills into the start field exactly as len = 16 spills into bit 4.      *)
(*                                                                         *)
(* A label is its length in base32 characters and the bytes it decodes to *)
(* (hsk_base32_*, not under src/: unpadded, 5 bits per character).         *)
(* Memory the code reads without having written it is any of Garbage.     *)
(***************************************************************************)
EXTENDS Naturals, Sequences, FiniteSets

CONSTANTS
  IpLen,     \* bytes of an address (16)
  V4Len,     \* bytes of an IPv4 address (4)
  Octets,    \* address byte values
  Garbage,   \* values uninitialised or out-of-bounds memory may hold
  Ptr32,     \* sizeof(const uint8_t *) = 4, as on a 32-bit build
  NDEBUG     \* assert() compiled out

ASSUME IpLen > V4Len + 2 /\ V4Len > 0

(* hsk-resource.h: target->type of an INET4 / INET6 target. *)
HSK_INET4 == 1
HSK_INET6 == 2

MaxDataShort == IpLen                      \* mutant: uint8_t data[16]
MaxData == IpLen + 1                       \* uint8_t data[17]
B32Len(n) == (8 * n + 4) \div 5            \* hsk_base32_encode_hex_size, unpadded
B32DecodeSize(c) == (5 * c) \div 8         \* hsk_base32_decode_hex_size
MaxLabel == 1 + B32Len(MaxData)            \* the 29 of pointer_to_ip

Zeros(n) == [ i \in 1 .. n |-> 0 ]

(* The IPv4-mapped prefix ::ffff: (ten zero bytes, then 0xff 0xff). *)
V4Prefix == [ i \in 1 .. IpLen - V4Len |-> IF i > IpLen - V4Len - 2 THEN 255 ELSE 0 ]

-----------------------------------------------------------------------------
(* ip_size: the loop over the address, C index i = 0 .. IpLen - 1.  out   *)
(* is whether the scan is outside a zero run, last where the current run  *)
(* (or gap) began, [start, start + len) the longest run closed so far.    *)

ScanInit == [ last |-> 0, len |-> 0, out |-> TRUE, start |-> 0 ]

(* Close the run that began at st.last when it ends at i. *)
CloseAt(st, i) ==
  IF ~st.out /\ i - st.last > st.len
    THEN [ st EXCEPT !.start = st.last, !.len = i - st.last ] ELSE st

RECURSIVE ZeroScan(_, _, _)
ZeroScan(ip, i, st) ==
  IF i = IpLen THEN st
  ELSE ZeroScan(ip, i + 1,
         IF st.out = (ip[i + 1] = 0)
           THEN [ CloseAt(st, i) EXCEPT !.out = ~st.out, !.last = i ]
           ELSE st)

(* Mutant: the run still open at the end of the address is not closed. *)
CloseTailDropped(st) == st

(* The check after the loop, for a run that reaches the last byte. *)
CloseTail(st) == CloseAt(st, IpLen)

(* Mutant: an all-zero address keeps len = IpLen. *)
IpSizeNoReset(ip) ==
  LET st == CloseTail(ZeroScan(ip, 0, ScanInit)) IN [ len |-> st.len, start |-> st.start ]

ip_size(ip) ==
  LET st == CloseTail(ZeroScan(ip, 0, ScanInit))
  IN  IF st.len = IpLen THEN [ len |-> 0, start |-> 0 ]
                        ELSE [ len |-> st.len, start |-> st.start ]

(* Header byte, the bytes before the run, the bytes after it. *)
ip_write(ip) ==
  LET z == ip_size(ip)
  IN  << z.start * IpLen + z.len >> \o SubSeq(ip, 1, z.start)
        \o SubSeq(ip, z.start + z.len + 1, IpLen)

Fail == [ family |-> "none", ip |-> << >>, ok |-> FALSE ]

(* ip_read of the 17-byte buffer buf; with wantIp FALSE (ip = NULL) it     *)
(* reads only the header.                                                  *)
ip_read(buf, wantIp) ==
  LET start == buf[1] \div IpLen
      len   == buf[1] % IpLen
      left  == IpLen - (start + len)
  IN  IF start + len > IpLen THEN Fail
      ELSE [ family |-> "none",
             ip |-> IF wantIp
                      THEN SubSeq(buf, 2, 1 + start) \o Zeros(len)
                             \o SubSeq(buf, 2 + start, 1 + start + left)
                      ELSE << >>,
             ok |-> TRUE ]

(* ip_to_b32 of the IpLen bytes at the pointer it is given: the family is *)
(* sizeof(ip), the size of a pointer, not of the address.                  *)
ip_to_b32(mem) ==
  LET mapped == IF Ptr32 THEN V4Prefix \o SubSeq(mem, 1, V4Len) ELSE SubSeq(mem, 1, IpLen)
      data   == ip_write(mapped)
  IN  [ bytes |-> data, chars |-> B32Len(Len(data)) ]

(* The data buffer after the decode: the decoded bytes, then whatever the  *)
(* stack held; all of it stack contents when NDEBUG drops the decode       *)
(* together with its assert().                                             *)
Buffers(bytes) ==
  IF NDEBUG THEN [ 1 .. MaxData -> Garbage ]
  ELSE { bytes \o g : g \in [ 1 .. MaxData - Len(bytes) -> Garbage ] }

(* The v4-mapped test after ip_read. *)
Unmap(r) ==
  IF ~r.ok \/ r.ip = << >> THEN r
  ELSE IF SubSeq(r.ip, 1, IpLen - V4Len) = V4Prefix
         THEN [ r EXCEPT !.ip = SubSeq(r.ip, IpLen - V4Len + 1, IpLen), !.family = "A" ]
         ELSE [ r EXCEPT !.family = "AAAA" ]

(* The results b32_to_ip may return. *)
b32_to_ip(label, wantIp) ==
  LET size == B32DecodeSize(label.chars) IN
  IF size = 0 \/ size > MaxData THEN {Fail}
  ELSE { Unmap(ip_read(buf, wantIp)) : buf \in Buffers(label.bytes) }

(* A first label: whether it starts with '_', the base32 text after it. *)
pointer_to_ip(name, wantIp) ==
  LET len == (IF name.under THEN 1 ELSE 0) + name.chars IN
  IF len < 2 \/ len > MaxLabel \/ ~name.under THEN {Fail}
  ELSE b32_to_ip(name, wantIp)

hsk_resource_is_ptr(name) == { r.ok : r \in pointer_to_ip(name, FALSE) }

(* sprintf(host, "_%s...", b32): the first label of the pointer name. *)
PtrLabel(b32) == [ bytes |-> b32.bytes, chars |-> b32.chars, under |-> TRUE ]

(* What ip_to_b32 reads at the pointer each caller passes.                 *)
(* SYNTH4: c->inet4 and the IpLen - V4Len bytes past the record.           *)
(* SYNTH6: c->inet6.                                                       *)
(* INET target: the hsk_target_t itself, its type byte then its name.      *)
Synth4Memory(a) == { a \o g : g \in [ 1 .. IpLen - V4Len -> Garbage ] }
Synth6Memory(a) == { a }
TargetMemory(kind) ==
  { << IF kind = "INET4" THEN HSK_INET4 ELSE HSK_INET6 >> \o g :
      g \in [ 1 .. IpLen - 1 -> Garbage ] }

-----------------------------------------------------------------------------
(* The calls, one at a time: the last call and what it produced. *)

VARIABLES
  call,   \* [kind, addr, name] of the last call
  out     \* the pointer label it built, or is_ptr's answer

vars == << call, out >>

Addrs(n) == [ 1 .. n -> Octets ]

(* First labels of query names handed to hsk_resource_is_ptr: every       *)
(* header byte and payloads over {0, 1}, for every base32 length up to one *)
(* past the limit, and one label without the underscore.                   *)
Headers == 0 .. IpLen * IpLen - 1
PtrNames ==
  UNION { { [ bytes |-> << h >> \o p, chars |-> c, under |-> TRUE ] :
              h \in Headers, p \in [ 1 .. B32DecodeSize(c) - 1 -> {0, 1} ] } :
            c \in 2 .. MaxLabel }
  \cup { [ bytes |-> << >>, chars |-> 1, under |-> TRUE ],
         [ bytes |-> << 0 >>, chars |-> 2, under |-> FALSE ] }

NoName == [ bytes |-> << >>, chars |-> 0, under |-> FALSE ]
Call(k, a, n) == [ addr |-> a, kind |-> k, name |-> n ]

Init ==
  /\ call = Call("none", << >>, NoName)
  /\ out = NoName

(* hsk_resource_to_ns, SYNTH4 / SYNTH6 record: the NS name "_<b32>._synth.". *)
SynthNs(k, a) ==
  \E mem \in (IF k = "synth4" THEN Synth4Memory(a) ELSE Synth6Memory(a)) :
    /\ call' = Call(k, a, NoName)
    /\ out' = PtrLabel(ip_to_b32(mem))

(* target_to_dns for an INET4 / INET6 target (via hsk_resource_to_nsip):  *)
(* ip_to_b32(target, b32), then "_<b32>.<tld>.".                           *)
TargetPtr(k, a) ==
  \E mem \in TargetMemory(IF k = "target4" THEN "INET4" ELSE "INET6") :
    /\ call' = Call(k, a, NoName)
    /\ out' = PtrLabel(ip_to_b32(mem))

IsPtr(n) ==
  \E r \in hsk_resource_is_ptr(n) :
    /\ call' = Call("is_ptr", << >>, n)
    /\ out' = r

(* The codec keeps no state between calls: a behaviour is one call. *)
Next ==
  /\ call.kind = "none"
  /\ \/ \E a \in Addrs(V4Len) : SynthNs("synth4", a) \/ TargetPtr("target4", a)
     \/ \E a \in Addrs(IpLen) : SynthNs("synth6", a) \/ TargetPtr("target6", a)
     \/ \E n \in PtrNames : IsPtr(n)

Spec == Init /\ [][Next]_vars

-----------------------------------------------------------------------------
(* Properties *)

TypeOK ==
  /\ call.kind \in { "none", "synth4", "synth6", "target4", "target6", "is_ptr" }
  /\ call.kind = "is_ptr" => out \in BOOLEAN
  /\ call.kind \notin { "none", "is_ptr" } =>
       /\ out.under
       /\ 1 + out.chars <= MaxLabel
       /\ Len(out.bytes) = B32DecodeSize(out.chars)

(* The reference: the first of the longest zero runs, none for an all-zero *)
(* address (spec 4.3: start = 0, len = 0).                                 *)
ZeroRuns(ip) ==
  { r \in [ start : 0 .. IpLen - 1, len : 1 .. IpLen ] :
      /\ r.start + r.len <= IpLen
      /\ \A i \in r.start + 1 .. r.start + r.len : ip[i] = 0
      /\ r.start = 0 \/ ip[r.start] # 0
      /\ r.start + r.len = IpLen \/ ip[r.start + r.len + 1] # 0 }
FirstLongestZeroRun(ip) ==
  LET R == ZeroRuns(ip)
      best == CHOOSE r \in R : \A q \in R : q.len < r.len \/ (q.len = r.len /\ q.start >= r.start)
  IN  IF R = {} \/ best.len = IpLen THEN [ len |-> 0, start |-> 0 ]
      ELSE [ len |-> best.len, start |-> best.start ]

(* The address a call meant to encode, as b32_to_ip should report it. *)
Expected(c) ==
  IF c.kind \in { "synth4", "target4" }
    THEN [ family |-> "A", ip |-> c.addr, ok |-> TRUE ]
    ELSE Unmap([ family |-> "none", ip |-> c.addr, ok |-> TRUE ])

(* The pointer label a call built decodes, and only decodes, to its address. *)
RoundTrips == pointer_to_ip(out, TRUE) = { Expected(call) }

(* ip_size, the loop of resource.c:1848-1871, finds the first longest run  *)
(* of zero bytes of every address, as the reference definition does.       *)
IpSizeIsLongestZeroRun ==
  call.kind = "synth6" => ip_size(call.addr) = FirstLongestZeroRun(call.addr)

(* Spec P1 for the NS names of SYNTH6 records: decoding the "_<b32>" label *)
(* that hsk_resource_to_ns builds gives back the record's address.         *)
Synth6RoundTrip == call.kind = "synth6" => RoundTrips

(* Spec P1, example 4 and 4.4: every pointer name the code builds -- the  *)
(* NS name of a SYNTH4 or SYNTH6 record (hsk_resource_to_ns) and the name *)
(* target_to_dns gives an INET4 or INET6 target -- decodes to the address *)
(* it was built from, with the family of that address.                     *)
PointerRoundTrip ==
  call.kind \in { "synth4", "synth6", "target4", "target6" } => RoundTrips

=============================================================================
