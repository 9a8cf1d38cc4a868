--------------------------- MODULE Advertisement ---------------------------
(***************************************************************************)
(* parse_advertisement (bleconn.py): a scanResult body, with its list of   *)
(* advertising data structures, becomes an Advertisement.  One step is one *)
(* iteration of its loop.  The result is compared with a definition of     *)
(* what each field should be that does not look at how it was computed.    *)
(*                                                                         *)
(* A value is the sequence of its bytes, BadHex when it is no hexadecimal  *)
(* string and NoString when it is no string at all.  Texts stay bytes.     *)
(***************************************************************************)
EXTENDS Integers, SequencesExt

CONSTANTS
  Bodies,              \* the scanResult bodies to parse
  None, BadHex, NoString

Octets == Seq(0..255)

\* Both come out of a JSON text: any type may be missing, or be one unknown.
ASSUME BodiesAssumption ==
  \A b \in Bodies : b.data \in Seq([type : {None} \cup Nat, value : {BadHex, NoString} \cup Octets])

VARIABLES
  body,    \* [mac: characters left of addr.mac, or None; data: structures]
  i,       \* structures done
  adv,     \* the Advertisement
  status,  \* "loop", "fromkeys", "done", "malformed" (None is returned), "raised"
  kept, k  \* the keys dict.fromkeys() has so far, and how many UUIDs it has seen

vars == <<body, i, adv, status, kept, k>>

Bytes(v) == v \notin {BadHex, NoString}

-----------------------------------------------------------------------------
(* UUIDs and numbers *)

\* _UUID_BASE, as bytes.
UUID_BASE == <<0, 0, 16, 0, 128, 0, 0, 128, 95, 155, 52, 251>>

\* All UUIDs are 128 bits, big-endian; on the air they are little-endian and
\* the short ones leave out the base.
u16_uuid(b) == <<0, 0>> \o Reverse(b) \o UUID_BASE

\* (Mutant: the zeros of the 16-bit form.)
u32_uuidPadded(b) == <<0, 0>> \o Reverse(b) \o UUID_BASE

u32_uuid(b) == Reverse(b) \o UUID_BASE

u128_uuid(b) == Reverse(b)

Uuid(w, b) == IF w = 2 THEN u16_uuid(b) ELSE IF w = 4 THEN u32_uuid(b) ELSE u128_uuid(b)

Company(b) == b[1] + 256 * b[2]

SignedByte(b) == IF b < 128 THEN b ELSE b - 256

\* The width of the UUIDs in a structure of type t: in a list, or before data.
ListWidth(t) == IF t \in {2, 3} THEN 2 ELSE IF t \in {4, 5} THEN 4
                ELSE IF t \in {6, 7} THEN 16 ELSE 0
DataWidth(t) == IF t = 22 THEN 2 ELSE IF t = 32 THEN 4 ELSE IF t = 33 THEN 16 ELSE 0

\* (Mutant: the incomplete UUID at the end is kept.)
ChunksPartial(v, w) ==
  [n \in 1..((Len(v) + w - 1) \div w) |-> SubSeq(v, w * (n - 1) + 1, w * n)]

\* The complete UUIDs of width w in v.
Chunks(v, w) == [n \in 1..(Len(v) \div w) |-> SubSeq(v, w * (n - 1) + 1, w * n)]

-----------------------------------------------------------------------------
(* The loop *)

Empty == <<>>   \* also the empty dict

\* (Mutant: the first value stays.)
StoreFirst(dict, key, value) ==
  IF key \in DOMAIN dict THEN dict
  ELSE [x \in DOMAIN dict \cup {key} |-> IF x = key THEN value ELSE dict[x]]

Store(dict, key, value) ==
  [x \in DOMAIN dict \cup {key} |-> IF x = key THEN value ELSE dict[x]]

\* (Mutant: only a repetition right after is dropped.)
KeyRuns(keys, u) == IF keys # <<>> /\ Last(keys) = u THEN keys ELSE Append(keys, u)

\* A dict keeps its keys in the order in which they were first seen.
Key(keys, u) == IF u \in Range(keys) THEN keys ELSE Append(keys, u)

Init ==
  /\ body \in Bodies
  /\ i = 0
  /\ adv = [name |-> None, uuids |-> <<>>, tx |-> None, sdata |-> Empty, mdata |-> Empty]
  /\ status = IF body.mac = 12 THEN "loop" ELSE "malformed"
  /\ kept = <<>> /\ k = 0

\* What a structure of type t with the bytes v does to the result.
Parsed(t, v) ==
  LET lw == ListWidth(t)
      dw == DataWidth(t) IN
  IF t \in {8, 9} THEN [adv EXCEPT !.name = v]
  ELSE IF lw # 0 THEN
    [adv EXCEPT !.uuids = @ \o [n \in 1..Len(Chunks(v, lw)) |-> Uuid(lw, Chunks(v, lw)[n])]]
  ELSE IF t = 10 /\ v # <<>> THEN [adv EXCEPT !.tx = SignedByte(v[1])]
  ELSE IF dw # 0 /\ Len(v) >= dw THEN
    [adv EXCEPT !.sdata = Store(@, Uuid(dw, SubSeq(v, 1, dw)), SubSeq(v, dw + 1, Len(v)))]
  ELSE IF t = 255 /\ Len(v) >= 2 THEN
    [adv EXCEPT !.mdata = Store(@, Company(v), SubSeq(v, 3, Len(v)))]
  ELSE adv

Structure ==
  /\ status = "loop" /\ i < Len(body.data)
  /\ LET ad == body.data[i + 1] IN
     \/ Bytes(ad.value) /\ adv' = Parsed(ad.type, ad.value) /\ UNCHANGED status
     \/ ad.value = BadHex /\ UNCHANGED <<adv, status>>
     \/ ad.value = NoString /\ status' = "raised" /\ UNCHANGED adv
  /\ i' = i + 1
  /\ UNCHANGED <<body, kept, k>>

\* After the last structure, list(dict.fromkeys(adv.service_uuids)), one UUID
\* at a time.
Structured ==
  /\ status = "loop" /\ i = Len(body.data)
  /\ status' = IF adv.uuids = <<>> THEN "done" ELSE "fromkeys"
  /\ UNCHANGED <<body, i, adv, kept, k>>

FromKeys ==
  /\ status = "fromkeys" /\ k < Len(adv.uuids)
  /\ kept' = Key(kept, adv.uuids[k + 1])
  /\ k' = k + 1
  /\ UNCHANGED <<body, i, adv, status>>

Return ==
  /\ status = "fromkeys" /\ k = Len(adv.uuids)
  /\ status' = "done"
  /\ adv' = [adv EXCEPT !.uuids = kept]
  /\ UNCHANGED <<body, i, kept, k>>

Terminated == status \in {"done", "malformed", "raised"} /\ UNCHANGED vars

Next == Structure \/ Structured \/ FromKeys \/ Return \/ Terminated

Spec == Init /\ [][Next]_vars

-----------------------------------------------------------------------------
(* Properties *)

Uuid128 == [1..16 -> 0..255]

\* Every field has its type; the dict's keys are 128 bits wide, too.
TypeOK ==
  /\ i \in 0..Len(body.data) /\ k \in Nat
  /\ status \in {"loop", "fromkeys", "done", "malformed", "raised"}
  /\ adv.uuids \in Seq(Uuid128) /\ kept \in Seq(Uuid128)
  /\ DOMAIN adv.sdata \subseteq Uuid128
  /\ adv.tx \in {None} \cup -128..127

\* The structures seen so far whose value was decoded.
Seen == {j \in 1..i : Bytes(body.data[j].value)}
Type(j) == body.data[j].type
Value(j) == body.data[j].value

\* Of several structures for the same thing the last one counts.
LastOf(J) == CHOOSE j \in J : \A l \in J : l <= j
LastOr(J, F(_)) == IF J = {} THEN None ELSE F(LastOf(J))

Named == {j \in Seen : Type(j) \in {8, 9}}

Powered == {j \in Seen : Type(j) = 10 /\ Value(j) # <<>>}
Power(j) == ((Value(j)[1] + 128) % 256) - 128

HasUuid(j) == DataWidth(Type(j)) # 0 /\ Len(Value(j)) >= DataWidth(Type(j))
UuidOf(j) == Uuid(DataWidth(Type(j)), SubSeq(Value(j), 1, DataWidth(Type(j))))
DataOf(j) == SubSeq(Value(j), DataWidth(Type(j)) + 1, Len(Value(j)))
WithUuid(u) == {j \in Seen : HasUuid(j) /\ UuidOf(j) = u}

WithCompany == {j \in Seen : Type(j) = 255 /\ Len(Value(j)) >= 2}
OfCompany(c) == {j \in WithCompany : Company(Value(j)) = c}
MadeOf(j) == SubSeq(Value(j), 3, Len(Value(j)))

DataAgrees ==
  /\ \A j \in Seen : HasUuid(j) => UuidOf(j) \in DOMAIN adv.sdata
  /\ \A u \in DOMAIN adv.sdata :
       WithUuid(u) # {} /\ adv.sdata[u] = DataOf(LastOf(WithUuid(u)))

CompanyAgrees ==
  /\ DOMAIN adv.mdata = {Company(Value(j)) : j \in WithCompany}
  /\ \A c \in DOMAIN adv.mdata : adv.mdata[c] = MadeOf(LastOf(OfCompany(c)))

\* Name, power, service data and manufacturer data are those of the last
\* complete structure about them, whatever came in between: the same service
\* is one key however wide its UUID was sent, the power is signed, and
\* truncated or undecodable structures change nothing.
FieldsAgree ==
  /\ adv.name = LastOr(Named, Value)
  /\ adv.tx = LastOr(Powered, Power)
  /\ DataAgrees /\ CompanyAgrees

\* Where the UUID number n of structure j is, if it is complete.
Numbers(j) == {n \in 1..Len(Value(j)) : ListWidth(Type(j)) # 0 /\ ListWidth(Type(j)) * n <= Len(Value(j))}
Places == UNION {{j} \X Numbers(j) : j \in Seen}
At(p) == LET w == ListWidth(Type(p[1]))
             v == Value(p[1]) IN
         Uuid(w, SubSeq(v, w * p[2] - w + 1, w * p[2]))
Before(p, q) == p[1] < q[1] \/ (p[1] = q[1] /\ p[2] < q[2])

\* service_uuids is, in the end, every complete UUID advertised, once, in the
\* order of first appearance, even if it was sent in different widths.
UuidsExact ==
  status = "done" =>
    /\ Range(adv.uuids) = {At(p) : p \in Places}
    /\ \A m, n \in 1..Len(adv.uuids) : m < n =>
         /\ adv.uuids[m] # adv.uuids[n]
         /\ \E p \in Places : /\ At(p) = adv.uuids[m]
                              /\ \A q \in Places : At(q) = adv.uuids[n] => Before(p, q)
=============================================================================
