------------------------ MODULE Advertisement_proofs ------------------------
(***************************************************************************)
(* parse_advertisement returns what the body says, for bodies of any       *)
(* length with values of any length.                                       *)
(***************************************************************************)
EXTENDS Advertisement, SequenceTheorems, TLAPS

-----------------------------------------------------------------------------
(* The invariant *)

\* The shape of the result.
ShapeInv ==
  /\ body \in Bodies
  /\ adv = [name |-> adv.name, uuids |-> adv.uuids, tx |-> adv.tx,
            sdata |-> adv.sdata, mdata |-> adv.mdata]

\* service_uuids in the loop: every UUID advertised so far is in it, and behind
\* all that were advertised before it.
RawInv ==
  status \in {"loop", "fromkeys"} =>
  /\ \A p \in Places : \E n \in 1..Len(adv.uuids) : adv.uuids[n] = At(p)
  /\ \A n \in 1..Len(adv.uuids) :
       \E p \in Places : /\ adv.uuids[n] = At(p)
                         /\ \A q \in Places : Before(q, p) => \E m \in 1..(n - 1) : adv.uuids[m] = At(q)

\* The dict has every UUID it has seen, once, and behind all that came before
\* the first of it.
KeysInv ==
  /\ k <= Len(adv.uuids)
  /\ \A m \in 1..k : \E n \in 1..Len(kept) : kept[n] = adv.uuids[m]
  /\ \A n \in 1..Len(kept) :
       \E m \in 1..k : /\ kept[n] = adv.uuids[m]
                       /\ \A l \in 1..(m - 1) : \E o \in 1..(n - 1) : kept[o] = adv.uuids[l]
  /\ \A m, n \in 1..Len(kept) : kept[m] = kept[n] => m = n

KeptInv ==
  /\ status = "loop" => kept = <<>> /\ k = 0
  /\ status = "fromkeys" => KeysInv

-----------------------------------------------------------------------------
(* UUIDs *)

LEMMA BodyFacts ==
  ASSUME ShapeInv, TypeOK
  PROVE  /\ body.data \in Seq([type : {None} \cup Nat, value : {BadHex, NoString} \cup Octets])
         /\ Len(body.data) \in Nat /\ i \in Nat
         /\ \A j \in Seen : j \in 1..i /\ Value(j) \in Octets /\ Len(Value(j)) \in Nat
<1>1. body.data \in Seq([type : {None} \cup Nat, value : {BadHex, NoString} \cup Octets])
  BY BodiesAssumption DEF ShapeInv
<1>2. Len(body.data) \in Nat /\ i \in Nat /\ i <= Len(body.data)
  BY <1>1 DEF TypeOK
<1>3. ASSUME NEW j \in Seen
      PROVE  j \in 1..i /\ Value(j) \in Octets /\ Len(Value(j)) \in Nat
  <2>1. j \in 1..i /\ j \in 1..Len(body.data) /\ body.data[j].value \notin {BadHex, NoString}
    BY <1>2, <1>3 DEF Seen, Bytes
  <2>2. body.data[j] \in [type : {None} \cup Nat, value : {BadHex, NoString} \cup Octets]
    BY <1>1, <2>1, ElementOfSeq
  <2>3. Value(j) \in Octets
    BY <2>1, <2>2 DEF Value
  <2> QED BY <2>1, <2>3 DEF Octets
<1> QED BY <1>1, <1>2, <1>3

\* Any 2, 4 or 16 bytes on the air make a UUID of 128 bits.
LEMMA ConcatBytes ==
  ASSUME NEW s \in Octets, NEW t \in Octets
  PROVE  s \o t \in Octets /\ Len(s \o t) = Len(s) + Len(t)
BY ConcatProperties DEF Octets

LEMMA UuidType ==
  ASSUME NEW w \in {2, 4, 16}, NEW b \in Octets, Len(b) = w
  PROVE  Uuid(w, b) \in Uuid128
<1>1. Reverse(b) \in Octets /\ Len(Reverse(b)) = w
  <2>1. Reverse(b) = [j \in 1..w |-> b[(w - j) + 1]]
    BY DEF Reverse
  <2>2. ASSUME NEW j \in 1..w PROVE b[(w - j) + 1] \in 0..255
    <3>1. (w - j) + 1 \in 1..Len(b)
      OBVIOUS
    <3> QED BY <3>1, ElementOfSeq DEF Octets
  <2>3. Reverse(b) \in [1..w -> 0..255]
    BY <2>1, <2>2
  <2> QED BY <2>3 DEF Octets
<1>2. UUID_BASE \in Octets /\ Len(UUID_BASE) = 12
  BY DEF UUID_BASE, Octets
<1>3. <<0, 0>> \in Octets /\ Len(<<0, 0>>) = 2
  BY DEF Octets
<1>4. Uuid(w, b) \in Octets /\ Len(Uuid(w, b)) = 16
  <2>1. Reverse(b) \o UUID_BASE \in Octets /\ Len(Reverse(b) \o UUID_BASE) = w + 12
    BY <1>1, <1>2, ConcatBytes
  <2>2. <<0, 0>> \o Reverse(b) \in Octets /\ Len(<<0, 0>> \o Reverse(b)) = w + 2
    BY <1>1, <1>3, ConcatBytes
  <2>3. /\ (<<0, 0>> \o Reverse(b)) \o UUID_BASE \in Octets
        /\ Len((<<0, 0>> \o Reverse(b)) \o UUID_BASE) = w + 14
    <3> DEFINE s == <<0, 0>> \o Reverse(b)
    <3>1. s \in Octets /\ Len(s) = w + 2
      BY <2>2
    <3> HIDE DEF s
    <3>2. s \o UUID_BASE \in Octets /\ Len(s \o UUID_BASE) = (w + 2) + 12
      BY <1>2, <3>1, ConcatBytes
    <3> QED BY <3>2 DEF s
  <2>4. CASE w = 2
    BY <2>3, <2>4 DEF Uuid, u16_uuid
  <2>5. CASE w = 4
    BY <2>1, <2>5 DEF Uuid, u32_uuid
  <2>6. CASE w = 16
    BY <1>1, <2>6 DEF Uuid, u128_uuid
  <2> QED BY <2>4, <2>5, <2>6
<1>5. Uuid(w, b) \in [1..Len(Uuid(w, b)) -> 0..255]
  BY <1>4, LenProperties DEF Octets
<1> QED BY <1>4, <1>5 DEF Uuid128

\* A part of a value is bytes.
LEMMA PartFacts ==
  ASSUME NEW v \in Octets, NEW m \in Nat, NEW n \in Nat, 1 <= m, n <= Len(v), m <= n + 1
  PROVE  SubSeq(v, m, n) \in Octets /\ Len(SubSeq(v, m, n)) = n - m + 1
<1>1. ASSUME NEW j \in m..n PROVE v[j] \in 0..255
  <2>1. j \in 1..Len(v)
    BY DEF Octets
  <2> QED BY <2>1, ElementOfSeq DEF Octets
<1> QED BY <1>1, SubSeqProperties DEF Octets

LEMMA FirstByte ==
  ASSUME NEW v \in Octets, v # <<>>
  PROVE  v[1] \in 0..255
<1>1. v \in Seq(0..255) /\ 1 \in 1..Len(v)
  BY EmptySeq DEF Octets
<1> QED BY <1>1, ElementOfSeq

\* Two's complement, as it is read and as it is defined.
LEMMA SignedByteFacts ==
  \A b \in 0..255 : /\ SignedByte(b) = ((b + 128) % 256) - 128
                    /\ SignedByte(b) \in -128..127
<1>1. ASSUME NEW b \in 0..255, b < 128
      PROVE  SignedByte(b) = ((b + 128) % 256) - 128 /\ SignedByte(b) \in -128..127
  <2>1. (b + 128) % 256 = b + 128
    BY <1>1
  <2> QED BY <1>1, <2>1 DEF SignedByte
<1>2. ASSUME NEW b \in 0..255, ~(b < 128)
      PROVE  SignedByte(b) = ((b + 128) % 256) - 128 /\ SignedByte(b) \in -128..127
  <2>1. (b + 128) % 256 = b - 128
    BY <1>2
  <2> QED BY <1>2, <2>1 DEF SignedByte
<1> QED BY <1>1, <1>2

\* The complete UUIDs of a list, as it is read and as it is defined.
LEMMA ChunkFacts ==
  ASSUME NEW w \in {2, 4, 16}, NEW v \in Octets
  PROVE  /\ Len(Chunks(v, w)) \in Nat
         /\ \A n \in Nat \ {0} : n \in 1..Len(Chunks(v, w)) <=> n \in 1..Len(v) /\ w * n <= Len(v)
         /\ \A n \in 1..Len(Chunks(v, w)) :
              /\ Chunks(v, w)[n] = SubSeq(v, w * n - w + 1, w * n)
              /\ Chunks(v, w)[n] \in Octets /\ Len(Chunks(v, w)[n]) = w
<1>1. Len(v) \in Nat
  BY DEF Octets
<1>2. Len(v) \div w \in Nat
  BY <1>1
<1>3. Len(Chunks(v, w)) = Len(v) \div w
  BY <1>2 DEF Chunks
<1>4. \A n \in Nat \ {0} : n \in 1..(Len(v) \div w) <=> n \in 1..Len(v) /\ w * n <= Len(v)
  <2>1. CASE w = 2
    BY <1>1, <2>1
  <2>2. CASE w = 4
    BY <1>1, <2>2
  <2>3. CASE w = 16
    BY <1>1, <2>3
  <2> QED BY <2>1, <2>2, <2>3
<1>5. ASSUME NEW n \in 1..(Len(v) \div w)
      PROVE  /\ Chunks(v, w)[n] = SubSeq(v, w * n - w + 1, w * n)
             /\ Chunks(v, w)[n] \in Octets /\ Len(Chunks(v, w)[n]) = w
  <2>1. n \in Nat \ {0} /\ w * n <= Len(v)
    BY <1>2, <1>4, <1>5
  <2>2. w * (n - 1) + 1 = w * n - w + 1 /\ w * n \in Nat /\ w * n - w + 1 \in Nat /\ 1 <= w * n - w + 1
        /\ w * n - (w * n - w + 1) + 1 = w /\ w * n - w + 1 <= w * n + 1
    <3>1. CASE w = 2
      BY <2>1, <3>1
    <3>2. CASE w = 4
      BY <2>1, <3>2
    <3>3. CASE w = 16
      BY <2>1, <3>3
    <3> QED BY <3>1, <3>2, <3>3
  <2>3. Chunks(v, w)[n] = SubSeq(v, w * n - w + 1, w * n)
    BY <1>2, <1>5, <2>2 DEF Chunks
  <2> QED BY <2>1, <2>2, <2>3, PartFacts
<1> QED BY <1>2, <1>3, <1>4, <1>5

-----------------------------------------------------------------------------
(* One structure *)

\* The UUIDs in a list with the bytes v.
Listed(t, v) ==
  [n \in 1..Len(Chunks(v, ListWidth(t))) |-> Uuid(ListWidth(t), Chunks(v, ListWidth(t))[n])]

\* A structure changes one field.
LEMMA ParsedFacts ==
  ASSUME ShapeInv, NEW t, NEW v
  PROVE  /\ Parsed(t, v).name = IF t \in {8, 9} THEN v ELSE adv.name
         /\ Parsed(t, v).uuids = IF ListWidth(t) # 0 THEN adv.uuids \o Listed(t, v) ELSE adv.uuids
         /\ Parsed(t, v).tx = IF t = 10 /\ v # <<>> THEN SignedByte(v[1]) ELSE adv.tx
         /\ Parsed(t, v).sdata =
              IF DataWidth(t) # 0 /\ Len(v) >= DataWidth(t)
              THEN Store(adv.sdata, Uuid(DataWidth(t), SubSeq(v, 1, DataWidth(t))),
                         SubSeq(v, DataWidth(t) + 1, Len(v)))
              ELSE adv.sdata
         /\ Parsed(t, v).mdata = IF t = 255 /\ Len(v) >= 2
                                 THEN Store(adv.mdata, Company(v), SubSeq(v, 3, Len(v)))
                                 ELSE adv.mdata
         /\ Parsed(t, v) = [name |-> Parsed(t, v).name, uuids |-> Parsed(t, v).uuids,
                            tx |-> Parsed(t, v).tx, sdata |-> Parsed(t, v).sdata,
                            mdata |-> Parsed(t, v).mdata]
<1> DEFINE lw == ListWidth(t)
           dw == DataWidth(t)
           uuids == adv.uuids \o Listed(t, v)
           data == Store(adv.sdata, Uuid(dw, SubSeq(v, 1, dw)), SubSeq(v, dw + 1, Len(v)))
           made == Store(adv.mdata, Company(v), SubSeq(v, 3, Len(v)))
           hasUuid == Len(v) >= dw
           hasCompany == Len(v) >= 2
<1>1. adv = [name |-> adv.name, uuids |-> adv.uuids, tx |-> adv.tx,
             sdata |-> adv.sdata, mdata |-> adv.mdata]
  BY DEF ShapeInv
<1>2. Parsed(t, v) =
        IF t \in {8, 9} THEN [adv EXCEPT !.name = v]
        ELSE IF lw # 0 THEN [adv EXCEPT !.uuids = uuids]
        ELSE IF t = 10 /\ v # <<>> THEN [adv EXCEPT !.tx = SignedByte(v[1])]
        ELSE IF dw # 0 /\ hasUuid THEN [adv EXCEPT !.sdata = data]
        ELSE IF t = 255 /\ hasCompany THEN [adv EXCEPT !.mdata = made]
        ELSE adv
  BY DEF Parsed, Listed
<1>3. /\ lw # 0 => t \in {2, 3, 4, 5, 6, 7}
      /\ dw # 0 => t \in {22, 32, 33}
  BY DEF ListWidth, DataWidth
<1> HIDE DEF lw, dw, uuids, data, made, hasUuid, hasCompany
<1>4. /\ Parsed(t, v).name = IF t \in {8, 9} THEN v ELSE adv.name
      /\ Parsed(t, v).uuids = IF lw # 0 THEN uuids ELSE adv.uuids
      /\ Parsed(t, v).tx = IF t = 10 /\ v # <<>> THEN SignedByte(v[1]) ELSE adv.tx
      /\ Parsed(t, v).sdata = IF dw # 0 /\ hasUuid THEN data ELSE adv.sdata
      /\ Parsed(t, v).mdata = IF t = 255 /\ hasCompany THEN made ELSE adv.mdata
      /\ Parsed(t, v) = [name |-> Parsed(t, v).name, uuids |-> Parsed(t, v).uuids,
                         tx |-> Parsed(t, v).tx, sdata |-> Parsed(t, v).sdata,
                         mdata |-> Parsed(t, v).mdata]
  <2>1. CASE t \in {8, 9}
    BY <1>1, <1>2, <1>3, <2>1
  <2>2. CASE lw # 0
    BY <1>1, <1>2, <1>3, <2>2
  <2>3. CASE t = 10 /\ v # <<>>
    BY <1>1, <1>2, <1>3, <2>3
  <2>4. CASE dw # 0 /\ hasUuid
    BY <1>1, <1>2, <1>3, <2>4
  <2>5. CASE t = 255 /\ hasCompany
    BY <1>1, <1>2, <1>3, <2>5
  <2>6. CASE /\ t \notin {8, 9} /\ lw = 0 /\ ~(t = 10 /\ v # <<>>)
             /\ ~(dw # 0 /\ hasUuid) /\ ~(t = 255 /\ hasCompany)
    BY <1>1, <1>2, <2>6
  <2> QED BY <2>1, <2>2, <2>3, <2>4, <2>5, <2>6
<1> QED BY <1>4 DEF lw, dw, uuids, data, made, hasUuid, hasCompany

\* The body stays, and what its structures say with it.
LEMMA SameBody ==
  ASSUME body' = body
  PROVE  /\ \A j : /\ Type(j)' = Type(j) /\ Value(j)' = Value(j)
                   /\ HasUuid(j)' = HasUuid(j) /\ UuidOf(j)' = UuidOf(j) /\ DataOf(j)' = DataOf(j)
                   /\ MadeOf(j)' = MadeOf(j) /\ Numbers(j)' = Numbers(j) /\ Power(j)' = Power(j)
         /\ \A p : At(p)' = At(p)
BY DEF Type, Value, HasUuid, UuidOf, DataOf, MadeOf, Numbers, Power, At

\* A structure is seen, and parsed, when its value can be decoded.
LEMMA StructureFacts ==
  ASSUME ShapeInv, TypeOK, Structure
  PROVE  /\ body' = body /\ i' = i + 1 /\ i \in Nat /\ i + 1 \in 1..Len(body.data)
         /\ kept' = kept /\ k' = k /\ status = "loop" /\ status' \in {"loop", "raised"}
         /\ Seen \subseteq 1..i
         /\ \/ Seen' = Seen /\ adv' = adv
            \/ /\ Seen' = Seen \cup {i + 1} /\ status' = "loop"
               /\ adv' = Parsed(Type(i + 1), Value(i + 1))
               /\ Value(i + 1) \in Octets
<1>1. /\ body.data \in Seq([type : {None} \cup Nat, value : {BadHex, NoString} \cup Octets])
      /\ Len(body.data) \in Nat /\ i \in Nat
  BY BodyFacts
<1>2. /\ body' = body /\ i' = i + 1 /\ i + 1 \in 1..Len(body.data)
      /\ kept' = kept /\ k' = k /\ status = "loop" /\ status' \in {"loop", "raised"}
  BY <1>1 DEF Structure
<1>3. Seen \subseteq 1..i
  BY DEF Seen
<1>4. Seen' = {j \in 1..(i + 1) : Bytes(body.data[j].value)}
  BY <1>2 DEF Seen
<1>5. CASE Bytes(body.data[i + 1].value)
  <2>1. adv' = Parsed(Type(i + 1), Value(i + 1)) /\ status' = "loop"
    BY <1>2, <1>5 DEF Structure, Bytes, Type, Value
  <2>2. Seen' = Seen \cup {i + 1}
    BY <1>1, <1>4, <1>5 DEF Seen
  <2>3. body.data[i + 1] \in [type : {None} \cup Nat, value : {BadHex, NoString} \cup Octets]
    BY <1>1, <1>2, ElementOfSeq
  <2>4. Value(i + 1) \in Octets
    BY <1>5, <2>3 DEF Value, Bytes
  <2> QED BY <1>1, <1>2, <1>3, <2>1, <2>2, <2>4
<1>6. CASE ~Bytes(body.data[i + 1].value)
  <2>1. adv' = adv
    BY <1>6 DEF Structure, Bytes
  <2>2. Seen' = Seen
    BY <1>1, <1>4, <1>6 DEF Seen
  <2> QED BY <1>1, <1>2, <1>3, <2>1, <2>2
<1> QED BY <1>5, <1>6

\* The structure just parsed is the last one.
LEMMA LastNew ==
  ASSUME NEW n \in Nat, NEW J, J \subseteq 1..n
  PROVE  LastOf(J \cup {n + 1}) = n + 1
<1>1. n + 1 \in J \cup {n + 1} /\ \A l \in J \cup {n + 1} : l <= n + 1
  OBVIOUS
<1>2. ASSUME NEW j \in J \cup {n + 1}, \A l \in J \cup {n + 1} : l <= j
      PROVE  j = n + 1
  BY <1>2
<1> QED BY <1>1, <1>2 DEF LastOf

-----------------------------------------------------------------------------
(* The fields *)

\* The fields' meaning, as of the next state, over this body.
LEMMA FieldsPrimed ==
  ASSUME body' = body
  PROVE  /\ Named' = {j \in Seen' : Type(j) \in {8, 9}}
         /\ Powered' = {j \in Seen' : Type(j) = 10 /\ Value(j) # <<>>}
         /\ \A u : WithUuid(u)' = {j \in Seen' : HasUuid(j) /\ UuidOf(j) = u}
         /\ WithCompany' = {j \in Seen' : Type(j) = 255 /\ Len(Value(j)) >= 2}
         /\ \A c : OfCompany(c)' = {j \in WithCompany' : Company(Value(j)) = c}
BY SameBody DEF Named, Powered, WithUuid, WithCompany, OfCompany

LEMMA FieldsAgreePrimed ==
  ASSUME body' = body
  PROVE  FieldsAgree' <=>
           /\ adv'.name = IF Named' = {} THEN None ELSE Value(LastOf(Named'))
           /\ adv'.tx = IF Powered' = {} THEN None ELSE Power(LastOf(Powered'))
           /\ \A j \in Seen' : HasUuid(j) => UuidOf(j) \in DOMAIN adv'.sdata
           /\ \A u \in DOMAIN adv'.sdata :
                WithUuid(u)' # {} /\ adv'.sdata[u] = DataOf(LastOf(WithUuid(u)'))
           /\ DOMAIN adv'.mdata = {Company(Value(j)) : j \in WithCompany'}
           /\ \A c \in DOMAIN adv'.mdata : adv'.mdata[c] = MadeOf(LastOf(OfCompany(c)'))
<1>1. LastOr(Named, Value)' = IF Named' = {} THEN None ELSE Value(LastOf(Named'))
  BY DEF LastOr, LastOf, Value
<1>2. LastOr(Powered, Power)' = IF Powered' = {} THEN None ELSE Power(LastOf(Powered'))
  BY DEF LastOr, LastOf, Power, Value
<1>3. DataAgrees' <=>
        /\ \A j \in Seen' : HasUuid(j) => UuidOf(j) \in DOMAIN adv'.sdata
        /\ \A u \in DOMAIN adv'.sdata :
             WithUuid(u)' # {} /\ adv'.sdata[u] = DataOf(LastOf(WithUuid(u)'))
  <2>1. \A u : DataOf(LastOf(WithUuid(u)))' = DataOf(LastOf(WithUuid(u)'))
    BY DEF DataOf, Type, Value, LastOf
  <2> QED BY <2>1, SameBody DEF DataAgrees
<1>4. CompanyAgrees' <=>
        /\ DOMAIN adv'.mdata = {Company(Value(j)) : j \in WithCompany'}
        /\ \A c \in DOMAIN adv'.mdata : adv'.mdata[c] = MadeOf(LastOf(OfCompany(c)'))
  <2>1. \A c : MadeOf(LastOf(OfCompany(c)))' = MadeOf(LastOf(OfCompany(c)'))
    BY DEF MadeOf, Value, LastOf
  <2> QED BY <2>1, SameBody DEF CompanyAgrees
<1> QED BY <1>1, <1>2, <1>3, <1>4 DEF FieldsAgree

\* What changes neither the four fields nor what was seen keeps them right.
LEMMA FieldsSame ==
  ASSUME FieldsAgree, body' = body, Seen' = Seen,
         adv'.name = adv.name, adv'.tx = adv.tx, adv'.sdata = adv.sdata, adv'.mdata = adv.mdata
  PROVE  FieldsAgree'
<1>1. /\ Named' = Named /\ Powered' = Powered /\ WithCompany' = WithCompany
      /\ \A u : WithUuid(u)' = WithUuid(u)
      /\ \A c : OfCompany(c)' = OfCompany(c)
  <2>1. Named' = Named
    BY FieldsPrimed DEF Named
  <2>2. Powered' = Powered
    BY FieldsPrimed DEF Powered
  <2>3. WithCompany' = WithCompany
    BY FieldsPrimed DEF WithCompany
  <2>4. \A u : WithUuid(u)' = WithUuid(u)
    BY FieldsPrimed DEF WithUuid
  <2>5. \A c : OfCompany(c)' = OfCompany(c)
    BY FieldsPrimed, <2>3 DEF OfCompany
  <2> QED BY <2>1, <2>2, <2>3, <2>4, <2>5
<1> QED BY <1>1, FieldsAgreePrimed DEF FieldsAgree, LastOr, DataAgrees, CompanyAgrees

\* Parsing one more structure.
LEMMA FieldsParsed ==
  ASSUME ShapeInv, TypeOK, FieldsAgree, body' = body, i \in Nat, Seen \subseteq 1..i,
         Seen' = Seen \cup {i + 1}, adv' = Parsed(Type(i + 1), Value(i + 1)),
         Value(i + 1) \in Octets
  PROVE  FieldsAgree'
<1> DEFINE n == i + 1
           t == Type(n)
           v == Value(n)
<1>1. n \notin Seen /\ \A J : J \subseteq Seen => LastOf(J \cup {n}) = n
  <2>1. ASSUME NEW J, J \subseteq Seen PROVE LastOf(J \cup {n}) = n
    BY <2>1, LastNew
  <2> QED BY <2>1
<1>2. /\ Named' = IF t \in {8, 9} THEN Named \cup {n} ELSE Named
      /\ Powered' = IF t = 10 /\ v # <<>> THEN Powered \cup {n} ELSE Powered
      /\ \A u : WithUuid(u)' = IF HasUuid(n) /\ UuidOf(n) = u THEN WithUuid(u) \cup {n} ELSE WithUuid(u)
      /\ WithCompany' = IF t = 255 /\ Len(v) >= 2 THEN WithCompany \cup {n} ELSE WithCompany
  <2>1. Named' = IF t \in {8, 9} THEN Named \cup {n} ELSE Named
    BY FieldsPrimed DEF Named
  <2>2. Powered' = IF t = 10 /\ v # <<>> THEN Powered \cup {n} ELSE Powered
    BY FieldsPrimed DEF Powered
  <2>3. ASSUME NEW u
        PROVE  WithUuid(u)' = IF HasUuid(n) /\ UuidOf(n) = u THEN WithUuid(u) \cup {n} ELSE WithUuid(u)
    BY FieldsPrimed DEF WithUuid
  <2>4. WithCompany' = IF t = 255 /\ Len(v) >= 2 THEN WithCompany \cup {n} ELSE WithCompany
    BY FieldsPrimed DEF WithCompany
  <2> QED BY <2>1, <2>2, <2>3, <2>4
<1>3. /\ Named \subseteq Seen /\ Powered \subseteq Seen /\ WithCompany \subseteq Seen
      /\ \A u : WithUuid(u) \subseteq Seen
      /\ \A c : OfCompany(c) \subseteq Seen
  BY DEF Named, Powered, WithCompany, WithUuid, OfCompany
<1>4. /\ adv'.name = IF t \in {8, 9} THEN v ELSE adv.name
      /\ adv'.tx = IF t = 10 /\ v # <<>> THEN SignedByte(v[1]) ELSE adv.tx
      /\ adv'.sdata = IF HasUuid(n) THEN Store(adv.sdata, UuidOf(n), DataOf(n)) ELSE adv.sdata
      /\ adv'.mdata = IF t = 255 /\ Len(v) >= 2
                      THEN Store(adv.mdata, Company(v), MadeOf(n)) ELSE adv.mdata
  BY ParsedFacts DEF HasUuid, UuidOf, DataOf, MadeOf
<1>5. adv'.name = IF Named' = {} THEN None ELSE Value(LastOf(Named'))
  <2>1. adv.name = IF Named = {} THEN None ELSE Value(LastOf(Named))
    BY DEF FieldsAgree, LastOr
  <2> QED BY <1>1, <1>2, <1>3, <1>4, <2>1
<1>6. adv'.tx = IF Powered' = {} THEN None ELSE Power(LastOf(Powered'))
  <2>1. adv.tx = IF Powered = {} THEN None ELSE Power(LastOf(Powered))
    BY DEF FieldsAgree, LastOr
  <2>2. v # <<>> => SignedByte(v[1]) = Power(n)
    <3>1. v # <<>> => v[1] \in 0..255
      BY FirstByte
    <3>2. \A b \in 0..255 : SignedByte(b) = ((b + 128) % 256) - 128
      BY SignedByteFacts
    <3> QED BY <3>1, <3>2 DEF Power
  <2> QED BY <1>1, <1>2, <1>3, <1>4, <2>1, <2>2
<1>7. \A j \in Seen' : HasUuid(j) => UuidOf(j) \in DOMAIN adv'.sdata
  BY <1>4 DEF FieldsAgree, DataAgrees, Store
<1>8. ASSUME NEW u \in DOMAIN adv'.sdata
      PROVE  WithUuid(u)' # {} /\ adv'.sdata[u] = DataOf(LastOf(WithUuid(u)'))
  <2>1. CASE HasUuid(n) /\ u = UuidOf(n)
    <3>1. adv'.sdata[u] = DataOf(n)
      BY <1>4, <2>1 DEF Store
    <3>2. WithUuid(u)' = WithUuid(u) \cup {n}
      BY <1>2, <2>1
    <3> QED BY <1>1, <1>3, <3>1, <3>2
  <2>2. CASE ~(HasUuid(n) /\ u = UuidOf(n))
    <3>1. u \in DOMAIN adv.sdata /\ adv'.sdata[u] = adv.sdata[u]
      BY <1>4, <1>8, <2>2 DEF Store
    <3>2. WithUuid(u)' = WithUuid(u)
      BY <1>2, <2>2
    <3> QED BY <3>1, <3>2 DEF FieldsAgree, DataAgrees
  <2> QED BY <2>1, <2>2
<1>9. /\ DOMAIN adv'.mdata = {Company(Value(j)) : j \in WithCompany'}
      /\ \A c \in DOMAIN adv'.mdata : adv'.mdata[c] = MadeOf(LastOf(OfCompany(c)'))
  <2>1. CASE t = 255 /\ Len(v) >= 2
    <3>1. /\ DOMAIN adv'.mdata = DOMAIN adv.mdata \cup {Company(v)}
          /\ WithCompany' = WithCompany \cup {n}
      BY <1>2, <1>4, <2>1 DEF Store
    <3>2. DOMAIN adv'.mdata = {Company(Value(j)) : j \in WithCompany'}
      BY <3>1 DEF FieldsAgree, CompanyAgrees
    <3>3. ASSUME NEW c \in DOMAIN adv'.mdata
          PROVE  adv'.mdata[c] = MadeOf(LastOf(OfCompany(c)'))
      <4> DEFINE of == OfCompany(c)'
      <4>0. of = {j \in WithCompany \cup {n} : Company(Value(j)) = c}
        BY <3>1, FieldsPrimed
      <4> HIDE DEF of
      <4>1. CASE c = Company(v)
        <5>1. adv'.mdata[c] = MadeOf(n)
          BY <1>4, <2>1, <4>1 DEF Store
        <5>2. of = OfCompany(c) \cup {n}
          BY <4>0, <4>1 DEF OfCompany
        <5> QED BY <1>1, <1>3, <5>1, <5>2 DEF of
      <4>2. CASE c # Company(v)
        <5>1. c \in DOMAIN adv.mdata /\ adv'.mdata[c] = adv.mdata[c]
          BY <1>4, <2>1, <3>1, <3>3, <4>2 DEF Store
        <5>2. of = OfCompany(c)
          BY <4>0, <4>2 DEF OfCompany
        <5> QED BY <5>1, <5>2 DEF of, FieldsAgree, CompanyAgrees
      <4> QED BY <4>1, <4>2
    <3> QED BY <3>2, <3>3
  <2>2. CASE ~(t = 255 /\ Len(v) >= 2)
    <3>1. adv'.mdata = adv.mdata /\ WithCompany' = WithCompany
      BY <1>2, <1>4, <2>2
    <3>2. ASSUME NEW c PROVE OfCompany(c)' = OfCompany(c)
      <4>1. OfCompany(c)' = {j \in WithCompany' : Company(Value(j)) = c}
        BY FieldsPrimed
      <4> QED BY <3>1, <4>1 DEF OfCompany
    <3> QED BY <3>1, <3>2 DEF FieldsAgree, CompanyAgrees
  <2> QED BY <2>1, <2>2
<1> QED BY <1>5, <1>6, <1>7, <1>8, <1>9, FieldsAgreePrimed

-----------------------------------------------------------------------------
(* The UUIDs *)

\* What a list adds is the UUIDs at its places, in their order.
LEMMA ListedFacts ==
  ASSUME NEW j, Value(j) \in Octets, ListWidth(Type(j)) # 0
  PROVE  /\ Listed(Type(j), Value(j)) \in Seq(Uuid128)
         /\ \A n : n \in Numbers(j) <=> n \in 1..Len(Listed(Type(j), Value(j)))
         /\ \A n \in 1..Len(Listed(Type(j), Value(j))) :
              Listed(Type(j), Value(j))[n] = At(<<j, n>>)
<1> DEFINE w == ListWidth(Type(j))
           v == Value(j)
<1>1. w \in {2, 4, 16}
  BY DEF ListWidth
<1>2. v \in Octets
  OBVIOUS
<1>3. /\ Listed(Type(j), v) = [n \in 1..Len(Chunks(v, w)) |-> Uuid(w, Chunks(v, w)[n])]
      /\ \A n : n \in Numbers(j) <=> n \in 1..Len(v) /\ w * n <= Len(v)
      /\ \A n : At(<<j, n>>) = Uuid(w, SubSeq(v, w * n - w + 1, w * n))
  BY <1>1 DEF Listed, Numbers, At
<1> HIDE DEF w, v
<1>4. /\ Len(Chunks(v, w)) \in Nat
      /\ \A n \in Nat \ {0} : n \in 1..Len(Chunks(v, w)) <=> n \in 1..Len(v) /\ w * n <= Len(v)
      /\ \A n \in 1..Len(Chunks(v, w)) :
           /\ Chunks(v, w)[n] = SubSeq(v, w * n - w + 1, w * n)
           /\ Chunks(v, w)[n] \in Octets /\ Len(Chunks(v, w)[n]) = w
  BY <1>1, <1>2, ChunkFacts
<1>5. \A n \in 1..Len(Chunks(v, w)) : Uuid(w, Chunks(v, w)[n]) \in Uuid128
  BY <1>1, <1>4, UuidType
<1>6. /\ Listed(Type(j), v) \in Seq(Uuid128)
      /\ Len(Listed(Type(j), v)) = Len(Chunks(v, w))
  BY <1>3, <1>4, <1>5
<1>7. ASSUME NEW n PROVE n \in Numbers(j) <=> n \in 1..Len(Listed(Type(j), v))
  <2>1. Len(v) \in Nat
    BY <1>2 DEF Octets
  <2>2. n \in 1..Len(v) => n \in Nat \ {0}
    BY <2>1
  <2>3. n \in 1..Len(Chunks(v, w)) => n \in Nat \ {0}
    BY <1>4
  <2> QED BY <1>3, <1>4, <1>6, <2>2, <2>3
<1>8. ASSUME NEW n \in 1..Len(Listed(Type(j), v))
      PROVE  Listed(Type(j), v)[n] = At(<<j, n>>)
  BY <1>3, <1>4, <1>6
<1> QED BY <1>6, <1>7, <1>8 DEF v

LEMMA PlacesSame ==
  ASSUME body' = body, Seen' = Seen
  PROVE  Places' = Places
BY SameBody DEF Places

LEMMA RawPrimed ==
  ASSUME body' = body
  PROVE  RawInv' <=>
           (status' \in {"loop", "fromkeys"} =>
            /\ \A p \in Places' : \E n \in 1..Len(adv'.uuids) : adv'.uuids[n] = At(p)
            /\ \A n \in 1..Len(adv'.uuids) :
                 \E p \in Places' : /\ adv'.uuids[n] = At(p)
                                    /\ \A q \in Places' : Before(q, p) =>
                                         \E m \in 1..(n - 1) : adv'.uuids[m] = At(q))
BY DEF RawInv, At, Type, Value

LEMMA RawSame ==
  ASSUME RawInv, status \in {"loop", "fromkeys"} \/ status' \notin {"loop", "fromkeys"},
         body' = body, Seen' = Seen, adv' = adv
  PROVE  RawInv'
<1>1. Places' = Places
  BY PlacesSame
<1> QED BY <1>1, RawPrimed DEF RawInv

\* The UUIDs of the next structure go behind all there are.
LEMMA RawParsed ==
  ASSUME ShapeInv, TypeOK, RawInv, status = "loop", body' = body, i \in Nat, Seen \subseteq 1..i,
         Seen' = Seen \cup {i + 1}, adv' = Parsed(Type(i + 1), Value(i + 1)),
         Value(i + 1) \in Octets
  PROVE  adv'.uuids \in Seq(Uuid128) /\ RawInv'
<1> DEFINE n == i + 1
           old == adv.uuids
           new == Listed(Type(n), Value(n))
<1>1. /\ \A j : Numbers(j)' = Numbers(j)
      /\ \A p : At(p)' = At(p)
  BY SameBody
<1>2. /\ \A p : p \in Places <=> p[1] \in Seen /\ p[2] \in Numbers(p[1]) /\ p = <<p[1], p[2]>>
      /\ \A p : p \in Places' <=> p \in Places \/ (p = <<n, p[2]>> /\ p[2] \in Numbers(n))
  <2>1. \A p : p \in Places <=> \E j \in Seen : \E m \in Numbers(j) : p = <<j, m>>
    BY DEF Places
  <2>2. \A p : p \in Places' <=> \E j \in Seen' : \E m \in Numbers(j) : p = <<j, m>>
    BY <1>1 DEF Places
  <2> QED BY <2>1, <2>2
<1>3. old \in Seq(Uuid128) /\ Len(old) \in Nat
  BY DEF TypeOK
<1>4. /\ \A p \in Places : \E m \in 1..Len(old) : old[m] = At(p)
      /\ \A m \in 1..Len(old) :
           \E p \in Places : /\ old[m] = At(p)
                             /\ \A q \in Places : Before(q, p) => \E l \in 1..(m - 1) : old[l] = At(q)
  BY DEF RawInv
<1>5. CASE ListWidth(Type(n)) = 0
  <2>1. adv'.uuids = old
    BY <1>5, ParsedFacts
  <2>2. Numbers(n) = {}
    BY <1>5 DEF Numbers
  <2>3. Places' = Places
    BY <1>2, <2>2
  <2>4. \A p \in Places' : \E m \in 1..Len(adv'.uuids) : adv'.uuids[m] = At(p)
    BY <1>4, <2>1, <2>3
  <2>5. ASSUME NEW m \in 1..Len(adv'.uuids)
        PROVE  \E p \in Places' :
                 /\ adv'.uuids[m] = At(p)
                 /\ \A q \in Places' : Before(q, p) => \E l \in 1..(m - 1) : adv'.uuids[l] = At(q)
    <3> HIDE DEF old
    <3>1. m \in 1..Len(old)
      BY <2>1
    <3>2. PICK p \in Places : /\ old[m] = At(p)
                              /\ \A q \in Places : Before(q, p) => \E l \in 1..(m - 1) : old[l] = At(q)
      BY <1>4, <3>1
    <3> QED BY <2>1, <2>3, <3>2
  <2>6. RawInv'
    BY <2>4, <2>5, RawPrimed, Zenon
  <2> QED BY <1>3, <2>1, <2>6
<1>6. CASE ListWidth(Type(n)) # 0
  <2>1. adv'.uuids = old \o new
    BY <1>6, ParsedFacts
  <2>2. /\ new \in Seq(Uuid128) /\ Len(new) \in Nat
        /\ \A m : m \in Numbers(n) <=> m \in 1..Len(new)
        /\ \A m \in 1..Len(new) : new[m] = At(<<n, m>>)
    BY <1>6, ListedFacts
  <2> DEFINE us == old \o new
  <2> HIDE DEF old, new
  <2>3. /\ us \in Seq(Uuid128) /\ Len(us) = Len(old) + Len(new)
        /\ \A m \in 1..Len(us) : us[m] = IF m <= Len(old) THEN old[m] ELSE new[m - Len(old)]
    BY <1>3, <2>2, ConcatProperties
  <2> HIDE DEF us
  <2>4. /\ \A m \in 1..Len(old) : m \in 1..Len(us) /\ us[m] = old[m]
        /\ \A m \in 1..Len(new) : Len(old) + m \in 1..Len(us) /\ us[Len(old) + m] = At(<<n, m>>)
    <3>1. ASSUME NEW m \in 1..Len(old) PROVE m \in 1..Len(us) /\ us[m] = old[m]
      BY <1>3, <2>2, <2>3
    <3>2. ASSUME NEW m \in 1..Len(new)
          PROVE  Len(old) + m \in 1..Len(us) /\ us[Len(old) + m] = At(<<n, m>>)
      <4>1. Len(old) + m \in 1..Len(us) /\ ~(Len(old) + m <= Len(old)) /\ (Len(old) + m) - Len(old) = m
        BY <1>3, <2>2, <2>3
      <4>2. us[Len(old) + m] = new[m]
        BY <2>3, <4>1
      <4> QED BY <2>2, <4>1, <4>2
    <3> QED BY <3>1, <3>2
  <2>5. ASSUME NEW p \in Places' PROVE \E m \in 1..Len(us) : us[m] = At(p)
    <3>1. CASE p \in Places
      <4>1. PICK m \in 1..Len(old) : old[m] = At(p)
        BY <1>4, <3>1
      <4> QED BY <2>4, <4>1
    <3>2. CASE p \notin Places
      <4>1. p = <<n, p[2]>> /\ p[2] \in 1..Len(new)
        BY <1>2, <2>2, <3>2
      <4> QED BY <2>4, <4>1
    <3> QED BY <3>1, <3>2
  <2>6. ASSUME NEW m \in 1..Len(us)
        PROVE  \E p \in Places' :
                 /\ us[m] = At(p)
                 /\ \A q \in Places' : Before(q, p) => \E l \in 1..(m - 1) : us[l] = At(q)
    <3>1. CASE m <= Len(old)
      <4>1. PICK p \in Places : /\ old[m] = At(p)
                                /\ \A q \in Places : Before(q, p) => \E l \in 1..(m - 1) : old[l] = At(q)
        BY <1>3, <1>4, <2>6, <3>1
      <4>2. ASSUME NEW q \in Places', Before(q, p)
            PROVE  \E l \in 1..(m - 1) : us[l] = At(q)
        <5>1. p[1] \in 1..i
          BY <1>2
        <5>2. q \in Places
          BY <1>2, <4>2, <5>1 DEF Before
        <5>3. PICK l \in 1..(m - 1) : old[l] = At(q)
          BY <4>1, <4>2, <5>2
        <5>4. l \in 1..Len(old)
          BY <1>3, <2>3, <2>2, <3>1
        <5> QED BY <2>4, <5>3, <5>4
      <4>3. us[m] = At(p) /\ p \in Places'
        BY <1>2, <1>3, <2>2, <2>3, <3>1, <4>1
      <4> QED BY <4>2, <4>3
    <3>2. CASE ~(m <= Len(old))
      <4>1. m - Len(old) \in 1..Len(new)
        BY <1>3, <2>2, <2>3, <3>2
      <4> DEFINE p == <<n, m - Len(old)>>
      <4>2. us[m] = At(p) /\ p \in Places'
        <5>1. us[Len(old) + (m - Len(old))] = At(p)
          BY <2>4, <4>1
        <5>2. Len(old) + (m - Len(old)) = m
          BY <1>3, <2>2, <2>3
        <5> QED BY <1>2, <2>2, <4>1, <5>1, <5>2
      <4>3. ASSUME NEW q \in Places', Before(q, p)
            PROVE  \E l \in 1..(m - 1) : us[l] = At(q)
        <5>1. CASE q \in Places
          <6>1. PICK l \in 1..Len(old) : old[l] = At(q)
            BY <1>4, <5>1
          <6>2. l \in 1..(m - 1)
            BY <1>3, <2>2, <2>3, <3>2
          <6> QED BY <2>4, <6>1, <6>2
        <5>2. CASE q \notin Places
          <6>1. q = <<n, q[2]>> /\ q[2] \in 1..Len(new)
            BY <1>2, <2>2, <5>2
          <6>2. q[2] < m - Len(old)
            BY <4>3, <6>1 DEF Before
          <6>3. Len(old) + q[2] \in 1..(m - 1)
            BY <1>3, <2>2, <2>3, <6>1, <6>2
          <6> QED BY <2>4, <6>1, <6>3
        <5> QED BY <5>1, <5>2
      <4> QED BY <4>2, <4>3
    <3> QED BY <3>1, <3>2
  <2>7. adv'.uuids = us
    BY <2>1 DEF us, old, new
  <2>8. \A p \in Places' : \E m \in 1..Len(adv'.uuids) : adv'.uuids[m] = At(p)
    BY <2>5, <2>7
  <2>9. \A m \in 1..Len(adv'.uuids) :
          \E p \in Places' : /\ adv'.uuids[m] = At(p)
                             /\ \A q \in Places' : Before(q, p) => \E l \in 1..(m - 1) : adv'.uuids[l] = At(q)
    BY <2>6, <2>7
  <2>10. RawInv'
    BY <2>8, <2>9, RawPrimed, Zenon
  <2> QED BY <2>3, <2>7, <2>10
<1> QED BY <1>5, <1>6

-----------------------------------------------------------------------------
(* The keys *)

\* dict.fromkeys() takes one more UUID.
LEMMA KeyStep ==
  ASSUME TypeOK, KeysInv, k < Len(adv.uuids), kept' = Key(kept, adv.uuids[k + 1]),
         k' = k + 1, adv' = adv
  PROVE  kept' \in Seq(Uuid128) /\ KeysInv'
<1> DEFINE us == adv.uuids
           u == us[k + 1]
<1>1. /\ us \in Seq(Uuid128) /\ Len(us) \in Nat /\ k \in Nat /\ k + 1 \in 1..Len(us)
      /\ kept \in Seq(Uuid128) /\ Len(kept) \in Nat
  BY DEF TypeOK
<1>2. u \in Uuid128
  BY <1>1, ElementOfSeq
<1>3. /\ \A m \in 1..k : \E n \in 1..Len(kept) : kept[n] = us[m]
      /\ \A n \in 1..Len(kept) :
           \E m \in 1..k : /\ kept[n] = us[m]
                           /\ \A l \in 1..(m - 1) : \E o \in 1..(n - 1) : kept[o] = us[l]
      /\ \A m, n \in 1..Len(kept) : kept[m] = kept[n] => m = n
  BY DEF KeysInv
<1>4. u \in Range(kept) <=> \E n \in 1..Len(kept) : kept[n] = u
  BY <1>1 DEF Range
<1> HIDE DEF us
<1>5. SUFFICES /\ kept' \in Seq(Uuid128)
               /\ \A m \in 1..(k + 1) : \E n \in 1..Len(kept') : kept'[n] = us[m]
               /\ \A n \in 1..Len(kept') :
                    \E m \in 1..(k + 1) :
                      /\ kept'[n] = us[m]
                      /\ \A l \in 1..(m - 1) : \E o \in 1..(n - 1) : kept'[o] = us[l]
               /\ \A m, n \in 1..Len(kept') : kept'[m] = kept'[n] => m = n
  <2>1. k' <= Len(adv'.uuids) /\ adv'.uuids = us
    BY <1>1 DEF us
  <2> QED BY <2>1 DEF KeysInv
<1>6. CASE u \in Range(kept)
  <2>1. kept' = kept
    BY <1>6 DEF Key, us
  <2>2. ASSUME NEW m \in 1..(k + 1) PROVE \E n \in 1..Len(kept) : kept[n] = us[m]
    <3>1. CASE m = k + 1
      BY <1>4, <1>6, <3>1
    <3>2. CASE m # k + 1
      BY <1>1, <1>3, <3>2
    <3> QED BY <3>1, <3>2
  <2>3. ASSUME NEW n \in 1..Len(kept)
        PROVE  \E m \in 1..(k + 1) :
                 /\ kept[n] = us[m]
                 /\ \A l \in 1..(m - 1) : \E o \in 1..(n - 1) : kept[o] = us[l]
    <3>1. PICK m \in 1..k : /\ kept[n] = us[m]
                            /\ \A l \in 1..(m - 1) : \E o \in 1..(n - 1) : kept[o] = us[l]
      BY <1>3
    <3>2. m \in 1..(k + 1)
      BY <1>1
    <3> QED BY <3>1, <3>2
  <2> QED BY <1>1, <1>3, <2>1, <2>2, <2>3
<1>7. CASE u \notin Range(kept)
  <2> DEFINE new == Append(kept, u)
  <2>1. kept' = new
    BY <1>7 DEF Key, us
  <2>2. /\ new \in Seq(Uuid128) /\ Len(new) = Len(kept) + 1
        /\ \A n \in 1..Len(kept) : new[n] = kept[n]
        /\ new[Len(kept) + 1] = u
    BY <1>1, <1>2, AppendProperties
  <2> HIDE DEF new
  <2>3. \A n \in 1..Len(kept) : kept[n] # u
    BY <1>4, <1>7
  <2>4. ASSUME NEW m \in 1..(k + 1) PROVE \E n \in 1..Len(new) : new[n] = us[m]
    <3>1. CASE m = k + 1
      BY <1>1, <2>2, <3>1
    <3>2. CASE m # k + 1
      <4>1. PICK n \in 1..Len(kept) : kept[n] = us[m]
        BY <1>1, <1>3, <3>2
      <4> QED BY <1>1, <2>2, <4>1
    <3> QED BY <3>1, <3>2
  <2>5. ASSUME NEW n \in 1..Len(new)
        PROVE  \E m \in 1..(k + 1) :
                 /\ new[n] = us[m]
                 /\ \A l \in 1..(m - 1) : \E o \in 1..(n - 1) : new[o] = us[l]
    <3>1. CASE n = Len(kept) + 1
      <4>1. ASSUME NEW l \in 1..k PROVE \E o \in 1..(n - 1) : new[o] = us[l]
        <5>1. PICK o \in 1..Len(kept) : kept[o] = us[l]
          BY <1>3
        <5> QED BY <1>1, <2>2, <3>1, <5>1
      <4>2. new[n] = us[k + 1] /\ (k + 1) - 1 = k /\ k + 1 \in 1..(k + 1)
        BY <1>1, <2>2, <3>1
      <4> QED BY <4>1, <4>2
    <3>2. CASE n # Len(kept) + 1
      <4>1. n \in 1..Len(kept)
        BY <1>1, <2>2, <3>2
      <4>2. PICK m \in 1..k : /\ kept[n] = us[m]
                              /\ \A l \in 1..(m - 1) : \E o \in 1..(n - 1) : kept[o] = us[l]
        BY <1>3, <4>1
      <4>3. ASSUME NEW l \in 1..(m - 1) PROVE \E o \in 1..(n - 1) : new[o] = us[l]
        <5>1. PICK o \in 1..(n - 1) : kept[o] = us[l]
          BY <4>2
        <5>2. o \in 1..Len(kept)
          BY <1>1, <4>1
        <5> QED BY <2>2, <5>1, <5>2
      <4>4. m \in 1..(k + 1) /\ new[n] = us[m]
        BY <1>1, <2>2, <4>1, <4>2
      <4> QED BY <4>3, <4>4
    <3> QED BY <3>1, <3>2
  <2>6. ASSUME NEW m \in 1..Len(new), NEW n \in 1..Len(new), new[m] = new[n]
        PROVE  m = n
    <3>1. m \in 1..Len(kept) \/ m = Len(kept) + 1
      BY <1>1, <2>2
    <3>2. n \in 1..Len(kept) \/ n = Len(kept) + 1
      BY <1>1, <2>2
    <3> QED BY <1>3, <2>2, <2>3, <2>6, <3>1, <3>2
  <2> QED BY <2>1, <2>2, <2>4, <2>5, <2>6
<1> QED BY <1>6, <1>7

\* The places of the UUIDs are in one order.
LEMMA PlacesOrdered ==
  ASSUME NEW p \in Places, NEW q \in Places, p # q
  PROVE  Before(p, q) \/ Before(q, p)
<1>1. ASSUME NEW r \in Places
      PROVE  r = <<r[1], r[2]>> /\ r[1] \in Int /\ r[2] \in Int
  <2>1. PICK j \in Seen : \E m \in Numbers(j) : r = <<j, m>>
    BY DEF Places
  <2>2. PICK m \in Numbers(j) : r = <<j, m>>
    BY <2>1
  <2>3. j \in Int /\ m \in Int
    BY DEF Seen, Numbers
  <2> QED BY <2>2, <2>3
<1>2. p = <<p[1], p[2]>> /\ p[1] \in Int /\ p[2] \in Int
  BY <1>1
<1>3. q = <<q[1], q[2]>> /\ q[1] \in Int /\ q[2] \in Int
  BY <1>1
<1> QED BY <1>2, <1>3 DEF Before

LEMMA UuidsPrimed ==
  ASSUME body' = body
  PROVE  UuidsExact' <=>
           (status' = "done" =>
            /\ Range(adv'.uuids) = {At(p) : p \in Places'}
            /\ \A m, n \in 1..Len(adv'.uuids) : m < n =>
                 /\ adv'.uuids[m] # adv'.uuids[n]
                 /\ \E p \in Places' :
                      /\ At(p) = adv'.uuids[m]
                      /\ \A q \in Places' : At(q) = adv'.uuids[n] => Before(p, q))
BY DEF UuidsExact, At, Type, Value

\* The keys of the raw list are the UUIDs advertised.
LEMMA KeysExact ==
  ASSUME TypeOK, RawInv, KeysInv, status = "fromkeys", k = Len(adv.uuids)
  PROVE  /\ Range(kept) = {At(p) : p \in Places}
         /\ \A m, n \in 1..Len(kept) : m < n =>
              /\ kept[m] # kept[n]
              /\ \E p \in Places : /\ At(p) = kept[m]
                                   /\ \A q \in Places : At(q) = kept[n] => Before(p, q)
<1> DEFINE us == adv.uuids
<1>1. /\ k \in Nat /\ kept \in Seq(Uuid128) /\ Len(kept) \in Nat
  BY DEF TypeOK
<1>2. /\ \A p \in Places : \E n \in 1..k : us[n] = At(p)
      /\ \A n \in 1..k :
           \E p \in Places : /\ us[n] = At(p)
                             /\ \A q \in Places : Before(q, p) => \E m \in 1..(n - 1) : us[m] = At(q)
  BY DEF RawInv
<1>3. /\ \A m \in 1..k : \E n \in 1..Len(kept) : kept[n] = us[m]
      /\ \A n \in 1..Len(kept) :
           \E m \in 1..k : /\ kept[n] = us[m]
                           /\ \A l \in 1..(m - 1) : \E o \in 1..(n - 1) : kept[o] = us[l]
      /\ \A m, n \in 1..Len(kept) : kept[m] = kept[n] => m = n
  BY DEF KeysInv
<1> HIDE DEF us
<1>4. Range(kept) = {At(p) : p \in Places}
  <2>1. Range(kept) = {kept[n] : n \in 1..Len(kept)}
    BY <1>1 DEF Range
  <2>2. ASSUME NEW p \in Places PROVE \E n \in 1..Len(kept) : kept[n] = At(p)
    <3>1. PICK m \in 1..k : us[m] = At(p)
      BY <1>2
    <3>2. PICK n \in 1..Len(kept) : kept[n] = us[m]
      BY <1>3
    <3> QED BY <3>1, <3>2
  <2>3. ASSUME NEW n \in 1..Len(kept) PROVE \E p \in Places : kept[n] = At(p)
    <3>1. PICK m \in 1..k : kept[n] = us[m]
      BY <1>3
    <3> QED BY <1>2, <3>1
  <2> QED BY <2>1, <2>2, <2>3
<1>5. ASSUME NEW m \in 1..Len(kept), NEW n \in 1..Len(kept), m < n
      PROVE  /\ kept[m] # kept[n]
             /\ \E p \in Places : /\ At(p) = kept[m]
                                  /\ \A q \in Places : At(q) = kept[n] => Before(p, q)
  <2>1. kept[m] # kept[n]
    BY <1>1, <1>3, <1>5
  <2>2. PICK a \in 1..k : /\ kept[m] = us[a]
                          /\ \A l \in 1..(a - 1) : \E o \in 1..(m - 1) : kept[o] = us[l]
    BY <1>3
  <2>3. PICK p \in Places : /\ us[a] = At(p)
                            /\ \A q \in Places : Before(q, p) => \E l \in 1..(a - 1) : us[l] = At(q)
    BY <1>2
  <2>4. ASSUME NEW q \in Places, At(q) = kept[n], ~Before(p, q)
        PROVE  FALSE
    <3>1. p # q
      BY <2>1, <2>2, <2>3, <2>4
    <3>2. Before(q, p)
      BY <2>4, <3>1, PlacesOrdered
    <3>3. PICK l \in 1..(a - 1) : us[l] = At(q)
      BY <2>3, <3>2
    <3>4. PICK o \in 1..(m - 1) : kept[o] = us[l]
      BY <2>2
    <3>5. o \in 1..Len(kept) /\ o # n
      BY <1>1, <1>5
    <3>6. kept[o] = kept[n]
      BY <2>4, <3>3, <3>4
    <3> QED BY <1>3, <3>5, <3>6
  <2> QED BY <2>1, <2>2, <2>3, <2>4
<1> QED BY <1>4, <1>5

-----------------------------------------------------------------------------
(* The invariant holds *)

Inv == ShapeInv /\ TypeOK /\ FieldsAgree /\ RawInv /\ KeptInv /\ UuidsExact

LEMMA InitInv == Init => Inv
<1> SUFFICES ASSUME Init PROVE Inv
  OBVIOUS
<1>1. Len(body.data) \in Nat
  BY BodiesAssumption DEF Init
<1>2. /\ i = 0 /\ kept = <<>> /\ k = 0 /\ status \in {"loop", "malformed"} /\ body \in Bodies
      /\ adv = [name |-> None, uuids |-> <<>>, tx |-> None, sdata |-> Empty, mdata |-> Empty]
  BY DEF Init
<1>3. Seen = {} /\ DOMAIN Empty = {}
  BY <1>2 DEF Seen, Empty
<1>4. ShapeInv
  BY <1>2 DEF ShapeInv
<1>5. TypeOK
  BY <1>1, <1>2, <1>3 DEF TypeOK
<1>6. FieldsAgree
  <2>1. Named = {} /\ Powered = {} /\ WithCompany = {}
    BY <1>3 DEF Named, Powered, WithCompany
  <2> QED BY <1>2, <1>3, <2>1 DEF FieldsAgree, LastOr, DataAgrees, CompanyAgrees
<1>7. RawInv
  <2>1. Places = {}
    BY <1>3 DEF Places
  <2> QED BY <1>2, <2>1 DEF RawInv
<1>8. KeptInv /\ UuidsExact
  BY <1>2 DEF KeptInv, UuidsExact
<1> QED BY <1>4, <1>5, <1>6, <1>7, <1>8 DEF Inv

LEMMA StructureInv == Inv /\ Structure => Inv'
<1> SUFFICES ASSUME Inv, Structure PROVE Inv'
  OBVIOUS
<1>1. ShapeInv /\ TypeOK /\ FieldsAgree /\ RawInv /\ KeptInv /\ UuidsExact
  BY DEF Inv
<1>2. /\ body' = body /\ i' = i + 1 /\ i \in Nat /\ i + 1 \in 1..Len(body.data)
      /\ kept' = kept /\ k' = k /\ status = "loop" /\ status' \in {"loop", "raised"}
      /\ Seen \subseteq 1..i
  BY <1>1, StructureFacts
<1>3. KeptInv' /\ UuidsExact'
  BY <1>1, <1>2 DEF KeptInv, UuidsExact
<1>4. i' \in 0..Len(body'.data)
  <2>1. Len(body.data) \in Nat
    BY <1>1, BodyFacts
  <2> QED BY <1>2, <2>1
<1>5. CASE Seen' = Seen /\ adv' = adv
  <2>1. ShapeInv' /\ TypeOK'
    BY <1>1, <1>2, <1>4, <1>5 DEF ShapeInv, TypeOK
  <2>2. FieldsAgree'
    BY <1>1, <1>2, <1>5, FieldsSame
  <2>3. RawInv'
    BY <1>1, <1>2, <1>5, RawSame
  <2> QED BY <1>3, <2>1, <2>2, <2>3 DEF Inv
<1>6. CASE /\ Seen' = Seen \cup {i + 1} /\ status' = "loop"
           /\ adv' = Parsed(Type(i + 1), Value(i + 1))
           /\ Value(i + 1) \in Octets
  <2> DEFINE t == Type(i + 1)
             v == Value(i + 1)
  <2>1. ShapeInv'
    BY <1>1, <1>2, <1>6, ParsedFacts DEF ShapeInv
  <2>2. FieldsAgree'
    BY <1>1, <1>2, <1>6, FieldsParsed
  <2>3. adv'.uuids \in Seq(Uuid128) /\ RawInv'
    BY <1>1, <1>2, <1>6, RawParsed
  <2>4. DOMAIN adv'.sdata \subseteq Uuid128
    <3>1. CASE DataWidth(t) # 0 /\ Len(v) >= DataWidth(t)
      <4>1. DataWidth(t) \in {2, 4, 16}
        BY <3>1 DEF DataWidth
      <4>2. SubSeq(v, 1, DataWidth(t)) \in Octets /\ Len(SubSeq(v, 1, DataWidth(t))) = DataWidth(t)
        BY <1>6, <3>1, <4>1, PartFacts
      <4>3. Uuid(DataWidth(t), SubSeq(v, 1, DataWidth(t))) \in Uuid128
        BY <4>1, <4>2, UuidType
      <4>4. adv'.sdata = Store(adv.sdata, Uuid(DataWidth(t), SubSeq(v, 1, DataWidth(t))),
                               SubSeq(v, DataWidth(t) + 1, Len(v)))
        BY <1>1, <1>6, <3>1, ParsedFacts
      <4> QED BY <1>1, <4>3, <4>4 DEF Store, TypeOK
    <3>2. CASE ~(DataWidth(t) # 0 /\ Len(v) >= DataWidth(t))
      BY <1>1, <1>6, <3>2, ParsedFacts DEF TypeOK
    <3> QED BY <3>1, <3>2
  <2>5. adv'.tx \in {None} \cup -128..127
    <3>1. v # <<>> => SignedByte(v[1]) \in -128..127
      BY <1>6, FirstByte, SignedByteFacts
    <3>2. adv'.tx = IF t = 10 /\ v # <<>> THEN SignedByte(v[1]) ELSE adv.tx
      BY <1>1, <1>6, ParsedFacts
    <3> QED BY <1>1, <3>1, <3>2 DEF TypeOK
  <2>6. TypeOK'
    BY <1>1, <1>2, <1>4, <2>3, <2>4, <2>5 DEF TypeOK
  <2> QED BY <1>3, <2>1, <2>2, <2>3, <2>6 DEF Inv
<1> QED BY <1>1, <1>5, <1>6, StructureFacts

LEMMA NextInv == Inv /\ [Next]_vars => Inv'
<1> SUFFICES ASSUME Inv, [Next]_vars PROVE Inv'
  OBVIOUS
<1>1. ShapeInv /\ TypeOK /\ FieldsAgree /\ RawInv /\ KeptInv /\ UuidsExact
  BY DEF Inv
<1>2. CASE Structure
  BY <1>2, StructureInv
<1>3. CASE Structured
  <2>1. UNCHANGED <<body, i, adv, kept, k>> /\ status = "loop"
    BY <1>3 DEF Structured
  <2>2. Seen' = Seen
    BY <2>1 DEF Seen
  <2>3. ShapeInv' /\ TypeOK'
    BY <1>1, <1>3, <2>1 DEF Structured, ShapeInv, TypeOK
  <2>4. FieldsAgree'
    BY <1>1, <2>1, <2>2, FieldsSame
  <2>5. RawInv'
    BY <1>1, <2>1, <2>2, RawSame
  <2>6. KeptInv'
    <3>1. kept = <<>> /\ k = 0 /\ adv.uuids \in Seq(Uuid128)
      BY <1>1, <2>1 DEF KeptInv, TypeOK
    <3>2. KeysInv'
      BY <2>1, <3>1 DEF KeysInv
    <3> QED BY <1>3, <3>2 DEF KeptInv, Structured
  <2>7. UuidsExact'
    <3>1. CASE adv.uuids = <<>>
      <4>1. Places = {}
        BY <1>1, <2>1, <3>1 DEF RawInv
      <4>2. Places' = {}
        BY <2>1, <2>2, <4>1, PlacesSame
      <4>3. Range(adv'.uuids) = {} /\ Len(adv'.uuids) = 0
        BY <2>1, <3>1 DEF Range
      <4> QED BY <2>1, <4>2, <4>3, UuidsPrimed
    <3>2. CASE adv.uuids # <<>>
      BY <1>3, <3>2 DEF Structured, UuidsExact
    <3> QED BY <3>1, <3>2
  <2> QED BY <2>3, <2>4, <2>5, <2>6, <2>7 DEF Inv
<1>4. CASE FromKeys
  <2>1. /\ UNCHANGED <<body, i, adv, status>> /\ status = "fromkeys" /\ k < Len(adv.uuids)
        /\ kept' = Key(kept, adv.uuids[k + 1]) /\ k' = k + 1
    BY <1>4 DEF FromKeys
  <2>2. Seen' = Seen
    BY <2>1 DEF Seen
  <2>3. kept' \in Seq(Uuid128) /\ KeysInv'
    BY <1>1, <2>1, KeyStep DEF KeptInv
  <2>4. ShapeInv' /\ TypeOK'
    BY <1>1, <2>1, <2>3 DEF ShapeInv, TypeOK
  <2>5. FieldsAgree'
    BY <1>1, <2>1, <2>2, FieldsSame
  <2>6. RawInv'
    BY <1>1, <2>1, <2>2, RawSame
  <2>7. KeptInv' /\ UuidsExact'
    BY <2>1, <2>3 DEF KeptInv, UuidsExact
  <2> QED BY <2>4, <2>5, <2>6, <2>7 DEF Inv
<1>5. CASE Return
  <2>1. /\ UNCHANGED <<body, i, kept, k>> /\ status = "fromkeys" /\ k = Len(adv.uuids)
        /\ status' = "done" /\ adv' = [adv EXCEPT !.uuids = kept]
    BY <1>5 DEF Return
  <2>2. Seen' = Seen
    BY <2>1 DEF Seen
  <2>3. /\ adv'.uuids = kept /\ adv'.name = adv.name /\ adv'.tx = adv.tx
        /\ adv'.sdata = adv.sdata /\ adv'.mdata = adv.mdata
        /\ adv' = [name |-> adv'.name, uuids |-> adv'.uuids, tx |-> adv'.tx,
                   sdata |-> adv'.sdata, mdata |-> adv'.mdata]
    BY <1>1, <2>1 DEF ShapeInv
  <2>4. ShapeInv' /\ TypeOK'
    BY <1>1, <2>1, <2>3 DEF ShapeInv, TypeOK
  <2>5. FieldsAgree'
    BY <1>1, <2>1, <2>2, <2>3, FieldsSame
  <2>6. RawInv' /\ KeptInv'
    BY <2>1 DEF RawInv, KeptInv
  <2>7. UuidsExact'
    <3>1. KeysInv
      BY <1>1, <2>1 DEF KeptInv
    <3>2. Places' = Places
      BY <2>1, <2>2, PlacesSame
    <3> QED BY <1>1, <2>1, <2>3, <3>1, <3>2, KeysExact, UuidsPrimed
  <2> QED BY <2>4, <2>5, <2>6, <2>7 DEF Inv
<1>6. CASE Terminated \/ UNCHANGED vars
  <2>1. UNCHANGED <<body, i, adv, status, kept, k>>
    BY <1>6 DEF Terminated, vars
  <2>2. Seen' = Seen
    BY <2>1 DEF Seen
  <2>3. ShapeInv' /\ TypeOK' /\ KeptInv'
    BY <1>1, <2>1 DEF ShapeInv, TypeOK, KeptInv, KeysInv
  <2>4. FieldsAgree'
    BY <1>1, <2>1, <2>2, FieldsSame
  <2>5. RawInv'
    BY <1>1, <2>1, <2>2, RawSame
  <2>6. UuidsExact'
    <3>1. Places' = Places
      BY <2>1, <2>2, PlacesSame
    <3> QED BY <1>1, <2>1, <3>1, UuidsPrimed DEF UuidsExact
  <2> QED BY <2>3, <2>4, <2>5, <2>6 DEF Inv
<1> QED BY <1>2, <1>3, <1>4, <1>5, <1>6 DEF Next

-----------------------------------------------------------------------------
(* The theorems *)

\* What parse_advertisement builds is what the body says, whatever the bodies.
THEOREM Invariance == Spec => []Inv
BY InitInv, NextInv, PTL DEF Spec

\* Every field keeps its type: each UUID parsed is 128 bits wide whatever its
\* width on the air was, and the power is a signed byte.
THEOREM TypeCorrect == Spec => []TypeOK
<1>1. Inv => TypeOK
  BY DEF Inv
<1> QED BY <1>1, Invariance, PTL

\* Name, power, service data and manufacturer data are at any time those of the
\* last complete structure about them, for any number and order of structures.
THEOREM FieldsCorrect == Spec => []FieldsAgree
<1>1. Inv => FieldsAgree
  BY DEF Inv
<1> QED BY <1>1, Invariance, PTL

\* The service_uuids returned are the complete UUIDs advertised, each once, in
\* the order of first appearance, for any number of lists of any length.
THEOREM UuidsCorrect == Spec => []UuidsExact
<1>1. Inv => UuidsExact
  BY DEF Inv
<1> QED BY <1>1, Invariance, PTL
=============================================================================
