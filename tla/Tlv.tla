-------------------------------- MODULE Tlv --------------------------------
(***************************************************************************)
(* The TLV8 coding of pair-setup's messages (openairplay2/src/tlv.rs): a   *)
(* value longer than a fragment is cut, and consecutive fragments of one   *)
(* type are put together again.                                            *)
(***************************************************************************)
EXTENDS Naturals, Sequences, SequencesExt

CONSTANT Fragment \* bytes a fragment holds (255)

ASSUME TlvAssumption == Fragment \in Nat \ {0}

Item(ty, val) == [ty |-> ty, val |-> val]

\* Tlv::encode, as the sequence of fragments on the wire.
Chunks(val) ==
  [i \in 1..((Len(val) + Fragment - 1) \div Fragment) |->
     SubSeq(val, (i - 1) * Fragment + 1,
            IF i * Fragment < Len(val) THEN i * Fragment ELSE Len(val))]
Fragments(item) ==
  IF item.val = <<>> THEN <<item>>
  ELSE [i \in 1..Len(Chunks(item.val)) |-> Item(item.ty, Chunks(item.val)[i])]
Encode(items) == FlattenSeq([i \in 1..Len(items) |-> Fragments(items[i])])

\* Mutant of Continues: any fragment of the same type continues the last.
ContinuesAlways(last, f) == last.ty = f.ty

\* Tlv::decode: a fragment continues the item before it iff that is of its
\* type and ended with a full fragment.
Continues(last, f) ==
  last.ty = f.ty /\ last.val # <<>> /\ Len(last.val) % Fragment = 0
Add(items, f) ==
  IF items # <<>> /\ Continues(Last(items), f)
  THEN Append(Front(items), Item(f.ty, Last(items).val \o f.val))
  ELSE Append(items, f)
Decode(wire) ==
  LET read[i \in 0..Len(wire)] == IF i = 0 THEN <<>> ELSE Add(read[i - 1], wire[i])
  IN  read[Len(wire)]

\* Tlv::get: the first item of a type.
Get(items, ty) == items[CHOOSE i \in 1..Len(items) :
                          items[i].ty = ty /\ \A j \in 1..(i - 1) : items[j].ty # ty].val

-----------------------------------------------------------------------------
\* A value whose length is a multiple of a fragment's must not be followed by
\* another of its type: the two would read as one.
Separable(items) ==
  \A i \in 1..(Len(items) - 1) :
    items[i].ty = items[i + 1].ty =>
      items[i].val = <<>> \/ Len(items[i].val) % Fragment # 0

Values(n) == UNION {[1..k -> {0}] : k \in 0..n}
Messages == UNION {[1..k -> [ty : {1, 2}, val : Values(2 * Fragment + 1)]] : k \in 0..3}

\* What is encoded is decoded to the same items, the longest values and the
\* empty ones included, unless two adjacent items cannot be told apart.
RoundTrips == \A m \in Messages : Separable(m) => Decode(Encode(m)) = m
=============================================================================
