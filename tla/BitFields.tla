----------------------------- MODULE BitFields -----------------------------
(***************************************************************************)
(* Numbers and buffers down to their bits, for the formats that the code   *)
(* writes with shifts and masks.  An unsigned number is the set of its one *)
(* bits, 0 the lowest, so that | is \cup and 33 or 64 bits are no trouble. *)
(* A buffer is the set of its one bits counted from its first octet's      *)
(* highest, the order in which they go out.                                *)
(***************************************************************************)
EXTENDS Integers, Sequences, FiniteSets, FiniteSetsExt, SequencesExt

Ones(w) == 0 .. w - 1
Low(v, w) == v \cap Ones(w)
Shl(v, k) == {b + k : b \in v}
Shr(v, k) == {b - k : b \in {c \in v : c >= k}}
Number(v) == MapThenSumSet(LAMBDA b : 2 ^ b, v)
BitsOf(n) == {b \in 0 .. 15 : (n \div 2 ^ b) % 2 = 1}

(* nbo_w8(), nbo_w16() and nbo_w32(): n octets from octet at. *)
Put(buf, at, n, v) ==
    (buf \ (8 * at .. 8 * (at + n) - 1)) \cup {8 * (at + n) - 1 - b : b \in Low(v, 8 * n)}

(* nbo_r16() and nbo_r32(). *)
Get(buf, at, n) ==
    {8 * (at + n) - 1 - p : p \in buf \cap (8 * at .. 8 * (at + n) - 1)}

-----------------------------------------------------------------------------
(* A layout is a sequence of words, in the order they are written; a word  *)
(* is made of fields, each with its mask's width and its shift.            *)

Field(f, w, sh) == [f |-> f, w |-> w, sh |-> sh]
Word(at, n, fields) == [at |-> at, n |-> n, fields |-> fields]
Whole(at, n, f) == Word(at, n, {Field(f, 8 * n, 0)})

FieldsOf(layout) == {p.f : p \in UNION {w.fields : w \in Range(layout)}}

(* One item written at octet o. *)
PackItem(layout, buf, o, item) ==
    LET Value(w) == UNION {Shl(Low(item[p.f], p.w), p.sh) : p \in w.fields}
    IN  FoldLeft(LAMBDA b, w : Put(b, o + w.at, w.n, Value(w)), buf, layout)

(* One item read at octet o. *)
UnpackItem(layout, buf, o) ==
    [f \in FieldsOf(layout) |->
        LET w == CHOOSE x \in Range(layout) : \E p \in x.fields : p.f = f
            p == CHOOSE q \in w.fields : q.f = f
        IN  Low(Shr(Get(buf, o + w.at, w.n), p.sh), p.w)]
=============================================================================
