----------------------------- MODULE IndexField -----------------------------
(***************************************************************************)
(* The write-path encoder: MarshalIndexFieldValue (the end of              *)
(* src/banyand/metadata/schema/etcd.go), the getTag conversion of the      *)
(* write builder, and the index that stores the encoded terms and answers  *)
(* the Searcher queries of src/pkg/index/index.go.  A tag value is a       *)
(* record tagged with its oneof variant; strings and binaries are byte     *)
(* sequences.  Each element carries one tag; the tag's variant is its      *)
(* field (a schema types a tag), and the element is indexed under the      *)
(* encoded term of that field, or rejected when the encoder fails.         *)
(***************************************************************************)
EXTENDS Integers, KeyCodec, SequencesExt

CONSTANTS
    Docs,       \* element ids
    IntVals,    \* int64 tag values
    Strs,       \* string and binary tag values, as byte sequences
    StrArrays,  \* string-array tag values, as sequences of byte sequences
    IntArrays   \* int64-array tag values

ASSUME IndexFieldAssumption ==
    /\ IntVals \subseteq Int
    /\ \A a \in IntArrays : Range(a) \subseteq IntVals
    /\ \A s \in Strs : s \in Seq(0..255)
    /\ \A a \in StrArrays : Range(a) \subseteq Strs

\* The oneof variants of modelv1.TagValue, and a nil *TagValue.
Null == [type |-> "null"]
NilTag == [type |-> "none"]
IntTag(i) == [type |-> "int", int |-> i]
StrTag(s) == [type |-> "str", str |-> s]
BinaryTag(b) == [type |-> "binary", binary |-> b]
StrArrayTag(a) == [type |-> "strArray", strArray |-> a]
IntArrayTag(a) == [type |-> "intArray", intArray |-> a]

\* The indexable variants, each the field a tag of that type goes to.
Fields == {"str", "int", "strArray", "intArray", "binary"}

\* The Go values a write builder is given: nil, int, string, []byte, and a
\* type getTag has no case for.
GoValues ==
    {[go |-> "nil"], [go |-> "float64"]}
    \cup {[go |-> "int", v |-> i] : i \in IntVals}
    \cup {[go |-> "string", v |-> s] : s \in Strs}
    \cup {[go |-> "bytes", v |-> s] : s \in Strs}

\* getTag: nil -> Null, int -> Int, string -> Str, []byte -> BinaryData;
\* any other type -> a nil *TagValue.
getTag(g) ==
    CASE g.go = "nil"    -> Null
      [] g.go = "int"    -> IntTag(g.v)
      [] g.go = "string" -> StrTag(g.v)
      [] g.go = "bytes"  -> BinaryTag(g.v)
      [] OTHER           -> NilTag

\* What an element's tag can be: a tag the builder made, or an array tag a
\* client sent in its request.
TagInputs ==
    {getTag(g) : g \in GoValues}
    \cup {StrArrayTag(a) : a \in StrArrays}
    \cup {IntArrayTag(a) : a \in IntArrays}

\* Mutant: the quotient is never truncated to a byte.
ByteAtUntruncated(n, p) ==
    LET q[k \in 0..p] == IF k = 0 THEN n ELSE q[k - 1] \div 256
    IN  q[p]

\* Byte p (0 the least significant) of n >= 0, by repeated division.
ByteAt(n, p) ==
    LET q[k \in 0..p] == IF k = 0 THEN n ELSE q[k - 1] \div 256
    IN  q[p] % 256

\* Mutant: the bytes of uint64(i) in little-endian order.
Int64ToBytesLittle(i) ==
    [k \in 1..8 |-> IF i >= 0 THEN ByteAt(i, k - 1) ELSE 255 - ByteAt(-i - 1, k - 1)]

\* convert.Int64ToBytes: the 8 big-endian bytes of uint64(i), that is of
\* i mod 2^64; for i < 0 each byte is 255 minus the byte of -i-1.
Int64ToBytes(i) ==
    [k \in 1..8 |-> IF i >= 0 THEN ByteAt(i, 8 - k) ELSE 255 - ByteAt(-i - 1, 8 - k)]

strDelimiter == <<10>>

\* strings.Join(a, sep): "" for no element, else the elements with sep
\* between each two.
Join(a, sep) ==
    FlattenSeq([i \in DOMAIN a |-> IF i = 1 THEN a[i] ELSE sep \o a[i]])

\* MarshalIndexFieldValue: the bytes of the tag, or the error
\* ErrUnsupportedTagForIndexField for Null and for a nil *TagValue.
MarshalIndexFieldValue(tv) ==
    CASE tv.type = "str"      -> [err |-> FALSE, bytes |-> tv.str]
      [] tv.type = "int"      -> [err |-> FALSE, bytes |-> Int64ToBytes(tv.int)]
      [] tv.type = "strArray" -> [err |-> FALSE, bytes |-> Join(tv.strArray, strDelimiter)]
      [] tv.type = "intArray" ->
            [err |-> FALSE,
             bytes |-> FlattenSeq([i \in DOMAIN tv.intArray |-> Int64ToBytes(tv.intArray[i])])]
      [] tv.type = "binary"   -> [err |-> FALSE, bytes |-> tv.binary]
      [] OTHER                -> [err |-> TRUE, bytes |-> <<>>]

-----------------------------------------------------------------------------
(* The index                                                               *)

NoValue == [type |-> "unwritten"]

VARIABLES
    stored,    \* element -> the tag it was written with (a history variable)
    postings,  \* field -> set of <<term, element>>
    rejected   \* elements whose write failed with the encoder's error

vars == <<stored, postings, rejected>>

TypeOK ==
    /\ stored \in [Docs -> TagInputs \cup {NoValue}]
    /\ postings \in [Fields -> SUBSET (Seq(0..255) \X Docs)]
    /\ rejected \subseteq Docs

Init ==
    /\ stored = [d \in Docs |-> NoValue]
    /\ postings = [f \in Fields |-> {}]
    /\ rejected = {}

Unwritten(d) == stored[d] = NoValue /\ d \notin rejected

\* The element's tag encodes: its term joins the field's postings.
WriteIndexed(d, tv) ==
    LET r == MarshalIndexFieldValue(tv)
    IN  /\ Unwritten(d)
        /\ ~r.err
        /\ postings' = [postings EXCEPT ![tv.type] = @ \cup {<<r.bytes, d>>}]
        /\ stored' = [stored EXCEPT ![d] = tv]
        /\ UNCHANGED rejected

\* The encoder fails: the write is rejected and nothing is indexed.
WriteRejected(d, tv) ==
    /\ Unwritten(d)
    /\ MarshalIndexFieldValue(tv).err
    /\ rejected' = rejected \cup {d}
    /\ UNCHANGED <<stored, postings>>

Next == \E d \in Docs, tv \in TagInputs : WriteIndexed(d, tv) \/ WriteRejected(d, tv)

Spec == Init /\ [][Next]_vars

\* Searcher.MatchTerms(Field{Key, Term}): the elements indexed under the term.
MatchTerms(f, term) == {d \in Docs : <<term, d>> \in postings[f]}

\* Searcher.Range(fieldName, RangeOpts): the elements whose term lies
\* between Lower and Upper in byte order, each bound in or out by its flag.
SearchRange(f, opts) ==
    {d \in Docs :
        \E t \in {p[1] : p \in {q \in postings[f] : q[2] = d}} :
            /\ IF opts.IncludesLower THEN ~KeyLess(t, opts.Lower) ELSE KeyLess(opts.Lower, t)
            /\ IF opts.IncludesUpper THEN ~KeyLess(opts.Upper, t) ELSE KeyLess(t, opts.Upper)}

-----------------------------------------------------------------------------
(* Properties                                                              *)

\* A Range query on the int field with the encoded bounds of lo and hi
\* returns exactly the elements whose int64 lies between lo and hi, with
\* each bound in or out as asked: the encoding of Int64ToBytes keeps the
\* numeric order under bytes.Compare, as range queries need.
RangeExact ==
    \A lo, hi \in IntVals, il, iu \in BOOLEAN :
        SearchRange("int", [Lower |-> Int64ToBytes(lo), Upper |-> Int64ToBytes(hi),
                      IncludesLower |-> il, IncludesUpper |-> iu])
        = {d \in Docs :
              /\ stored[d].type = "int"
              /\ IF il THEN lo <= stored[d].int ELSE lo < stored[d].int
              /\ IF iu THEN stored[d].int <= hi ELSE stored[d].int < hi}

=============================================================================
