------------------------------ MODULE KeyCodec ------------------------------
(***************************************************************************)
(* The etcd key layout of the schema registry (the key helpers at the end  *)
(* of src/banyand/metadata/schema/etcd.go), at the level of bytes.  A key  *)
(* is a sequence of byte values, and so is a name: a Go string is its      *)
(* bytes, and the concatenations of the code work on them unchanged.       *)
(* etcd orders keys by bytes.Compare, which KeyLess is.                    *)
(***************************************************************************)
EXTENDS Naturals, Sequences

\* The key literals of etcd.go, as the bytes of their Go strings.

\* "/groups/"
GroupsKeyPrefix == <<47, 103, 114, 111, 117, 112, 115, 47>>

\* "/__meta_group__"
GroupMetadataKey == <<47, 95, 95, 109, 101, 116, 97, 95, 103, 114, 111, 117, 112, 95, 95>>

\* "/streams/"
StreamKeyPrefix == <<47, 115, 116, 114, 101, 97, 109, 115, 47>>

\* "/index-rule-bindings/"
IndexRuleBindingKeyPrefix ==
    <<47, 105, 110, 100, 101, 120, 45, 114, 117, 108, 101, 45,
      98, 105, 110, 100, 105, 110, 103, 115, 47>>

\* "/index-rules/"
IndexRuleKeyPrefix == <<47, 105, 110, 100, 101, 120, 45, 114, 117, 108, 101, 115, 47>>

\* "/measures/"
MeasureKeyPrefix == <<47, 109, 101, 97, 115, 117, 114, 101, 115, 47>>

\* formatStreamKey, formatMeasureKey, formatIndexRuleKey and
\* formatIndexRuleBindingKey pick the prefix of their kind.
EntityPrefix(kind) ==
    CASE kind = "stream" -> StreamKeyPrefix
      [] kind = "measure" -> MeasureKeyPrefix
      [] kind = "indexRule" -> IndexRuleKeyPrefix
      [] kind = "indexRuleBinding" -> IndexRuleBindingKeyPrefix

\* Mutant: the name left out of an entity key.
formatKeyNoName(entityPrefix, group, name) == GroupsKeyPrefix \o group \o entityPrefix

formatKey(entityPrefix, group, name) == GroupsKeyPrefix \o group \o entityPrefix \o name

formatGroupKey(group) == GroupsKeyPrefix \o group \o GroupMetadataKey

\* Mutant: a List scans the whole group directory.
listPrefixesNoKind(group, entityPrefix) == GroupsKeyPrefix \o group

listPrefixesForEntity(group, entityPrefix) == GroupsKeyPrefix \o group \o entityPrefix

\* bb[len(bb)-1]++ on a byte: 0xFF wraps to 0x00.
incrementLastByte(key) == [key EXCEPT ![Len(key)] = (key[Len(key)] + 1) % 256]

\* strings.HasPrefix(s, prefix) and strings.HasSuffix(s, suffix), on bytes.
HasPrefix(s, prefix) == Len(prefix) <= Len(s) /\ SubSeq(s, 1, Len(prefix)) = prefix

HasSuffix(s, suffix) ==
    Len(suffix) <= Len(s) /\ SubSeq(s, Len(s) - Len(suffix) + 1, Len(s)) = suffix

\* bytes.Compare(s, t) < 0: a strict prefix is smaller, else the first
\* differing byte decides.
KeyLess(s, t) ==
    \/ Len(s) < Len(t) /\ HasPrefix(t, s)
    \/ \E i \in 1..Len(s) :
          /\ i <= Len(t)
          /\ SubSeq(s, 1, i - 1) = SubSeq(t, 1, i - 1)
          /\ s[i] < t[i]

\* A key of the range [from, end) of a Get or Delete WithRange(end).
InRange(key, from, end) == ~KeyLess(key, from) /\ KeyLess(key, end)

=============================================================================
