------------------------------ MODULE KeySpace ------------------------------
(***************************************************************************)
(* The schema registry seen at the level of etcd's keys: what update(),    *)
(* delete() and DeleteGroup() leave in etcd, and what ListGroup and the    *)
(* List* calls read back through listWithPrefix.  Calls are taken one at a *)
(* time (their interleavings are the subject of Registry); here the        *)
(* question is whether the byte-level layout keeps the identities          *)
(* (kind, group, name) apart, which Registry takes for granted by using    *)
(* records as keys.  The value at a key is the identity in the Metadata of *)
(* the stored body.                                                        *)
(***************************************************************************)
EXTENDS KeyCodec, FiniteSets

CONSTANTS
    GroupNames,   \* group names, each a sequence of bytes
    EntityNames,  \* entity names, each a sequence of bytes
    EntityKinds   \* the entity kinds in use

ASSUME KeySpaceAssumption ==
    /\ EntityKinds \subseteq {"stream", "measure", "indexRule", "indexRuleBinding"}
    /\ GroupNames # {}
    /\ \A s \in GroupNames \cup EntityNames :
          s \in Seq(Nat) /\ s # <<>> /\ \A i \in 1..Len(s) : s[i] <= 255

GroupId(g) == [kind |-> "group", group |-> g, name |-> g]

EntityId(kind, g, n) == [kind |-> kind, group |-> g, name |-> n]

Identities ==
    {GroupId(g) : g \in GroupNames}
    \cup {EntityId(k, g, n) : k \in EntityKinds, g \in GroupNames, n \in EntityNames}

\* Metadata.Key(): the group key, or the key of the entity's kind.
KeyOf(id) ==
    IF id.kind = "group"
    THEN formatGroupKey(id.group)
    ELSE formatKey(EntityPrefix(id.kind), id.group, id.name)

VARIABLES
    kv,    \* etcd: key -> identity of the body stored there
    last   \* the last call that changed etcd (a history variable)

vars == <<kv, last>>

\* kv.Put(key, body): the body at key, whatever was there before.
PutKey(key, id) == [x \in DOMAIN kv \cup {key} |-> IF x = key THEN id ELSE kv[x]]

\* The keys a Get or Delete WithRange(incrementLastByte(prefix)) from prefix
\* reaches.
KeysWithPrefix(prefix) == {x \in DOMAIN kv : InRange(x, prefix, incrementLastByte(prefix))}

\* What the store is left with after a Delete of the keys in K.
Without(K) == [x \in DOMAIN kv \ K |-> kv[x]]

\* The identities of the bodies etcd holds.
Bodies == {kv[x] : x \in DOMAIN kv}

Init ==
    /\ kv = <<>>
    /\ last = [op |-> "none", id |-> GroupId(CHOOSE g \in GroupNames : TRUE)]

\* update() leaves the body at Metadata.Key(), by Put or by Txn.
Update(id) ==
    /\ kv' = PutKey(KeyOf(id), id)
    /\ last' = [op |-> "update", id |-> id]

\* delete(): kv.Delete of the entity's key (nothing if it is absent).
Delete(id) ==
    /\ kv' = Without({KeyOf(id)})
    /\ last' = [op |-> "delete", id |-> id]

\* Mutant: the range of the group without the "/" that closes its name.
DeleteGroupNoSlash(g) ==
    LET gk == formatGroupKey(g)
    IN  /\ gk \in DOMAIN kv
        /\ kv' = Without(KeysWithPrefix(GroupsKeyPrefix \o kv[gk].name))
        /\ last' = [op |-> "deleteGroup", id |-> GroupId(g)]

\* DeleteGroup(): GetGroup must find the group key (else NotFound and no
\* write); then the range "/groups/" + g.GetMetadata().GetName() + "/" of
\* the body read is deleted.
DeleteGroup(g) ==
    LET gk == formatGroupKey(g)
    IN  /\ gk \in DOMAIN kv
        /\ LET prefix == GroupsKeyPrefix \o kv[gk].name \o <<47>>  \* + "/"
           IN  kv' = Without(KeysWithPrefix(prefix))
        /\ last' = [op |-> "deleteGroup", id |-> GroupId(g)]

Next ==
    \/ \E g \in GroupNames : Update(GroupId(g)) \/ DeleteGroup(g)
    \/ \E k \in EntityKinds, g \in GroupNames, n \in EntityNames :
          Update(EntityId(k, g, n)) \/ Delete(EntityId(k, g, n))

Spec == Init /\ [][Next]_vars

-----------------------------------------------------------------------------
(* Reads                                                                   *)

\* listWithPrefix: every body in [prefix, incrementLastByte(prefix)).
listWithPrefix(prefix) == {kv[x] : x \in KeysWithPrefix(prefix)}

\* Mutant: ListGroup without the suffix filter.
ListGroupNoSuffix == {kv[x] : x \in KeysWithPrefix(GroupsKeyPrefix)}

\* ListGroup: the scan of "/groups/" kept to the keys ending in
\* "/__meta_group__".
ListGroup == {kv[x] : x \in {y \in KeysWithPrefix(GroupsKeyPrefix) : HasSuffix(y, GroupMetadataKey)}}

\* ListStream, ListMeasure, ListIndexRule, ListIndexRuleBinding of a group.
ListEntity(kind, g) == listWithPrefix(listPrefixesForEntity(g, EntityPrefix(kind)))

-----------------------------------------------------------------------------
(* Properties                                                              *)

\* An update replaces only the body of its own identity: no other stored
\* entity or group disappears because its key is the same string.
UpdateKeepsOthers ==
    [][last'.op = "update" => Bodies \ {last'.id} \subseteq Bodies']_vars

\* DeleteGroup(g) removes exactly group g and the entities of group g: the
\* ranged delete of "/groups/<g>/" reaches no key of another group.
DeleteGroupExact ==
    [][last'.op = "deleteGroup" =>
          Bodies' = {id \in Bodies : id.group # last'.id.group}]_vars

\* ListGroup returns exactly the stored groups: the suffix filter of the
\* "/groups/" scan keeps every group key and no entity key.
ListGroupExact == ListGroup = {id \in Bodies : id.kind = "group"}

\* List of a kind in a group returns exactly the stored entities of that
\* kind and group.
ListEntityExact ==
    \A k \in EntityKinds, g \in GroupNames :
        ListEntity(k, g) = {id \in Bodies : id.kind = k /\ id.group = g}

=============================================================================
