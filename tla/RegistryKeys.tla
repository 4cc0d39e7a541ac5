---------------------------- MODULE RegistryKeys ----------------------------
(***************************************************************************)
(* Identities, keys and calls of the etcd schema registry                  *)
(* (src/banyand/metadata/schema/etcd.go).  A key is the identity that      *)
(* formatKey / formatGroupKey turn into an etcd path; here it is the       *)
(* record (kind, group, name) the path is built from, so two identities    *)
(* have the same key exactly when they are equal.  Whether the string     *)
(* encoding keeps that promise is the concern of the KeyCodec module.      *)
(***************************************************************************)
EXTENDS Naturals, Sequences

CONSTANTS
    Clients,      \* goroutines calling the registry concurrently
    Groups,       \* group names
    Names,        \* entity names inside a group
    EntityKinds,  \* schema kinds stored under a group besides the group itself
    Vals,         \* the serialized bodies (Spec) an entity can have
    Interest,     \* interest masks of the handlers, in registration order
    NoEntity      \* the value of an absent key

\* Kind constants (KindGroup, KindStream, ...); a kind is one bit of KindMask.
KindGroup == "group"
AllEntityKinds == {"stream", "measure", "indexRule", "indexRuleBinding"}
Kinds == {KindGroup} \cup EntityKinds

ASSUME KindsAssumption == EntityKinds \subseteq AllEntityKinds
ASSUME NoEntityAssumption == NoEntity \notin Vals
ASSUME GroupsAssumption == Groups # {}
ASSUME InterestAssumption == Interest \in Seq(SUBSET Kinds)

\* formatGroupKey(group): "/groups/" + group + "/__meta_group__"
GroupKey(g) == [kind |-> KindGroup, group |-> g, name |-> g]

\* formatKey(entityPrefix, metadata): "/groups/" + group + prefix + name
EntityKey(k, g, n) == [kind |-> k, group |-> g, name |-> n]

GroupKeys == {GroupKey(g) : g \in Groups}
EntityKeys == {EntityKey(k, g, n) : k \in EntityKinds, g \in Groups, n \in Names}
Keys == GroupKeys \cup EntityKeys

\* The keys the range [prefix, incrementLastByte(prefix)) of
\* prefix = "/groups/" + g + "/" covers in DeleteGroup.
GroupSubtree(g) == {x \in Keys : x.group = g}

\* eventHandler.InterestOf: KindMask & kind & interestKeys != 0
InterestOf(mask, kind) == kind \in mask

Handlers == 1..Len(Interest)

\* The mutating calls: Update<Kind>/UpdateGroup go to update(),
\* Delete<Kind> to delete(), DeleteGroup to DeleteGroup().
Requests ==
    [op : {"update"}, key : Keys, val : Vals]
    \cup [op : {"delete"}, key : EntityKeys, val : {NoEntity}]
    \cup [op : {"deleteGroup"}, key : GroupKeys, val : {NoEntity}]
    \cup [op : {"get"}, key : Keys, val : {NoEntity}]

\* What a call returns: nil ("ok"), (true, nil) ("deleted"),
\* (false, nil) ("notdeleted"), ErrConcurrentModification ("conflict"),
\* ErrEntityNotFound ("notfound"), an error of the kv client ("err"), or
\* the body a Get* call read.
\* The request field of a client that has not called yet.
NoRequest == CHOOSE r \in Requests : TRUE

Results == {"none", "ok", "deleted", "notdeleted", "conflict", "notfound", "err"} \cup Vals
=============================================================================
