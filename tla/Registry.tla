------------------------------ MODULE Registry ------------------------------
(***************************************************************************)
(* The etcd schema registry (src/banyand/metadata/schema/etcd.go) as its   *)
(* callers run it concurrently.  Each round trip to etcd (kv.Get, kv.Put,  *)
(* kv.Txn, kv.Delete) is one atomic step of the calling client; between    *)
(* two of them the other clients run.  A round trip may fail: before it is *)
(* applied, or after (the response is lost or the context expires once the *)
(* proposal is committed), at most MaxFaults times in a behaviour.  etcd   *)
(* refuses writes once its revision reaches MaxRev, the bound of the       *)
(* model.  After a write that changed the store, the client runs the       *)
(* notify loop over the registered handlers, one handler per step.         *)
(*                                                                         *)
(* hv, hist and touched are history variables: they record what each       *)
(* handler was told, what was ever stored at a key, and whether a running  *)
(* call was overtaken by another writer of its key.  No action reads them  *)
(* in a guard.                                                             *)
(***************************************************************************)
EXTENDS RegistryKeys

CONSTANTS
    MaxRev,     \* the last revision etcd will write in the model
    MaxFaults,  \* kv round trips that may fail in one behaviour
    Reads       \* whether clients call the Get* reads

ASSUME BoundsAssumption == MaxRev \in Nat /\ MaxFaults \in Nat /\ Reads \in BOOLEAN

VARIABLES
    store,    \* etcd: key -> [val, create, mod] (a KeyValue), or NoEntity
    rev,      \* etcd: revision of the last write transaction
    faults,   \* round trips that have failed so far
    pc,       \* client -> where its call is
    req,      \* client -> the call it runs
    obs,      \* client -> the KeyValue its call read
    hi,       \* client -> index of the next handler of its notify loop
    ret,      \* client -> what its last call returned
    hv,       \* handler -> key -> the body it was last told of
    hist,     \* key -> every body ever stored at it
    touched   \* client -> another call wrote its key since it was called

vars == <<store, rev, faults, pc, req, obs, hi, ret, hv, hist, touched>>

\* An mvcc KeyValue: the body and the revisions etcd keeps beside it.
Entry == [val : Vals, create : Nat, mod : Nat]

\* NoEntity (the nil *KeyValue of a missing key) is no KeyValue.
ASSUME AbsentAssumption == NoEntity \notin Entry

PcValues == {"idle", "call", "put", "txn", "dgdel", "notify"}
Pending == {"call", "put", "txn", "dgdel"}

TypeOK ==
    /\ store \in [Keys -> Entry \cup {NoEntity}]
    /\ rev \in 0..MaxRev
    /\ faults \in 0..MaxFaults
    /\ pc \in [Clients -> PcValues]
    /\ req \in [Clients -> Requests]
    /\ obs \in [Clients -> Entry \cup {NoEntity}]
    /\ hi \in [Clients -> 1..(Len(Interest) + 1)]
    /\ ret \in [Clients -> Results]
    /\ hv \in [Handlers -> [Keys -> Vals \cup {NoEntity}]]
    /\ hist \in [Keys -> SUBSET Vals]
    /\ touched \in [Clients -> BOOLEAN]

\* The round trip a call is in matches the call: Put and Txn belong to
\* update(), the ranged delete to DeleteGroup().
CallShape ==
    \A c \in Clients :
        /\ pc[c] \in {"put", "txn"} => req[c].op = "update"
        /\ pc[c] = "dgdel" => req[c].op = "deleteGroup"

TypeInv == TypeOK /\ CallShape

ValOf(e) == IF e = NoEntity THEN NoEntity ELSE e.val

\* ModRevision(key) in a Compare: 0 for a key that is not there.
ModRevision(e) == IF e = NoEntity THEN 0 ELSE e.mod

\* mvcc put at revision r: a new key is created at r, an existing one keeps
\* its create revision.
PutEntry(e, v, r) ==
    IF e = NoEntity THEN [val |-> v, create |-> r, mod |-> r]
                    ELSE [val |-> v, create |-> e.create, mod |-> r]

\* Mutants of the compare: the create revision instead of the mod revision
\* on both sides, or the read create revision as the expected mod revision.
TxnSucceedsOnCreate(e, o) ==
    (IF e = NoEntity THEN 0 ELSE e.create) = (IF o = NoEntity THEN 0 ELSE o.create)

TxnSucceedsModVsCreate(e, o) == ModRevision(e) = (IF o = NoEntity THEN 0 ELSE o.create)

\* clientv3.Compare(clientv3.ModRevision(key), "=", modRevision)
TxnSucceeds(e, o) == ModRevision(e) = ModRevision(o)

\* The writer c is past its compare; every other running call whose key is
\* in K is overtaken.
Touch(K, c) ==
    [d \in Clients |-> IF d = c THEN FALSE
                       ELSE touched[d] \/ (pc[d] \in Pending /\ req[d].key \in K)]

\* One write transaction of etcd, by client c, that leaves the store as s,
\* changing the keys in K, at the next revision.
Commit(s, K, c) ==
    /\ rev < MaxRev
    /\ store' = s
    /\ rev' = rev + 1
    /\ hist' = [x \in Keys |-> IF x \in K /\ s[x] # NoEntity
                                 THEN hist[x] \cup {s[x].val} ELSE hist[x]]
    /\ touched' = Touch(K, c)

\* The store is left alone.
NoCommit(c) ==
    /\ touched' = [touched EXCEPT ![c] = FALSE]
    /\ UNCHANGED <<store, rev, hist>>

CanFail == faults < MaxFaults

\* The call of c returns r; its locals are gone.
Return(c, r) ==
    /\ pc' = [pc EXCEPT ![c] = "idle"]
    /\ ret' = [ret EXCEPT ![c] = r]
    /\ req' = [req EXCEPT ![c] = NoRequest]
    /\ obs' = [obs EXCEPT ![c] = NoEntity]
    /\ hi' = [hi EXCEPT ![c] = 1]

\* The call of c goes on to round trip p, having read o.
Continue(c, p, o) ==
    /\ pc' = [pc EXCEPT ![c] = p]
    /\ obs' = [obs EXCEPT ![c] = o]
    /\ UNCHANGED <<faults, req, hi, ret, store, rev, hist, touched>>

\* Mutant: the notify loop indexed from 0.
StartNotifyFromZero(c, r, o) ==
    /\ pc' = [pc EXCEPT ![c] = "notify"]
    /\ hi' = [hi EXCEPT ![c] = 0]
    /\ ret' = [ret EXCEPT ![c] = r]
    /\ obs' = [obs EXCEPT ![c] = o]
    /\ UNCHANGED req

\* The call of c starts its notify loop, with result r and payload o.
StartNotify(c, r, o) ==
    /\ pc' = [pc EXCEPT ![c] = "notify"]
    /\ hi' = [hi EXCEPT ![c] = 1]
    /\ ret' = [ret EXCEPT ![c] = r]
    /\ obs' = [obs EXCEPT ![c] = o]
    /\ UNCHANGED req

\* After a committed write: the response arrives and the call notifies, or
\* it is lost and the call returns the client's error.
Succeed(c, r, o) ==
    \/ StartNotify(c, r, o) /\ UNCHANGED faults
    \/ CanFail /\ faults' = faults + 1 /\ Return(c, "err")

\* The call of c returns r without a write.
Finish(c, r) == Return(c, r) /\ NoCommit(c) /\ UNCHANGED faults

\* A round trip that fails without effect: a client error, or a write
\* refused by a store that has run out of revisions.
RoundTripFails(c, isWrite) ==
    /\ \/ CanFail /\ faults' = faults + 1
       \/ isWrite /\ rev = MaxRev /\ UNCHANGED faults
    /\ Return(c, "err")
    /\ NoCommit(c)

-----------------------------------------------------------------------------
(* The public entry points: each builds the Metadata of its kind and hands *)
(* it to update(), delete() or runs DeleteGroup.                           *)

Call(c, r) ==
    /\ pc[c] = "idle"
    /\ pc' = [pc EXCEPT ![c] = "call"]
    /\ req' = [req EXCEPT ![c] = r]
    /\ UNCHANGED <<store, rev, faults, obs, hi, ret, hv, hist, touched>>

UpdateGroup(c, g, v) == Call(c, [op |-> "update", key |-> GroupKey(g), val |-> v])

\* UpdateMeasure, UpdateStream, UpdateIndexRuleBinding, UpdateIndexRule.
UpdateEntity(c, kind, g, n, v) ==
    Call(c, [op |-> "update", key |-> EntityKey(kind, g, n), val |-> v])

\* DeleteMeasure, DeleteStream, DeleteIndexRuleBinding, DeleteIndexRule.
DeleteEntity(c, kind, g, n) ==
    Call(c, [op |-> "delete", key |-> EntityKey(kind, g, n), val |-> NoEntity])

DeleteGroup(c, g) == Call(c, [op |-> "deleteGroup", key |-> GroupKey(g), val |-> NoEntity])

GetGroup(c, g) == Call(c, [op |-> "get", key |-> GroupKey(g), val |-> NoEntity])

\* GetMeasure, GetStream, GetIndexRuleBinding, GetIndexRule.
GetEntity(c, kind, g, n) ==
    Call(c, [op |-> "get", key |-> EntityKey(kind, g, n), val |-> NoEntity])

-----------------------------------------------------------------------------
(* update(): kv.Get, then a plain kv.Put when the key is absent, nothing   *)
(* when the stored body is equal, else a Txn guarded by the mod revision   *)
(* that was read.                                                          *)

UpdateGet(c) ==
    LET e == store[req[c].key]
    IN  /\ pc[c] = "call" /\ req[c].op = "update"
        /\ \/ RoundTripFails(c, FALSE)
           \/ e = NoEntity /\ Continue(c, "put", e)
           \/ e # NoEntity /\ e.val = req[c].val /\ Finish(c, "ok")
           \/ e # NoEntity /\ e.val # req[c].val /\ Continue(c, "txn", e)
        /\ UNCHANGED hv

UpdatePut(c) ==
    LET k == req[c].key
    IN  /\ pc[c] = "put"
        /\ \/ /\ Commit([store EXCEPT ![k] = PutEntry(store[k], req[c].val, rev + 1)], {k}, c)
              /\ Succeed(c, "ok", obs[c])
           \/ RoundTripFails(c, TRUE)
        /\ UNCHANGED hv

\* Mutant: the Succeeded check dropped, so a failed Txn notifies.
TxnFailedNotifies(c) == StartNotify(c, "ok", obs[c]) /\ NoCommit(c) /\ UNCHANGED faults

\* if !txnResp.Succeeded { return ErrConcurrentModification }
TxnFailed(c) == Finish(c, "conflict")

UpdateTxn(c) ==
    LET k == req[c].key
    IN  /\ pc[c] = "txn"
        /\ \/ /\ TxnSucceeds(store[k], obs[c])
              /\ Commit([store EXCEPT ![k] = PutEntry(store[k], req[c].val, rev + 1)], {k}, c)
              /\ Succeed(c, "ok", obs[c])
           \/ ~TxnSucceeds(store[k], obs[c]) /\ TxnFailed(c)
           \/ RoundTripFails(c, TRUE)
        /\ UNCHANGED hv

-----------------------------------------------------------------------------
(* get(): one kv.Get of the key; no key is ErrEntityNotFound, else the     *)
(* body decoded from the single KeyValue (a Get of one key never returns   *)
(* more, so ErrUnexpectedNumberOfEntities cannot happen).                  *)

Get(c) ==
    LET e == store[req[c].key]
    IN  /\ pc[c] = "call" /\ req[c].op = "get"
        /\ \/ RoundTripFails(c, FALSE)
           \/ e = NoEntity /\ Finish(c, "notfound")
           \/ e # NoEntity /\ Finish(c, e.val)
        /\ UNCHANGED hv

-----------------------------------------------------------------------------
(* delete(): one kv.Delete with WithPrevKV; the previous KeyValue is       *)
(* decoded and sent to the handlers.                                       *)

Delete(c) ==
    LET k == req[c].key
    IN  /\ pc[c] = "call" /\ req[c].op = "delete"
        /\ \/ /\ store[k] # NoEntity
              /\ Commit([store EXCEPT ![k] = NoEntity], {k}, c)
              /\ Succeed(c, "deleted", store[k])
           \/ store[k] = NoEntity /\ Finish(c, "notdeleted")
           \/ RoundTripFails(c, TRUE)
        /\ UNCHANGED hv

-----------------------------------------------------------------------------
(* DeleteGroup(): GetGroup (a kv.Get of the group key), then one ranged    *)
(* kv.Delete of the whole "/groups/<g>/" subtree, then a KindGroup delete  *)
(* notification carrying the group that GetGroup read.                     *)

DeleteGroupGet(c) ==
    LET e == store[req[c].key]
    IN  /\ pc[c] = "call" /\ req[c].op = "deleteGroup"
        /\ \/ RoundTripFails(c, FALSE)
           \/ e = NoEntity /\ Finish(c, "notfound")
           \/ e # NoEntity /\ Continue(c, "dgdel", e)
        /\ UNCHANGED hv

DeleteGroupRange(c) ==
    LET present == {x \in GroupSubtree(req[c].key.group) : store[x] # NoEntity}
    IN  /\ pc[c] = "dgdel"
        /\ \/ /\ present # {}
              /\ Commit([x \in Keys |-> IF x \in present THEN NoEntity ELSE store[x]], present, c)
              /\ Succeed(c, "deleted", obs[c])
           \/ present = {} /\ Finish(c, "deleted")
           \/ RoundTripFails(c, TRUE)
        /\ UNCHANGED hv

-----------------------------------------------------------------------------
(* notifyUpdate / notifyDelete: the handlers in registration order, each   *)
(* told only if it is interested in the kind.  A handler's view is what a  *)
(* consumer keeps: the body it was last given, forgetting a deleted key,   *)
(* and on a group delete everything it held under the group.               *)

Delivered(view, c) ==
    LET k == req[c].key IN
    CASE req[c].op = "update" -> [view EXCEPT ![k] = req[c].val]
      [] req[c].op = "delete" -> [view EXCEPT ![k] = NoEntity]
      [] OTHER -> [x \in Keys |-> IF x.group = k.group THEN NoEntity ELSE view[x]]

NotifyHandler(c) ==
    LET h == hi[c]
    IN  /\ pc[c] = "notify" /\ h <= Len(Interest)
        /\ hv' = IF InterestOf(Interest[h], req[c].key.kind)
                    THEN [hv EXCEPT ![h] = Delivered(hv[h], c)]
                    ELSE hv
        /\ hi' = [hi EXCEPT ![c] = h + 1]
        /\ UNCHANGED <<store, rev, faults, pc, req, obs, ret, hist, touched>>

NotifyReturn(c) ==
    /\ pc[c] = "notify" /\ hi[c] > Len(Interest)
    /\ Return(c, ret[c])
    /\ UNCHANGED <<store, rev, faults, hv, hist, touched>>

-----------------------------------------------------------------------------

Init ==
    /\ store = [k \in Keys |-> NoEntity]
    /\ rev = 0
    /\ faults = 0
    /\ pc = [c \in Clients |-> "idle"]
    /\ req = [c \in Clients |-> NoRequest]
    /\ obs = [c \in Clients |-> NoEntity]
    /\ hi = [c \in Clients |-> 1]
    /\ ret = [c \in Clients |-> "none"]
    /\ hv = [h \in Handlers |-> [k \in Keys |-> NoEntity]]
    /\ hist = [k \in Keys |-> {}]
    /\ touched = [c \in Clients |-> FALSE]

CallNext(c) ==
    \/ \E g \in Groups, v \in Vals : UpdateGroup(c, g, v)
    \/ \E kind \in EntityKinds, g \in Groups, n \in Names, v \in Vals :
          UpdateEntity(c, kind, g, n, v)
    \/ \E kind \in EntityKinds, g \in Groups, n \in Names : DeleteEntity(c, kind, g, n)
    \/ \E g \in Groups : DeleteGroup(c, g)
    \/ Reads /\ \E g \in Groups : GetGroup(c, g)
    \/ Reads /\ \E kind \in EntityKinds, g \in Groups, n \in Names : GetEntity(c, kind, g, n)

StepNext(c) ==
    \/ UpdateGet(c) \/ UpdatePut(c) \/ UpdateTxn(c)
    \/ Get(c) \/ Delete(c)
    \/ DeleteGroupGet(c) \/ DeleteGroupRange(c)
    \/ NotifyHandler(c) \/ NotifyReturn(c)

Next == \E c \in Clients : CallNext(c) \/ StepNext(c)

Spec == Init /\ [][Next]_vars

-----------------------------------------------------------------------------
(* Properties                                                              *)

\* A handler is only ever told of a body that etcd really stored at that
\* key: update() notifies only after its Put or a Txn whose compare held,
\* never after ErrConcurrentModification or an error of the kv client.
NotifiedWasCommitted ==
    \A h \in Handlers, k \in Keys : hv[h][k] # NoEntity => hv[h][k] \in hist[k]

\* A notify loop that is running carries a body that was committed at its
\* key: update() reaches notifyUpdate only after its own write succeeded.
NotifyPayloadCommitted ==
    \A c \in Clients :
        (pc[c] = "notify" /\ req[c].op = "update") => req[c].val \in hist[req[c].key]

\* The inductive invariant behind NotifiedWasCommitted.
NotifyInv == TypeInv /\ NotifiedWasCommitted /\ NotifyPayloadCommitted

\* etcd gives every write its own revision: a stored KeyValue was last
\* modified at a revision etcd has reached, never at 0.
StoreRevisions ==
    \A k \in Keys : store[k] # NoEntity => store[k].mod \in 1..rev

\* A call waiting on its Txn holds a KeyValue read from its key, and the
\* key's mod revision identifies it: while the key holds a KeyValue of
\* that mod revision, it holds exactly the one read.  Unless another
\* writer of the key ran since the call started, the key still holds it.
TxnReadCurrent ==
    \A c \in Clients :
        LET e == store[req[c].key] IN
        pc[c] = "txn" =>
            /\ obs[c] \in Entry /\ obs[c].mod \in 1..rev
            /\ (e # NoEntity /\ e.mod = obs[c].mod) => e = obs[c]
            /\ ~touched[c] => e = obs[c]

\* The inductive invariant behind NoLostUpdate and Linearizable.
CasInv == TypeInv /\ StoreRevisions /\ TxnReadCurrent

\* The compare-and-swap of update() loses no update: when its Txn writes,
\* the key still holds exactly the KeyValue the call read with kv.Get,
\* even if the key was deleted and created again in between.
NoLostUpdate ==
    [][\A c \in Clients :
         (pc[c] = "txn" /\ pc'[c] # "txn" /\ store'[req[c].key] # store[req[c].key])
            => store[req[c].key] = obs[c]]_vars

\* The stronger promise, for both paths of update(): no Update overwrites a
\* body it did not read.  The plain kv.Put of the insert path breaks it.
NoBlindOverwrite ==
    [][\A c \in Clients :
         (pc[c] \in {"put", "txn"} /\ pc'[c] = "notify"
            /\ store'[req[c].key] # store[req[c].key])
            => store[req[c].key] = obs[c]]_vars

\* Every stream, measure, index rule and binding is owned by a group that
\* exists (the data model: entities are "owned by exactly one Group").
\* update() writes an entity key without reading its group key, and
\* DeleteGroup() of a group whose key is gone returns NotFound and leaves
\* the subtree in place.
GroupOwnsEntities ==
    \A k \in EntityKeys : store[k] # NoEntity => store[GroupKey(k.group)] # NoEntity

\* When no call is running, every handler that follows a kind (and group
\* deletes) holds the body etcd stores for each key of that kind.
Quiescent == \A c \in Clients : pc[c] = "idle"

HandlerViewConverges ==
    Quiescent =>
        \A h \in Handlers, k \in Keys :
            {k.kind, KindGroup} \subseteq Interest[h] => hv[h][k] = ValOf(store[k])

\* The registry implements the atomic registry of RegistrySpec: a call in
\* the middle of its round trips is "pending", one in its notify loop has
\* "applied" its effect.
AbsPc(p) == IF p = "idle" THEN "idle" ELSE IF p = "notify" THEN "applied" ELSE "pending"

Abs == INSTANCE RegistrySpec WITH
           astore <- [k \in Keys |-> ValOf(store[k])],
           apc <- [c \in Clients |-> AbsPc(pc[c])],
           areq <- req,
           aret <- ret,
           atouched <- touched

\* Every step of the registry is a step of the atomic registry, or leaves
\* its state alone: results agree with the store at one instant of each call.
Linearizable == Abs!ASpec
=============================================================================
