------------------------- MODULE RegistryRefinement -------------------------
(***************************************************************************)
(* Proofs that the compare-and-swap of update() loses no update            *)
(* (NoLostUpdate) and that the registry implements the atomic registry of  *)
(* RegistrySpec (Linearizable), for every value of the constants.  Both    *)
(* rest on CasInv: etcd's mod revisions identify the KeyValues of a key,   *)
(* and a call waiting on its Txn that no other writer overtook still sees  *)
(* the KeyValue it read.                                                   *)
(***************************************************************************)
EXTENDS RegistryProofs

-----------------------------------------------------------------------------
(* What one step of client c does to the others and to the store.          *)

\* The locals of every other call are left alone.
Frame(c) ==
    \A d \in Clients \ {c} : pc'[d] = pc[d] /\ req'[d] = req[d] /\ obs'[d] = obs[d]

\* No write: the store and the revision stay, and so do the other calls'
\* overtaken flags.
Quiet(c) ==
    /\ UNCHANGED <<store, rev>>
    /\ \A d \in Clients \ {c} : touched'[d] = touched[d]

\* One write transaction: every key keeps its KeyValue, loses it, or gets
\* one of the new revision; every other running call whose key changed is
\* overtaken, and none forgets it was.
Written(c) ==
    /\ rev' = rev + 1
    /\ \A x \in Keys : store'[x] \in {store[x], NoEntity} \/ store'[x].mod = rev'
    /\ \A d \in Clients \ {c} :
          /\ touched[d] => touched'[d]
          /\ (pc[d] \in Pending /\ store'[req[d].key] # store[req[d].key]) => touched'[d]

LEMMA CommitWritten ==
    ASSUME TypeInv, NEW c \in Clients, NEW K \in SUBSET Keys, NEW s,
           Commit(s, K, c),
           \A x \in Keys : s[x] \in {store[x], NoEntity} \/ s[x].mod = rev + 1,
           \A x \in Keys \ K : s[x] = store[x]
    PROVE  Written(c)
<1>1. rev' = rev + 1 /\ store' = s
  BY DEF Commit
<1>2. ASSUME NEW d \in Clients \ {c}
      PROVE  touched'[d] = (touched[d] \/ (pc[d] \in Pending /\ req[d].key \in K))
  BY DEF Commit, Touch
<1>3. ASSUME NEW d \in Clients
      PROVE  req[d].key \in Keys
  BY RequestFields DEF TypeInv, TypeOK
<1>4. QED
  BY <1>1, <1>2, <1>3 DEF Written

LEMMA EndShape ==
    ASSUME TypeInv, NEW c \in Clients,
           \/ \E r \in Results : Finish(c, r)
           \/ \E w \in BOOLEAN : RoundTripFails(c, w)
    PROVE  Frame(c) /\ Quiet(c)
BY DEF Finish, RoundTripFails, Return, NoCommit, Frame, Quiet, TypeInv, TypeOK

LEMMA ContinueShape ==
    ASSUME TypeInv, NEW c \in Clients, NEW p, NEW o, Continue(c, p, o)
    PROVE  Frame(c) /\ Quiet(c)
BY DEF Continue, Frame, Quiet, TypeInv, TypeOK

LEMMA SucceedFrame ==
    ASSUME TypeInv, NEW c \in Clients, NEW r, NEW o, Succeed(c, r, o)
    PROVE  Frame(c)
BY DEF Succeed, StartNotify, Return, Frame, TypeInv, TypeOK

\* The write of update(): only the key changes, to the new revision.
LEMMA PutWritten ==
    ASSUME TypeInv, NEW c \in Clients, pc[c] \in {"put", "txn"},
           Commit([store EXCEPT ![req[c].key] =
                      PutEntry(store[req[c].key], req[c].val, rev + 1)], {req[c].key}, c)
    PROVE  Written(c)
<1> DEFINE k == req[c].key
           s == [store EXCEPT ![k] = PutEntry(store[k], req[c].val, rev + 1)]
<1>1. k \in Keys
  BY RequestFields DEF TypeInv, TypeOK
<1>2. \A x \in Keys : s[x] \in {store[x], NoEntity} \/ s[x].mod = rev + 1
  BY <1>1 DEF PutEntry, TypeInv, TypeOK
<1>3. \A x \in Keys \ {k} : s[x] = store[x]
  BY DEF TypeInv, TypeOK
<1>4. QED
  BY <1>1, <1>2, <1>3, CommitWritten

LEMMA StepShape ==
    ASSUME TypeInv, NEW c \in Clients, CallNext(c) \/ StepNext(c)
    PROVE  Frame(c) /\ (Quiet(c) \/ Written(c))
<1>1. CASE CallNext(c)
  <2>1. PICK r : Call(c, r)
    BY <1>1 DEF CallNext, UpdateGroup, UpdateEntity, DeleteEntity, DeleteGroup,
                GetGroup, GetEntity
  <2>2. QED
    BY <2>1 DEF Call, Frame, Quiet, TypeInv, TypeOK
<1>2. CASE UpdateGet(c) \/ DeleteGroupGet(c)
  BY <1>2, EndShape, ContinueShape DEF UpdateGet, DeleteGroupGet, Results
<1>10. CASE Get(c)
  <2>1. store[req[c].key] # NoEntity => store[req[c].key].val \in Results
    BY <1>10, RequestFields DEF Get, TypeInv, TypeOK, Entry, Results
  <2>2. \/ \E r \in Results : Finish(c, r)
        \/ \E w \in BOOLEAN : RoundTripFails(c, w)
    BY <1>10, <2>1 DEF Get, Results
  <2>3. QED
    BY <2>2, EndShape
<1>3. CASE UpdatePut(c)
  BY <1>3, PutWritten, SucceedFrame, EndShape DEF UpdatePut
<1>4. CASE UpdateTxn(c)
  BY <1>4, PutWritten, SucceedFrame, EndShape DEF UpdateTxn, TxnFailed, Results
<1>5. CASE Delete(c)
  <2> DEFINE k == req[c].key
  <2>1. k \in Keys
    BY <1>5, RequestFields DEF TypeInv, TypeOK
  <2>2. ASSUME Commit([store EXCEPT ![k] = NoEntity], {k}, c) PROVE Written(c)
    <3> DEFINE s == [store EXCEPT ![k] = NoEntity]
    <3>1. \A x \in Keys : s[x] \in {store[x], NoEntity} \/ s[x].mod = rev + 1
      BY <2>1 DEF TypeInv, TypeOK
    <3>2. \A x \in Keys \ {k} : s[x] = store[x]
      BY DEF TypeInv, TypeOK
    <3>3. QED
      BY <2>1, <2>2, <3>1, <3>2, CommitWritten
  <2>3. QED
    BY <1>5, <2>2, SucceedFrame, EndShape DEF Delete, Results
<1>6. CASE DeleteGroupRange(c)
  <2> DEFINE present == {x \in GroupSubtree(req[c].key.group) : store[x] # NoEntity}
             s == [x \in Keys |-> IF x \in present THEN NoEntity ELSE store[x]]
  <2>1. present \in SUBSET Keys
    BY DEF GroupSubtree
  <2>2. Commit(s, present, c) => Written(c)
    BY <2>1, CommitWritten
  <2>3. QED
    BY <1>6, <2>2, SucceedFrame, EndShape DEF DeleteGroupRange, Results
<1>7. CASE NotifyHandler(c)
  BY <1>7 DEF NotifyHandler, Frame, Quiet, TypeInv, TypeOK
<1>8. CASE NotifyReturn(c)
  BY <1>8 DEF NotifyReturn, Return, Frame, Quiet, TypeInv, TypeOK
<1>9. QED
  BY <1>1, <1>2, <1>3, <1>4, <1>5, <1>6, <1>7, <1>8, <1>10 DEF StepNext

\* A call enters its Txn round trip only from the kv.Get of update(), which
\* read a KeyValue of the key and wrote nothing.
LEMMA TxnEntry ==
    ASSUME TypeInv, NEW c \in Clients, CallNext(c) \/ StepNext(c), pc'[c] = "txn"
    PROVE  /\ req'[c] = req[c]
           /\ obs'[c] = store[req[c].key] /\ obs'[c] # NoEntity
           /\ UNCHANGED <<store, rev, touched>>
<1>1. CASE UpdateGet(c)
  BY <1>1 DEF UpdateGet, RoundTripFails, Finish, Return, Continue, TypeInv, TypeOK
<1>2. CASE CallNext(c)
  <2>1. PICK r : Call(c, r)
    BY <1>2 DEF CallNext, UpdateGroup, UpdateEntity, DeleteEntity, DeleteGroup,
                GetGroup, GetEntity
  <2>2. QED
    BY <2>1 DEF Call, TypeInv, TypeOK
<1>3. CASE UpdatePut(c) \/ UpdateTxn(c) \/ Delete(c) \/ DeleteGroupRange(c)
  BY <1>3 DEF UpdatePut, UpdateTxn, Delete, DeleteGroupRange, Succeed, StartNotify,
              RoundTripFails, TxnFailed, Finish, Return, TypeInv, TypeOK
<1>4. CASE Get(c) \/ DeleteGroupGet(c)
  BY <1>4 DEF Get, DeleteGroupGet, RoundTripFails, Finish, Return, Continue,
              TypeInv, TypeOK
<1>5. CASE NotifyHandler(c) \/ NotifyReturn(c)
  BY <1>5 DEF NotifyHandler, NotifyReturn, Return, TypeInv, TypeOK
<1>6. QED
  BY <1>1, <1>2, <1>3, <1>4, <1>5 DEF StepNext


-----------------------------------------------------------------------------
(* CasInv is inductive.                                                    *)

LEMMA InitCasInv == Init => CasInv
<1> SUFFICES ASSUME Init PROVE CasInv
  OBVIOUS
<1>1. TypeInv
  BY InitTypeInv
<1>2. StoreRevisions /\ TxnReadCurrent
  BY DEF Init, StoreRevisions, TxnReadCurrent
<1>3. QED
  BY <1>1, <1>2 DEF CasInv

\* A write keeps every stored KeyValue at a revision etcd has reached.
LEMMA StoreRevisionsStep ==
    ASSUME TypeInv, StoreRevisions, NEW c \in Clients, Quiet(c) \/ Written(c)
    PROVE  StoreRevisions'
<1>1. CASE Quiet(c)
  BY <1>1 DEF Quiet, StoreRevisions
<1>2. CASE Written(c)
  BY <1>2 DEF Written, StoreRevisions, TypeInv, TypeOK
<1>3. QED
  BY <1>1, <1>2

\* The Txn read of a call that another client's step leaves running is
\* still identified by its mod revision, and still current unless the
\* call was overtaken.
LEMMA TxnReadOther ==
    ASSUME TypeInv, StoreRevisions, TxnReadCurrent, NEW c \in Clients,
           Frame(c), Quiet(c) \/ Written(c),
           NEW x \in Clients \ {c}, pc'[x] = "txn"
    PROVE  LET e == store'[req'[x].key] IN
           /\ obs'[x] \in Entry /\ obs'[x].mod \in 1..rev'
           /\ (e # NoEntity /\ e.mod = obs'[x].mod) => e = obs'[x]
           /\ ~touched'[x] => e = obs'[x]
<1> DEFINE k == req[x].key
<1>1. pc[x] = "txn" /\ req'[x] = req[x] /\ obs'[x] = obs[x]
  BY DEF Frame
<1>2. /\ obs[x] \in Entry /\ obs[x].mod \in 1..rev
      /\ (store[k] # NoEntity /\ store[k].mod = obs[x].mod) => store[k] = obs[x]
      /\ ~touched[x] => store[k] = obs[x]
  BY <1>1 DEF TxnReadCurrent
<1>3. CASE Quiet(c)
  BY <1>1, <1>2, <1>3 DEF Quiet
<1>4. CASE Written(c)
  <2>1. k \in Keys /\ rev \in Nat
    BY RequestFields DEF TypeInv, TypeOK
  <2>2. obs[x].mod \in 1..rev'
    BY <1>2, <1>4, <2>1 DEF Written
  <2>3. CASE store'[k] = store[k]
    BY <1>1, <1>2, <1>4, <2>2, <2>3 DEF Written
  <2>4. CASE store'[k] # store[k]
    <3>1. touched'[x]
      BY <1>1, <1>4, <2>4 DEF Written, Pending
    <3>2. store'[k] = NoEntity \/ store'[k].mod = rev + 1
      BY <1>4, <2>1, <2>4 DEF Written
    <3>3. obs[x].mod # rev + 1
      BY <1>2, <2>1
    <3>4. QED
      BY <1>1, <1>2, <2>2, <3>1, <3>2, <3>3
  <2>5. QED
    BY <2>3, <2>4
<1>5. QED
  BY <1>3, <1>4

LEMMA CasInvStep == CasInv /\ [Next]_vars => CasInv'
<1> SUFFICES ASSUME CasInv, [Next]_vars PROVE CasInv'
  OBVIOUS
<1>1. TypeInv'
  BY TypeInvStep DEF CasInv
<1>2. CASE UNCHANGED vars
  BY <1>1, <1>2 DEF vars, CasInv, StoreRevisions, TxnReadCurrent
<1>3. ASSUME NEW c \in Clients, CallNext(c) \/ StepNext(c)
      PROVE  StoreRevisions' /\ TxnReadCurrent'
  <2>1. Frame(c) /\ (Quiet(c) \/ Written(c))
    BY <1>3, StepShape DEF CasInv
  <2>2. StoreRevisions'
    BY <2>1, StoreRevisionsStep DEF CasInv
  <2>3. ASSUME NEW x \in Clients, pc'[x] = "txn"
        PROVE  LET e == store'[req'[x].key] IN
               /\ obs'[x] \in Entry /\ obs'[x].mod \in 1..rev'
               /\ (e # NoEntity /\ e.mod = obs'[x].mod) => e = obs'[x]
               /\ ~touched'[x] => e = obs'[x]
    <3>1. CASE x = c
      <4>1. /\ req'[c] = req[c]
            /\ obs'[c] = store[req[c].key] /\ obs'[c] # NoEntity
            /\ UNCHANGED <<store, rev, touched>>
        BY <1>3, <2>3, <3>1, TxnEntry DEF CasInv
      <4>2. req[c].key \in Keys
        BY RequestFields DEF CasInv, TypeInv, TypeOK
      <4>3. obs'[c] \in Entry /\ obs'[c].mod \in 1..rev
        BY <4>1, <4>2 DEF CasInv, StoreRevisions, TypeInv, TypeOK
      <4>4. QED
        BY <3>1, <4>1, <4>3
    <3>2. CASE x # c
      BY <2>1, <2>3, <3>2, TxnReadOther DEF CasInv
    <3>3. QED
      BY <3>1, <3>2
  <2>4. QED
    BY <2>2, <2>3 DEF TxnReadCurrent
<1>4. QED
  BY <1>1, <1>2, <1>3 DEF Next, CasInv

\* etcd's mod revisions identify what a key holds, and a Txn that waits
\* without being overtaken still sees the KeyValue its kv.Get read: the
\* invariant of the compare-and-swap in update() (etcd.go:477-479).
THEOREM CasInvariant == Spec => []CasInv
BY InitCasInv, CasInvStep, PTL DEF Spec

-----------------------------------------------------------------------------
(* NoLostUpdate                                                            *)

\* Only the call's own Txn step leaves "txn", and it changes the store only
\* when its compare on the mod revision held.
LEMMA TxnWrites ==
    ASSUME TypeInv, NEW c \in Clients, CallNext(c) \/ StepNext(c),
           pc[c] = "txn", store' # store
    PROVE  TxnSucceeds(store[req[c].key], obs[c])
<1>1. UpdateTxn(c)
  BY DEF CallNext, UpdateGroup, UpdateEntity, DeleteEntity, DeleteGroup, GetGroup,
         GetEntity, Call, StepNext, UpdateGet, UpdatePut, Get, Delete,
         DeleteGroupGet, DeleteGroupRange, NotifyHandler, NotifyReturn
<1>2. QED
  BY <1>1 DEF UpdateTxn, TxnFailed, Finish, RoundTripFails, NoCommit

LEMMA NoLostUpdateStep ==
    ASSUME CasInv, [Next]_vars, NEW c \in Clients,
           pc[c] = "txn", pc'[c] # "txn", store'[req[c].key] # store[req[c].key]
    PROVE  store[req[c].key] = obs[c]
<1> DEFINE k == req[c].key
<1>1. PICK d \in Clients : CallNext(d) \/ StepNext(d)
  BY DEF Next, vars
<1>2. d = c
  BY <1>1, StepShape DEF Frame, CasInv
<1>3. TxnSucceeds(store[k], obs[c])
  BY <1>1, <1>2, TxnWrites DEF CasInv
<1>4. obs[c] \in Entry /\ obs[c].mod \in 1..rev
  BY DEF CasInv, TxnReadCurrent
<1>5. store[k] # NoEntity /\ store[k].mod = obs[c].mod
  <2>1. obs[c] # NoEntity /\ obs[c].mod # 0
    BY <1>4, AbsentAssumption
  <2>2. ModRevision(store[k]) = obs[c].mod
    BY <1>3, <2>1 DEF TxnSucceeds, ModRevision
  <2>3. QED
    BY <2>1, <2>2 DEF ModRevision
<1>6. QED
  BY <1>4, <1>5 DEF CasInv, TxnReadCurrent

\* The compare-and-swap of update() loses no update: its Txn writes only
\* while the key holds exactly the KeyValue the call read with kv.Get,
\* even if the key was deleted and created again in between.
THEOREM NoLostUpdateHolds == Spec => NoLostUpdate
<1>1. CasInv /\ [Next]_vars =>
        [\A c \in Clients :
           (pc[c] = "txn" /\ pc'[c] # "txn" /\ store'[req[c].key] # store[req[c].key])
              => store[req[c].key] = obs[c]]_vars
  BY NoLostUpdateStep
<1>2. QED
  BY <1>1, CasInvariant, PTL DEF Spec, NoLostUpdate

-----------------------------------------------------------------------------
(* The refinement of RegistrySpec under the mapping Abs of Registry.       *)

LEMMA ValOfType ==
    ASSUME NEW e \in Entry \cup {NoEntity}
    PROVE  /\ ValOf(e) = NoEntity <=> e = NoEntity
           /\ e # NoEntity => ValOf(e) = e.val /\ e.val \in Vals
<1>1. CASE e = NoEntity
  BY <1>1 DEF ValOf
<1>2. CASE e \in Entry
  <2>1. e # NoEntity /\ e.val \in Vals
    BY <1>2, AbsentAssumption DEF Entry
  <2>2. ValOf(e) = e.val /\ e.val # NoEntity
    BY <2>1, NoEntityAssumption DEF ValOf
  <2>3. QED
    BY <2>1, <2>2
<1>3. QED
  BY <1>1, <1>2

LEMMA AbsPcPending ==
    ASSUME NEW p \in PcValues
    PROVE  AbsPc(p) = "pending" <=> p \in Pending
BY DEF AbsPc, PcValues, Pending

\* The abstract registry's idle request is the registry's: both are
\* defined over the same constants.
LEMMA AbsKeys ==
    /\ Abs!Keys = Keys
    /\ \A g : Abs!GroupSubtree(g) = GroupSubtree(g)
BY DEF Abs!Keys, Keys, Abs!GroupKeys, GroupKeys, Abs!EntityKeys, EntityKeys,
       Abs!GroupKey, GroupKey, Abs!EntityKey, EntityKey, Abs!KindGroup, KindGroup,
       Abs!GroupSubtree, GroupSubtree

LEMMA AbsRequests == Abs!Requests = Requests
BY DEF Abs!Requests, Requests, Abs!Keys, Keys,
       Abs!GroupKeys, GroupKeys, Abs!EntityKeys, EntityKeys, Abs!GroupKey,
       GroupKey, Abs!EntityKey, EntityKey, Abs!KindGroup, KindGroup

LEMMA AbsNoRequest == Abs!NoRequest = NoRequest
BY AbsRequests DEF Abs!NoRequest, NoRequest

\* A step that moves one call to p moves its abstract call to AbsPc(p).
LEMMA PcRef ==
    ASSUME TypeInv, NEW c \in Clients, NEW p, pc' = [pc EXCEPT ![c] = p]
    PROVE  [d \in Clients |-> AbsPc(pc[d])]'
             = [[d \in Clients |-> AbsPc(pc[d])] EXCEPT ![c] = AbsPc(p)]
<1>1. \A d \in Clients : AbsPc(pc'[d]) = IF d = c THEN AbsPc(p) ELSE AbsPc(pc[d])
  BY DEF TypeInv, TypeOK
<1>2. QED
  BY <1>1

\* Returning from a call is the abstract call returning.
LEMMA ReturnRef ==
    ASSUME TypeInv, NEW c \in Clients, NEW r, Return(c, r)
    PROVE  Abs!AFinish(c, r, "idle")
<1>1. [d \in Clients |-> AbsPc(pc[d])]'
        = [[d \in Clients |-> AbsPc(pc[d])] EXCEPT ![c] = "idle"]
  BY PcRef DEF Return, AbsPc
<1>2. req' = [req EXCEPT ![c] = Abs!NoRequest]
  BY AbsNoRequest DEF Return
<1>3. QED
  BY <1>1, <1>2 DEF Abs!AFinish, Return

\* Starting the notify loop is the abstract call reaching "applied".
LEMMA StartNotifyRef ==
    ASSUME TypeInv, NEW c \in Clients, NEW r, NEW o, StartNotify(c, r, o)
    PROVE  Abs!AFinish(c, r, "applied")
<1>1. [d \in Clients |-> AbsPc(pc[d])]'
        = [[d \in Clients |-> AbsPc(pc[d])] EXCEPT ![c] = "applied"]
  BY PcRef DEF StartNotify, AbsPc
<1>2. QED
  BY <1>1 DEF Abs!AFinish, StartNotify

\* A call that ends without writing is an abstract call ending with the
\* same result.
LEMMA EndRef ==
    ASSUME TypeInv, NEW c \in Clients, NEW r \in Results, Return(c, r), NoCommit(c)
    PROVE  Abs!AEnd(c, r)
<1>1. Abs!AFinish(c, r, "idle")
  BY ReturnRef
<1>2. UNCHANGED [k \in Keys |-> ValOf(store[k])]
  BY DEF NoCommit
<1>3. QED
  BY <1>1, <1>2 DEF Abs!AEnd, NoCommit

\* A failed round trip of a running call is AFail.
LEMMA FailRef ==
    ASSUME TypeInv, NEW c \in Clients, pc[c] \in Pending,
           NEW w \in BOOLEAN, RoundTripFails(c, w)
    PROVE  Abs!AFail(c)
<1>1. Abs!AEnd(c, "err")
  BY EndRef DEF RoundTripFails, Results
<1>2. AbsPc(pc[c]) = "pending"
  BY DEF AbsPc, Pending
<1>3. QED
  BY <1>1, <1>2 DEF Abs!AFail

\* A committed write followed by its notify loop or a lost response is
\* one atomic abstract write of the bodies the write leaves.
LEMMA WriteRef ==
    ASSUME TypeInv, NEW c \in Clients, NEW K \in SUBSET Keys,
           NEW s \in [Keys -> Entry \cup {NoEntity}], NEW r \in Results, NEW o,
           Commit(s, K, c), Succeed(c, r, o)
    PROVE  Abs!AWrite(c, [x \in Keys |-> ValOf(s[x])], K, r)
<1>1. [x \in Keys |-> ValOf(store'[x])] = [x \in Keys |-> ValOf(s[x])]
  BY DEF Commit
<1>2. touched' = [d \in Clients |-> IF d = c THEN FALSE
                     ELSE touched[d] \/ (AbsPc(pc[d]) = "pending" /\ req[d].key \in K)]
  <2>1. \A d \in Clients : AbsPc(pc[d]) = "pending" <=> pc[d] \in Pending
    BY AbsPcPending DEF TypeInv, TypeOK
  <2>2. QED
    BY <2>1 DEF Commit, Touch
<1>3. Abs!AFinish(c, r, "applied") \/ Abs!AFinish(c, "err", "idle")
  BY StartNotifyRef, ReturnRef DEF Succeed
<1>4. QED
  BY <1>1, <1>2, <1>3 DEF Abs!AWrite, Abs!ATouch, Commit

\* Steps that change nothing the abstract registry sees.
LEMMA ContinueRef ==
    ASSUME TypeInv, NEW c \in Clients, pc[c] = "call",
           NEW p \in {"put", "txn", "dgdel"}, NEW o, Continue(c, p, o)
    PROVE  UNCHANGED Abs!avars
BY DEF Continue, Abs!avars, AbsPc, TypeInv, TypeOK

LEMMA CallRef ==
    ASSUME TypeInv, NEW c \in Clients, CallNext(c)
    PROVE  Abs!ANext
<1>1. PICK r \in Requests : Call(c, r)
  <2>1. \A g \in Groups, v \in Vals : [op |-> "update", key |-> GroupKey(g), val |-> v] \in Requests
    BY DEF Requests, Keys, GroupKeys
  <2>2. \A kind \in EntityKinds, g \in Groups, n \in Names, v \in Vals :
           /\ [op |-> "update", key |-> EntityKey(kind, g, n), val |-> v] \in Requests
           /\ [op |-> "delete", key |-> EntityKey(kind, g, n), val |-> NoEntity] \in Requests
           /\ [op |-> "get", key |-> EntityKey(kind, g, n), val |-> NoEntity] \in Requests
    BY DEF Requests, Keys, EntityKeys
  <2>3. \A g \in Groups :
           /\ [op |-> "deleteGroup", key |-> GroupKey(g), val |-> NoEntity] \in Requests
           /\ [op |-> "get", key |-> GroupKey(g), val |-> NoEntity] \in Requests
    BY DEF Requests, Keys, GroupKeys
  <2>4. CASE \E g \in Groups, v \in Vals : UpdateGroup(c, g, v)
    BY <2>1, <2>4 DEF UpdateGroup
  <2>5. CASE \E kind \in EntityKinds, g \in Groups, n \in Names, v \in Vals :
                 UpdateEntity(c, kind, g, n, v)
    BY <2>2, <2>5 DEF UpdateEntity
  <2>6. CASE \E kind \in EntityKinds, g \in Groups, n \in Names : DeleteEntity(c, kind, g, n)
    <3>1. PICK kind \in EntityKinds, g \in Groups, n \in Names : DeleteEntity(c, kind, g, n)
      BY <2>6
    <3>2. [op |-> "delete", key |-> EntityKey(kind, g, n), val |-> NoEntity] \in Requests
      BY DEF Requests, Keys, EntityKeys
    <3>3. QED
      BY <3>1, <3>2 DEF DeleteEntity
  <2>7. CASE \E g \in Groups : DeleteGroup(c, g)
    BY <2>3, <2>7 DEF DeleteGroup
  <2>8. CASE \E g \in Groups : GetGroup(c, g)
    BY <2>3, <2>8 DEF GetGroup
  <2>9. CASE \E kind \in EntityKinds, g \in Groups, n \in Names : GetEntity(c, kind, g, n)
    <3>1. PICK kind \in EntityKinds, g \in Groups, n \in Names : GetEntity(c, kind, g, n)
      BY <2>9
    <3>2. [op |-> "get", key |-> EntityKey(kind, g, n), val |-> NoEntity] \in Requests
      BY DEF Requests, Keys, EntityKeys
    <3>3. QED
      BY <3>1, <3>2 DEF GetEntity
  <2>10. QED
    BY <2>4, <2>5, <2>6, <2>7, <2>8, <2>9 DEF CallNext
<1>2. Abs!ACall(c, r)
  <2>1. [d \in Clients |-> AbsPc(pc[d])]'
          = [[d \in Clients |-> AbsPc(pc[d])] EXCEPT ![c] = "pending"]
    BY <1>1, PcRef DEF Call, AbsPc
  <2>2. AbsPc(pc[c]) = "idle"
    BY <1>1 DEF Call, AbsPc
  <2>3. QED
    BY <1>1, <2>1, <2>2 DEF Call, Abs!ACall
<1>3. QED
  BY <1>2, AbsRequests DEF Abs!ANext

\* A step of one call maps to a step of the abstract registry or to none.
RefStep == Abs!ANext \/ UNCHANGED Abs!avars

LEMMA UpdateGetRef ==
    ASSUME TypeInv, NEW c \in Clients, UpdateGet(c)
    PROVE  RefStep
<1> DEFINE k == req[c].key
           e == store[k]
<1>1. pc[c] = "call" /\ req[c].op = "update" /\ k \in Keys
  BY RequestFields DEF UpdateGet, TypeInv, TypeOK
<1>2. e \in Entry \cup {NoEntity}
  BY <1>1 DEF TypeInv, TypeOK
<1>3. CASE RoundTripFails(c, FALSE)
  BY <1>1, <1>3, FailRef DEF Pending, Abs!ANext, RefStep
<1>4. CASE e # NoEntity /\ e.val = req[c].val /\ Finish(c, "ok")
  <2>1. Abs!AEnd(c, "ok")
    BY <1>4, EndRef DEF Finish, Results
  <2>2. ValOf(e) = req[c].val
    BY <1>2, <1>4, ValOfType
  <2>3. Abs!AUpdateUnchanged(c)
    BY <1>1, <2>1, <2>2 DEF Abs!AUpdateUnchanged, AbsPc
  <2>4. QED
    BY <2>3 DEF Abs!ANext, RefStep
<1>5. CASE \E p \in {"put", "txn"} : Continue(c, p, e)
  BY <1>1, <1>5, ContinueRef DEF RefStep
<1>6. QED
  BY <1>3, <1>4, <1>5 DEF UpdateGet

\* The write of update() is AUpdate: the key gets the call's body.
LEMMA PutRef ==
    ASSUME TypeInv, NEW c \in Clients, pc[c] \in {"put", "txn"},
           Commit([store EXCEPT ![req[c].key] =
                      PutEntry(store[req[c].key], req[c].val, rev + 1)], {req[c].key}, c),
           Succeed(c, "ok", obs[c])
    PROVE  Abs!AUpdate(c)
<1> DEFINE k == req[c].key
           s == [store EXCEPT ![k] = PutEntry(store[k], req[c].val, rev + 1)]
<1>1. req[c].op = "update" /\ k \in Keys /\ req[c].val \in Vals
  BY RequestFields DEF TypeInv, TypeOK, CallShape
<1>2. s \in [Keys -> Entry \cup {NoEntity}]
  BY PutStoreType
<1>3. Abs!AWrite(c, [x \in Keys |-> ValOf(s[x])], {k}, "ok")
  BY <1>1, <1>2, WriteRef DEF Results
<1>4. ValOf(PutEntry(store[k], req[c].val, rev + 1)) = req[c].val
  <2>1. PutEntry(store[k], req[c].val, rev + 1) \in Entry
    <3>1. store[k] \in Entry \cup {NoEntity} /\ rev + 1 \in Nat
      BY <1>1 DEF TypeInv, TypeOK
    <3>2. QED
      BY <1>1, <3>1, PutEntryType
  <2>2. PutEntry(store[k], req[c].val, rev + 1) # NoEntity
    BY <2>1, AbsentAssumption
  <2>3. QED
    BY <2>2 DEF PutEntry, ValOf
<1>5. [x \in Keys |-> ValOf(s[x])]
        = [[x \in Keys |-> ValOf(store[x])] EXCEPT ![k] = req[c].val]
  BY <1>1, <1>4 DEF TypeInv, TypeOK
<1>6. QED
  BY <1>1, <1>3, <1>5 DEF Abs!AUpdate, AbsPc

LEMMA UpdatePutRef ==
    ASSUME TypeInv, NEW c \in Clients, UpdatePut(c)
    PROVE  RefStep
<1>1. CASE RoundTripFails(c, TRUE)
  BY <1>1, FailRef DEF UpdatePut, Pending, Abs!ANext, RefStep
<1>2. QED
  BY <1>1, PutRef DEF UpdatePut, Abs!ANext, RefStep

\* A failed compare is AConflict: the key changed since the call read it,
\* so another writer overtook the call.
LEMMA UpdateTxnRef ==
    ASSUME CasInv, NEW c \in Clients, UpdateTxn(c)
    PROVE  RefStep
<1> DEFINE k == req[c].key
<1>1. pc[c] = "txn" /\ req[c].op = "update"
  BY DEF UpdateTxn, CasInv, TypeInv, CallShape
<1>2. CASE RoundTripFails(c, TRUE)
  BY <1>1, <1>2, FailRef DEF CasInv, Pending, Abs!ANext, RefStep
<1>3. CASE ~TxnSucceeds(store[k], obs[c]) /\ TxnFailed(c)
  <2>1. touched[c]
    BY <1>1, <1>3 DEF CasInv, TxnReadCurrent, TxnSucceeds
  <2>2. Abs!AEnd(c, "conflict")
    BY <1>3, EndRef DEF CasInv, TxnFailed, Finish, Results
  <2>3. Abs!AConflict(c)
    BY <1>1, <2>1, <2>2 DEF Abs!AConflict, AbsPc
  <2>4. QED
    BY <2>3 DEF Abs!ANext, RefStep
<1>4. QED
  BY <1>1, <1>2, <1>3, PutRef DEF UpdateTxn, CasInv, Abs!ANext, RefStep

LEMMA GetRef ==
    ASSUME TypeInv, NEW c \in Clients, Get(c)
    PROVE  RefStep
<1> DEFINE k == req[c].key
           e == store[k]
<1>1. pc[c] = "call" /\ req[c].op = "get" /\ k \in Keys
  BY RequestFields DEF Get, TypeInv, TypeOK
<1>2. e \in Entry \cup {NoEntity}
  BY <1>1 DEF TypeInv, TypeOK
<1>3. CASE RoundTripFails(c, FALSE)
  BY <1>1, <1>3, FailRef DEF Pending, Abs!ANext, RefStep
<1>4. CASE e = NoEntity /\ Finish(c, "notfound")
  <2>1. Abs!AEnd(c, "notfound") /\ ValOf(e) = NoEntity
    BY <1>4, EndRef DEF Finish, Results, ValOf
  <2>2. Abs!AGet(c)
    BY <1>1, <2>1 DEF Abs!AGet, AbsPc
  <2>3. QED
    BY <2>2 DEF Abs!ANext, RefStep
<1>5. CASE e # NoEntity /\ Finish(c, e.val)
  <2>1. ValOf(e) = e.val /\ e.val \in Vals /\ e.val # NoEntity
    BY <1>2, <1>5, ValOfType
  <2>2. Abs!AEnd(c, e.val)
    BY <1>5, <2>1, EndRef DEF Finish, Results
  <2>3. Abs!AGet(c)
    BY <1>1, <2>1, <2>2 DEF Abs!AGet, AbsPc
  <2>4. QED
    BY <2>3 DEF Abs!ANext, RefStep
<1>6. QED
  BY <1>3, <1>4, <1>5 DEF Get

LEMMA DeleteRef ==
    ASSUME TypeInv, NEW c \in Clients, Delete(c)
    PROVE  RefStep
<1> DEFINE k == req[c].key
           e == store[k]
           s == [store EXCEPT ![k] = NoEntity]
<1>1. pc[c] = "call" /\ req[c].op = "delete" /\ k \in Keys
  BY RequestFields DEF Delete, TypeInv, TypeOK
<1>2. e \in Entry \cup {NoEntity}
  BY <1>1 DEF TypeInv, TypeOK
<1>3. CASE RoundTripFails(c, TRUE)
  BY <1>1, <1>3, FailRef DEF Pending, Abs!ANext, RefStep
<1>4. CASE e = NoEntity /\ Finish(c, "notdeleted")
  <2>1. Abs!AEnd(c, "notdeleted") /\ ValOf(e) = NoEntity
    BY <1>4, EndRef DEF Finish, Results, ValOf
  <2>2. Abs!ANotDeleted(c)
    BY <1>1, <2>1 DEF Abs!ANotDeleted, AbsPc
  <2>3. QED
    BY <2>2 DEF Abs!ANext, RefStep
<1>5. CASE e # NoEntity /\ Commit(s, {k}, c) /\ Succeed(c, "deleted", e)
  <2>1. s \in [Keys -> Entry \cup {NoEntity}]
    BY DEF TypeInv, TypeOK
  <2>2. Abs!AWrite(c, [x \in Keys |-> ValOf(s[x])], {k}, "deleted")
    BY <1>1, <1>5, <2>1, WriteRef DEF Results
  <2>3. [x \in Keys |-> ValOf(s[x])]
          = [[x \in Keys |-> ValOf(store[x])] EXCEPT ![k] = NoEntity]
    BY <1>1 DEF ValOf, TypeInv, TypeOK
  <2>4. ValOf(e) # NoEntity
    BY <1>2, <1>5, ValOfType
  <2>5. Abs!ADelete(c)
    BY <1>1, <2>2, <2>3, <2>4 DEF Abs!ADelete, AbsPc
  <2>6. QED
    BY <2>5 DEF Abs!ANext, RefStep
<1>6. QED
  BY <1>3, <1>4, <1>5 DEF Delete

LEMMA DeleteGroupGetRef ==
    ASSUME TypeInv, NEW c \in Clients, DeleteGroupGet(c)
    PROVE  RefStep
<1> DEFINE k == req[c].key
           e == store[k]
<1>1. pc[c] = "call" /\ req[c].op = "deleteGroup" /\ k \in Keys
  BY RequestFields DEF DeleteGroupGet, TypeInv, TypeOK
<1>2. CASE RoundTripFails(c, FALSE)
  BY <1>1, <1>2, FailRef DEF Pending, Abs!ANext, RefStep
<1>3. CASE e = NoEntity /\ Finish(c, "notfound")
  <2>1. Abs!AEnd(c, "notfound") /\ ValOf(e) = NoEntity
    BY <1>3, EndRef DEF Finish, Results, ValOf
  <2>2. Abs!AGroupNotFound(c)
    BY <1>1, <2>1 DEF Abs!AGroupNotFound, AbsPc
  <2>3. QED
    BY <2>2 DEF Abs!ANext, RefStep
<1>4. CASE e # NoEntity /\ Continue(c, "dgdel", e)
  BY <1>1, <1>4, ContinueRef DEF RefStep
<1>5. QED
  BY <1>2, <1>3, <1>4 DEF DeleteGroupGet

\* The ranged delete removes, in one revision, exactly the keys of the
\* group that hold something: the abstract subtree delete.
LEMMA DeleteGroupRangeRef ==
    ASSUME TypeInv, NEW c \in Clients, DeleteGroupRange(c)
    PROVE  RefStep
<1> DEFINE g == req[c].key.group
           present == {x \in GroupSubtree(g) : store[x] # NoEntity}
           apresent == {x \in GroupSubtree(g) : [y \in Keys |-> ValOf(store[y])][x] # NoEntity}
           s == [x \in Keys |-> IF x \in present THEN NoEntity ELSE store[x]]
<1>0. Abs!Keys = Keys /\ Abs!GroupSubtree(g) = GroupSubtree(g)
  BY AbsKeys
<1>1. pc[c] = "dgdel" /\ req[c].op = "deleteGroup"
  BY DEF DeleteGroupRange, TypeInv, CallShape
<1>2. present = apresent /\ present \in SUBSET Keys
  <2>1. \A x \in Keys : ValOf(store[x]) = NoEntity <=> store[x] = NoEntity
    BY ValOfType DEF TypeInv, TypeOK
  <2>2. GroupSubtree(g) \subseteq Keys
    BY DEF GroupSubtree
  <2>3. QED
    BY <2>1, <2>2
<1>3. AbsPc(pc[c]) = "pending"
  BY <1>1 DEF AbsPc
<1>4. CASE RoundTripFails(c, TRUE)
  BY <1>1, <1>4, FailRef DEF Pending, Abs!ANext, RefStep
<1>5. CASE present = {} /\ Finish(c, "deleted")
  <2>1. Abs!AEnd(c, "deleted")
    BY <1>5, EndRef DEF Finish, Results
  <2>2. Abs!ADeleteGroup(c)
    BY <1>0, <1>1, <1>2, <1>3, <1>5, <2>1 DEF Abs!ADeleteGroup
  <2>3. QED
    BY <2>2 DEF Abs!ANext, RefStep
<1>6. CASE present # {} /\ Commit(s, present, c) /\ Succeed(c, "deleted", obs[c])
  <2>1. s \in [Keys -> Entry \cup {NoEntity}]
    BY DEF TypeInv, TypeOK
  <2>2. Abs!AWrite(c, [x \in Keys |-> ValOf(s[x])], present, "deleted")
    BY <1>2, <1>6, <2>1, WriteRef DEF Results
  <2>3. [x \in Keys |-> ValOf(s[x])]
          = [x \in Keys |-> IF x \in apresent THEN NoEntity
                            ELSE [y \in Keys |-> ValOf(store[y])][x]]
    BY <1>2 DEF ValOf
  <2>4. Abs!ADeleteGroup(c)
    BY <1>0, <1>1, <1>2, <1>3, <1>6, <2>2, <2>3 DEF Abs!ADeleteGroup
  <2>5. QED
    BY <2>4 DEF Abs!ANext, RefStep
<1>7. QED
  BY <1>4, <1>5, <1>6 DEF DeleteGroupRange

LEMMA NotifyRef ==
    ASSUME TypeInv, NEW c \in Clients, NotifyHandler(c) \/ NotifyReturn(c)
    PROVE  RefStep
<1>1. CASE NotifyHandler(c)
  BY <1>1 DEF NotifyHandler, Abs!avars, RefStep
<1>2. CASE NotifyReturn(c)
  <2>1. Abs!AReturn(c)
    <3>1. Abs!AFinish(c, ret[c], "idle")
      BY <1>2, ReturnRef DEF NotifyReturn
    <3>2. AbsPc(pc[c]) = "applied"
      BY <1>2 DEF NotifyReturn, AbsPc
    <3>3. ret' = ret
      BY <1>2 DEF NotifyReturn, Return, TypeInv, TypeOK
    <3>4. QED
      BY <1>2, <3>1, <3>2, <3>3 DEF NotifyReturn, Abs!AFinish, Abs!AReturn
  <2>2. QED
    BY <2>1 DEF Abs!ANext, RefStep
<1>3. QED
  BY <1>1, <1>2

LEMMA RefinementStep == CasInv /\ [Next]_vars => [Abs!ANext]_Abs!avars
<1> SUFFICES ASSUME CasInv, [Next]_vars PROVE RefStep
  BY DEF RefStep
<1>1. CASE UNCHANGED vars
  BY <1>1 DEF vars, Abs!avars, RefStep
<1>2. ASSUME NEW c \in Clients, CallNext(c) PROVE RefStep
  BY <1>2, CallRef DEF CasInv, RefStep
<1>3. ASSUME NEW c \in Clients, StepNext(c) PROVE RefStep
  BY <1>3, UpdateGetRef, UpdatePutRef, UpdateTxnRef, GetRef, DeleteRef,
     DeleteGroupGetRef, DeleteGroupRangeRef, NotifyRef
  DEF StepNext, CasInv
<1>4. QED
  BY <1>1, <1>2, <1>3 DEF Next

\* The registry is linearizable: under the mapping of store to bodies and
\* of a call's round trips to "pending" and its notify loop to "applied",
\* every behaviour of update(), delete(), DeleteGroup() and get() is one
\* of the atomic registry of RegistrySpec.
THEOREM Refinement == Spec => Linearizable
<1>1. Init => Abs!AInit
  BY AbsKeys, AbsNoRequest DEF Init, Abs!AInit, ValOf, AbsPc
<1>2. QED
  BY <1>1, RefinementStep, CasInvariant, PTL DEF Spec, Linearizable, Abs!ASpec
=============================================================================
