--------------------------- MODULE RegistryProofs ---------------------------
(***************************************************************************)
(* Proofs about the registry model, for every value of the constants that  *)
(* satisfies the assumptions of RegistryKeys and Registry.                 *)
(***************************************************************************)
EXTENDS Registry, TLAPS

USE KindsAssumption, NoEntityAssumption, GroupsAssumption, InterestAssumption,
    BoundsAssumption

-----------------------------------------------------------------------------
(* Facts about the data the actions handle.                                *)

LEMMA KeyFields ==
    ASSUME NEW k \in Keys
    PROVE  k.group \in Groups /\ k.kind \in Kinds
BY DEF Keys, GroupKeys, EntityKeys, GroupKey, EntityKey, Kinds, KindGroup

LEMMA RequestFields ==
    ASSUME NEW r \in Requests
    PROVE  /\ r.key \in Keys
           /\ r.op \in {"update", "delete", "deleteGroup", "get"}
           /\ r.op = "update" => r.val \in Vals
BY DEF Requests, Keys

LEMMA NoRequestType == NoRequest \in Requests
<1>1. PICK g \in Groups : TRUE
  OBVIOUS
<1>2. [op |-> "deleteGroup", key |-> GroupKey(g), val |-> NoEntity] \in Requests
  BY <1>1 DEF Requests, GroupKeys
<1>3. QED
  BY <1>2 DEF NoRequest

LEMMA HandlersRange == Len(Interest) \in Nat /\ Handlers = 1..Len(Interest)
BY DEF Handlers

LEMMA PutEntryType ==
    ASSUME NEW e \in Entry \cup {NoEntity}, NEW v \in Vals, NEW r \in Nat
    PROVE  PutEntry(e, v, r) \in Entry
BY DEF PutEntry, Entry

-----------------------------------------------------------------------------
(* Type correctness.                                                       *)

LEMMA InitTypeOK == Init => TypeOK
<1> SUFFICES ASSUME Init PROVE TypeOK
  OBVIOUS
<1>1. req \in [Clients -> Requests]
  BY NoRequestType DEF Init
<1>2. hi \in [Clients -> 1..(Len(Interest) + 1)]
  BY HandlersRange DEF Init
<1>3. pc \in [Clients -> PcValues] /\ ret \in [Clients -> Results]
  BY DEF Init, PcValues, Results
<1>4. /\ store \in [Keys -> Entry \cup {NoEntity}]
      /\ obs \in [Clients -> Entry \cup {NoEntity}]
      /\ hv \in [Handlers -> [Keys -> Vals \cup {NoEntity}]]
      /\ hist \in [Keys -> SUBSET Vals]
      /\ touched \in [Clients -> BOOLEAN]
      /\ rev \in 0..MaxRev /\ faults \in 0..MaxFaults
  BY DEF Init
<1>5. QED
  BY <1>1, <1>2, <1>3, <1>4 DEF TypeOK

\* The parts of TypeOK that the bookkeeping helpers establish.
LEMMA ReturnType ==
    ASSUME NEW c \in Clients, NEW r \in Results,
           pc \in [Clients -> PcValues], ret \in [Clients -> Results],
           req \in [Clients -> Requests], obs \in [Clients -> Entry \cup {NoEntity}],
           hi \in [Clients -> 1..(Len(Interest) + 1)],
           Return(c, r)
    PROVE  /\ pc' \in [Clients -> PcValues]
           /\ ret' \in [Clients -> Results]
           /\ req' \in [Clients -> Requests]
           /\ obs' \in [Clients -> Entry \cup {NoEntity}]
           /\ hi' \in [Clients -> 1..(Len(Interest) + 1)]
<1>1. pc' \in [Clients -> PcValues]
  BY DEF Return, PcValues
<1>2. ret' \in [Clients -> Results]
  BY DEF Return
<1>3. req' \in [Clients -> Requests]
  BY NoRequestType DEF Return
<1>4. obs' \in [Clients -> Entry \cup {NoEntity}]
  BY DEF Return
<1>5. hi' \in [Clients -> 1..(Len(Interest) + 1)]
  BY HandlersRange DEF Return
<1>6. QED
  BY <1>1, <1>2, <1>3, <1>4, <1>5

LEMMA CommitType ==
    ASSUME TypeOK, NEW c \in Clients, NEW K \in SUBSET Keys,
           NEW s \in [Keys -> Entry \cup {NoEntity}], Commit(s, K, c)
    PROVE  /\ store' \in [Keys -> Entry \cup {NoEntity}]
           /\ rev' \in 0..MaxRev
           /\ hist' \in [Keys -> SUBSET Vals]
           /\ touched' \in [Clients -> BOOLEAN]
<1>1. store' \in [Keys -> Entry \cup {NoEntity}]
  BY DEF Commit
<1>2. rev' \in 0..MaxRev
  BY DEF Commit, TypeOK
<1>3. hist' \in [Keys -> SUBSET Vals]
  <2>1. hist \in [Keys -> SUBSET Vals]
    BY DEF TypeOK
  <2>2. \A x \in Keys : s[x] # NoEntity => s[x].val \in Vals
    BY DEF Entry
  <2>3. QED
    BY <2>1, <2>2 DEF Commit
<1>4. touched' \in [Clients -> BOOLEAN]
  BY DEF Commit, Touch, TypeOK
<1>5. QED
  BY <1>1, <1>2, <1>3, <1>4

LEMMA NoCommitType ==
    ASSUME TypeOK, NEW c \in Clients, NoCommit(c)
    PROVE  /\ store' \in [Keys -> Entry \cup {NoEntity}]
           /\ rev' \in 0..MaxRev
           /\ hist' \in [Keys -> SUBSET Vals]
           /\ touched' \in [Clients -> BOOLEAN]
BY DEF NoCommit, TypeOK

\* A step that ends the call of c with its locals reset keeps the shape.
LEMMA ReturnShape ==
    ASSUME CallShape, pc \in [Clients -> PcValues], req \in [Clients -> Requests],
           NEW c \in Clients, NEW r \in Results, Return(c, r)
    PROVE  CallShape'
BY DEF Return, CallShape

LEMMA SucceedType ==
    ASSUME TypeOK, CallShape, NEW c \in Clients, NEW r \in Results,
           NEW o \in Entry \cup {NoEntity}, Succeed(c, r, o)
    PROVE  /\ pc' \in [Clients -> PcValues]
           /\ ret' \in [Clients -> Results]
           /\ req' \in [Clients -> Requests]
           /\ obs' \in [Clients -> Entry \cup {NoEntity}]
           /\ hi' \in [Clients -> 1..(Len(Interest) + 1)]
           /\ faults' \in 0..MaxFaults
           /\ CallShape'
<1>1. CASE StartNotify(c, r, o) /\ UNCHANGED faults
  <2>1. /\ pc' \in [Clients -> PcValues]
        /\ ret' \in [Clients -> Results]
        /\ req' \in [Clients -> Requests]
        /\ obs' \in [Clients -> Entry \cup {NoEntity}]
        /\ faults' \in 0..MaxFaults
    BY <1>1 DEF StartNotify, TypeOK, PcValues
  <2>2. hi' \in [Clients -> 1..(Len(Interest) + 1)]
    BY <1>1, HandlersRange DEF StartNotify, TypeOK
  <2>3. CallShape'
    BY <1>1 DEF StartNotify, CallShape
  <2>4. QED
    BY <2>1, <2>2, <2>3
<1>2. CASE CanFail /\ faults' = faults + 1 /\ Return(c, "err")
  <2>1. faults' \in 0..MaxFaults
    BY <1>2 DEF CanFail, TypeOK
  <2>2. QED
    BY <1>2, <2>1, ReturnType, ReturnShape DEF TypeOK, Results
<1>3. QED
  BY <1>1, <1>2 DEF Succeed

LEMMA RoundTripFailsStep ==
    ASSUME TypeInv, NEW c \in Clients, NEW w \in BOOLEAN, RoundTripFails(c, w),
           UNCHANGED hv
    PROVE  TypeInv'
<1>1. faults' \in 0..MaxFaults
  BY DEF RoundTripFails, CanFail, TypeOK, TypeInv
<1>2. Return(c, "err") /\ NoCommit(c)
  BY DEF RoundTripFails
<1>3. QED
  BY <1>1, <1>2, ReturnType, ReturnShape, NoCommitType DEF Results, TypeOK, TypeInv

LEMMA FinishStep ==
    ASSUME TypeInv, NEW c \in Clients, NEW r \in Results, Finish(c, r), UNCHANGED hv
    PROVE  TypeInv'
BY ReturnType, ReturnShape, NoCommitType DEF Finish, TypeOK, TypeInv

LEMMA CallStep ==
    ASSUME TypeInv, NEW c \in Clients, NEW r \in Requests, Call(c, r)
    PROVE  TypeInv'
<1>1. TypeOK'
  BY DEF Call, TypeOK, TypeInv, PcValues
<1>2. CallShape'
  BY DEF Call, CallShape, TypeInv
<1>3. QED
  BY <1>1, <1>2 DEF TypeInv

LEMMA ContinueStep ==
    ASSUME TypeInv, NEW c \in Clients, NEW p \in {"put", "txn", "dgdel"},
           NEW o \in Entry \cup {NoEntity}, Continue(c, p, o), UNCHANGED hv,
           p \in {"put", "txn"} => req[c].op = "update",
           p = "dgdel" => req[c].op = "deleteGroup"
    PROVE  TypeInv'
<1>1. TypeOK'
  BY DEF Continue, TypeOK, TypeInv, PcValues
<1>2. CallShape'
  BY DEF Continue, CallShape, TypeInv, TypeOK
<1>3. QED
  BY <1>1, <1>2 DEF TypeInv

\* A committed write followed by the notify loop or by a lost response.
LEMMA WriteStep ==
    ASSUME TypeInv, NEW c \in Clients, NEW K \in SUBSET Keys,
           NEW s \in [Keys -> Entry \cup {NoEntity}], NEW r \in Results,
           NEW o \in Entry \cup {NoEntity},
           Commit(s, K, c), Succeed(c, r, o), UNCHANGED hv
    PROVE  TypeInv'
BY CommitType, SucceedType DEF TypeInv, TypeOK

\* The store an update writes is well typed.
LEMMA PutStoreType ==
    ASSUME TypeInv, NEW c \in Clients, pc[c] \in {"put", "txn"}
    PROVE  [store EXCEPT ![req[c].key] = PutEntry(store[req[c].key], req[c].val, rev + 1)]
              \in [Keys -> Entry \cup {NoEntity}]
<1>1. req[c] \in Requests /\ req[c].op = "update"
  BY DEF TypeInv, TypeOK, CallShape
<1>2. req[c].key \in Keys /\ req[c].val \in Vals
  BY <1>1, RequestFields
<1>3. store[req[c].key] \in Entry \cup {NoEntity} /\ rev + 1 \in Nat
  BY <1>2 DEF TypeInv, TypeOK
<1>4. QED
  BY <1>2, <1>3, PutEntryType DEF TypeInv, TypeOK

LEMMA UpdateGetStep ==
    ASSUME TypeInv, NEW c \in Clients, UpdateGet(c)
    PROVE  TypeInv'
<1> DEFINE e == store[req[c].key]
<1>1. req[c].op = "update" /\ req[c].key \in Keys
  BY RequestFields DEF UpdateGet, TypeInv, TypeOK
<1>2. e \in Entry \cup {NoEntity}
  BY <1>1 DEF TypeInv, TypeOK
<1>3. CASE RoundTripFails(c, FALSE)
  BY <1>3, RoundTripFailsStep DEF UpdateGet
<1>4. CASE e = NoEntity /\ Continue(c, "put", e)
  BY <1>1, <1>2, <1>4, ContinueStep DEF UpdateGet
<1>5. CASE e # NoEntity /\ e.val = req[c].val /\ Finish(c, "ok")
  BY <1>5, FinishStep DEF UpdateGet, Results
<1>6. CASE e # NoEntity /\ e.val # req[c].val /\ Continue(c, "txn", e)
  BY <1>1, <1>2, <1>6, ContinueStep DEF UpdateGet
<1>7. QED
  BY <1>3, <1>4, <1>5, <1>6 DEF UpdateGet

LEMMA UpdatePutStep ==
    ASSUME TypeInv, NEW c \in Clients, UpdatePut(c)
    PROVE  TypeInv'
<1> DEFINE k == req[c].key
           s == [store EXCEPT ![k] = PutEntry(store[k], req[c].val, rev + 1)]
<1>1. pc[c] = "put" /\ k \in Keys
  BY RequestFields DEF UpdatePut, TypeInv, TypeOK
<1>2. s \in [Keys -> Entry \cup {NoEntity}]
  BY <1>1, PutStoreType
<1>3. obs[c] \in Entry \cup {NoEntity}
  BY DEF TypeInv, TypeOK
<1>4. CASE Commit(s, {k}, c) /\ Succeed(c, "ok", obs[c])
  BY <1>1, <1>2, <1>3, <1>4, WriteStep DEF UpdatePut, Results
<1>5. CASE RoundTripFails(c, TRUE)
  BY <1>5, RoundTripFailsStep DEF UpdatePut
<1>6. QED
  BY <1>4, <1>5 DEF UpdatePut

LEMMA UpdateTxnStep ==
    ASSUME TypeInv, NEW c \in Clients, UpdateTxn(c)
    PROVE  TypeInv'
<1> DEFINE k == req[c].key
           s == [store EXCEPT ![k] = PutEntry(store[k], req[c].val, rev + 1)]
<1>1. pc[c] = "txn" /\ k \in Keys
  BY RequestFields DEF UpdateTxn, TypeInv, TypeOK
<1>2. s \in [Keys -> Entry \cup {NoEntity}]
  BY <1>1, PutStoreType
<1>3. obs[c] \in Entry \cup {NoEntity}
  BY DEF TypeInv, TypeOK
<1>4. CASE Commit(s, {k}, c) /\ Succeed(c, "ok", obs[c])
  BY <1>1, <1>2, <1>3, <1>4, WriteStep DEF UpdateTxn, Results
<1>5. CASE TxnFailed(c)
  BY <1>5, FinishStep DEF UpdateTxn, TxnFailed, Results
<1>6. CASE RoundTripFails(c, TRUE)
  BY <1>6, RoundTripFailsStep DEF UpdateTxn
<1>7. QED
  BY <1>4, <1>5, <1>6 DEF UpdateTxn

LEMMA GetStep ==
    ASSUME TypeInv, NEW c \in Clients, Get(c)
    PROVE  TypeInv'
<1> DEFINE e == store[req[c].key]
<1>1. e \in Entry \cup {NoEntity}
  BY RequestFields DEF Get, TypeInv, TypeOK
<1>2. CASE RoundTripFails(c, FALSE)
  BY <1>2, RoundTripFailsStep DEF Get
<1>3. CASE Finish(c, "notfound")
  BY <1>3, FinishStep DEF Get, Results
<1>4. CASE e # NoEntity /\ Finish(c, e.val)
  <2>1. e.val \in Results
    BY <1>1, <1>4 DEF Entry, Results
  <2>2. QED
    BY <1>4, <2>1, FinishStep DEF Get
<1>5. QED
  BY <1>2, <1>3, <1>4 DEF Get

LEMMA DeleteStep ==
    ASSUME TypeInv, NEW c \in Clients, Delete(c)
    PROVE  TypeInv'
<1> DEFINE k == req[c].key
<1>1. k \in Keys /\ store[k] \in Entry \cup {NoEntity}
  BY RequestFields DEF Delete, TypeInv, TypeOK
<1>2. [store EXCEPT ![k] = NoEntity] \in [Keys -> Entry \cup {NoEntity}]
  BY <1>1 DEF TypeInv, TypeOK
<1>3. CASE Commit([store EXCEPT ![k] = NoEntity], {k}, c) /\ Succeed(c, "deleted", store[k])
  BY <1>1, <1>2, <1>3, WriteStep DEF Delete, Results
<1>4. CASE Finish(c, "notdeleted")
  BY <1>4, FinishStep DEF Delete, Results
<1>5. CASE RoundTripFails(c, TRUE)
  BY <1>5, RoundTripFailsStep DEF Delete
<1>6. QED
  BY <1>3, <1>4, <1>5 DEF Delete

LEMMA DeleteGroupGetStep ==
    ASSUME TypeInv, NEW c \in Clients, DeleteGroupGet(c)
    PROVE  TypeInv'
<1> DEFINE e == store[req[c].key]
<1>1. req[c].op = "deleteGroup" /\ e \in Entry \cup {NoEntity}
  BY RequestFields DEF DeleteGroupGet, TypeInv, TypeOK
<1>2. CASE RoundTripFails(c, FALSE)
  BY <1>2, RoundTripFailsStep DEF DeleteGroupGet
<1>3. CASE Finish(c, "notfound")
  BY <1>3, FinishStep DEF DeleteGroupGet, Results
<1>4. CASE Continue(c, "dgdel", e)
  BY <1>1, <1>4, ContinueStep DEF DeleteGroupGet
<1>5. QED
  BY <1>2, <1>3, <1>4 DEF DeleteGroupGet

LEMMA DeleteGroupRangeStep ==
    ASSUME TypeInv, NEW c \in Clients, DeleteGroupRange(c)
    PROVE  TypeInv'
<1> DEFINE present == {x \in GroupSubtree(req[c].key.group) : store[x] # NoEntity}
           s == [x \in Keys |-> IF x \in present THEN NoEntity ELSE store[x]]
<1>1. present \in SUBSET Keys
  BY DEF GroupSubtree
<1>2. s \in [Keys -> Entry \cup {NoEntity}]
  BY DEF TypeInv, TypeOK
<1>3. obs[c] \in Entry \cup {NoEntity}
  BY DEF TypeInv, TypeOK
<1>4. CASE Commit(s, present, c) /\ Succeed(c, "deleted", obs[c])
  BY <1>1, <1>2, <1>3, <1>4, WriteStep DEF DeleteGroupRange, Results
<1>5. CASE Finish(c, "deleted")
  BY <1>5, FinishStep DEF DeleteGroupRange, Results
<1>6. CASE RoundTripFails(c, TRUE)
  BY <1>6, RoundTripFailsStep DEF DeleteGroupRange
<1>7. QED
  BY <1>4, <1>5, <1>6 DEF DeleteGroupRange

\* What a handler is told keeps its view well typed.
LEMMA DeliveredType ==
    ASSUME NEW view \in [Keys -> Vals \cup {NoEntity}], NEW c \in Clients,
           req[c] \in Requests
    PROVE  Delivered(view, c) \in [Keys -> Vals \cup {NoEntity}]
<1>1. req[c].key \in Keys /\ (req[c].op = "update" => req[c].val \in Vals)
  BY RequestFields
<1>2. QED
  BY <1>1 DEF Delivered

LEMMA NotifyHandlerStep ==
    ASSUME TypeInv, NEW c \in Clients, NotifyHandler(c)
    PROVE  TypeInv'
<1> DEFINE h == hi[c]
<1>1. h \in Handlers /\ Len(Interest) \in Nat
  BY HandlersRange DEF NotifyHandler, TypeInv, TypeOK
<1>2. hv' \in [Handlers -> [Keys -> Vals \cup {NoEntity}]]
  <2>1. req[c] \in Requests /\ hv[h] \in [Keys -> Vals \cup {NoEntity}]
    BY <1>1 DEF TypeInv, TypeOK
  <2>2. Delivered(hv[h], c) \in [Keys -> Vals \cup {NoEntity}]
    BY <2>1, DeliveredType
  <2>3. QED
    BY <1>1, <2>2 DEF NotifyHandler, TypeInv, TypeOK
<1>3. hi' \in [Clients -> 1..(Len(Interest) + 1)]
  BY <1>1, HandlersRange DEF NotifyHandler, TypeInv, TypeOK
<1>4. QED
  BY <1>2, <1>3 DEF NotifyHandler, TypeInv, TypeOK, CallShape

LEMMA NotifyReturnStep ==
    ASSUME TypeInv, NEW c \in Clients, NotifyReturn(c)
    PROVE  TypeInv'
<1>1. ret[c] \in Results
  BY DEF TypeInv, TypeOK
<1>2. QED
  BY <1>1, ReturnType, ReturnShape DEF NotifyReturn, TypeInv, TypeOK

LEMMA CallNextStep ==
    ASSUME TypeInv, NEW c \in Clients, CallNext(c)
    PROVE  TypeInv'
<1>1. ASSUME NEW g \in Groups, NEW v \in Vals, UpdateGroup(c, g, v)
      PROVE  TypeInv'
  <2>1. [op |-> "update", key |-> GroupKey(g), val |-> v] \in Requests
    BY DEF Requests, Keys, GroupKeys
  <2>2. QED
    BY <1>1, <2>1, CallStep DEF UpdateGroup
<1>2. ASSUME NEW kind \in EntityKinds, NEW g \in Groups, NEW n \in Names,
             NEW v \in Vals, UpdateEntity(c, kind, g, n, v)
      PROVE  TypeInv'
  <2>1. [op |-> "update", key |-> EntityKey(kind, g, n), val |-> v] \in Requests
    BY DEF Requests, Keys, EntityKeys
  <2>2. QED
    BY <1>2, <2>1, CallStep DEF UpdateEntity
<1>3. ASSUME NEW kind \in EntityKinds, NEW g \in Groups, NEW n \in Names,
             DeleteEntity(c, kind, g, n)
      PROVE  TypeInv'
  <2>1. [op |-> "delete", key |-> EntityKey(kind, g, n), val |-> NoEntity] \in Requests
    BY DEF Requests, EntityKeys
  <2>2. QED
    BY <1>3, <2>1, CallStep DEF DeleteEntity
<1>4. ASSUME NEW g \in Groups, DeleteGroup(c, g)
      PROVE  TypeInv'
  <2>1. [op |-> "deleteGroup", key |-> GroupKey(g), val |-> NoEntity] \in Requests
    BY DEF Requests, GroupKeys
  <2>2. QED
    BY <1>4, <2>1, CallStep DEF DeleteGroup
<1>5. ASSUME NEW g \in Groups, GetGroup(c, g)
      PROVE  TypeInv'
  <2>1. [op |-> "get", key |-> GroupKey(g), val |-> NoEntity] \in Requests
    BY DEF Requests, Keys, GroupKeys
  <2>2. QED
    BY <1>5, <2>1, CallStep DEF GetGroup
<1>6. ASSUME NEW kind \in EntityKinds, NEW g \in Groups, NEW n \in Names,
             GetEntity(c, kind, g, n)
      PROVE  TypeInv'
  <2>1. [op |-> "get", key |-> EntityKey(kind, g, n), val |-> NoEntity] \in Requests
    BY DEF Requests, Keys, EntityKeys
  <2>2. QED
    BY <1>6, <2>1, CallStep DEF GetEntity
<1>7. QED
  BY <1>1, <1>2, <1>3, <1>4, <1>5, <1>6 DEF CallNext

LEMMA TypeInvStep == TypeInv /\ [Next]_vars => TypeInv'
<1> SUFFICES ASSUME TypeInv, [Next]_vars PROVE TypeInv'
  OBVIOUS
<1>1. CASE UNCHANGED vars
  BY <1>1 DEF vars, TypeInv, TypeOK, CallShape
<1>2. ASSUME NEW c \in Clients, CallNext(c) PROVE TypeInv'
  BY <1>2, CallNextStep
<1>3. ASSUME NEW c \in Clients, StepNext(c) PROVE TypeInv'
  BY <1>3, UpdateGetStep, UpdatePutStep, UpdateTxnStep, GetStep, DeleteStep,
     DeleteGroupGetStep, DeleteGroupRangeStep, NotifyHandlerStep, NotifyReturnStep
  DEF StepNext
<1>4. QED
  BY <1>1, <1>2, <1>3 DEF Next

LEMMA InitTypeInv == Init => TypeInv
<1> SUFFICES ASSUME Init PROVE TypeInv
  OBVIOUS
<1>1. CallShape
  BY DEF Init, CallShape
<1>2. QED
  BY <1>1, InitTypeOK DEF TypeInv

\* Type correctness of the registry model: every reachable state gives
\* each variable a value of its type (TypeOK, checked by TLC in the
\* Linearizable run).
THEOREM TypeCorrect == Spec => []TypeOK
<1>1. Init => TypeInv
  BY InitTypeInv
<1>2. TypeInv /\ [Next]_vars => TypeInv'
  BY TypeInvStep
<1>3. TypeInv => TypeOK
  BY DEF TypeInv
<1>4. QED
  BY <1>1, <1>2, <1>3, PTL DEF Spec

-----------------------------------------------------------------------------
(* Handlers are told only of committed bodies.                             *)

\* What a step does to the state NotifyInv speaks of: hist only grows, the
\* calls of other clients are left alone, and a call of c that enters or
\* stays in an update notify loop carries a committed body.
HistGrows == \A k \in Keys : hist[k] \subseteq hist'[k]

Others(c) == \A d \in Clients \ {c} : pc'[d] = pc[d] /\ req'[d] = req[d]

OwnPayload(c) ==
    (pc'[c] = "notify" /\ req'[c].op = "update") => req'[c].val \in hist'[req'[c].key]

LEMMA LocalStep ==
    ASSUME NotifyInv, NEW c \in Clients, UNCHANGED hv,
           HistGrows, Others(c), OwnPayload(c)
    PROVE  NotifiedWasCommitted' /\ NotifyPayloadCommitted'
<1>1. NotifiedWasCommitted'
  BY DEF HistGrows, NotifyInv, NotifiedWasCommitted, TypeInv, TypeOK
<1>2. ASSUME NEW d \in Clients, pc'[d] = "notify", req'[d].op = "update"
      PROVE  req'[d].val \in hist'[req'[d].key]
  <2>1. CASE d = c
    BY <1>2, <2>1 DEF OwnPayload
  <2>2. CASE d # c
    <3>1. pc[d] = "notify" /\ req[d].op = "update" /\ req'[d] = req[d]
      BY <1>2, <2>2 DEF Others
    <3>2. req[d].key \in Keys /\ req[d].val \in hist[req[d].key]
      BY <3>1, RequestFields DEF NotifyInv, NotifyPayloadCommitted, TypeInv, TypeOK
    <3>3. QED
      BY <3>1, <3>2 DEF HistGrows
  <2>3. QED
    BY <2>1, <2>2
<1>3. QED
  BY <1>1, <1>2 DEF NotifyPayloadCommitted

LEMMA ReturnLocal ==
    ASSUME pc \in [Clients -> PcValues], NEW c \in Clients, NEW r, Return(c, r)
    PROVE  Others(c) /\ OwnPayload(c)
BY DEF Return, Others, OwnPayload

LEMMA EndLocal ==
    ASSUME TypeInv, NEW c \in Clients,
           \/ \E w \in BOOLEAN : RoundTripFails(c, w)
           \/ \E r \in Results : Finish(c, r)
    PROVE  Others(c) /\ OwnPayload(c) /\ HistGrows
BY ReturnLocal DEF RoundTripFails, Finish, NoCommit, HistGrows, TypeInv, TypeOK

LEMMA ContinueLocal ==
    ASSUME pc \in [Clients -> PcValues], NEW c \in Clients,
           NEW p \in {"put", "txn", "dgdel"}, NEW o, Continue(c, p, o)
    PROVE  Others(c) /\ OwnPayload(c) /\ HistGrows
BY DEF Continue, Others, OwnPayload, HistGrows

\* A write that commits s: hist keeps what it had and gains the bodies s
\* stores at the keys written.
LEMMA CommitHist ==
    ASSUME NEW c, NEW K \in SUBSET Keys, NEW s, Commit(s, K, c)
    PROVE  /\ HistGrows
           /\ \A k \in K : s[k] # NoEntity => s[k].val \in hist'[k]
BY DEF Commit, HistGrows

LEMMA SucceedLocal ==
    ASSUME TypeInv, NEW c \in Clients, NEW r, NEW o, Succeed(c, r, o),
           req[c].op = "update" => req[c].val \in hist'[req[c].key]
    PROVE  Others(c) /\ OwnPayload(c)
<1>1. CASE StartNotify(c, r, o) /\ UNCHANGED faults
  BY <1>1 DEF StartNotify, Others, OwnPayload, TypeInv, TypeOK
<1>2. CASE CanFail /\ faults' = faults + 1 /\ Return(c, "err")
  BY <1>2, ReturnLocal DEF TypeInv, TypeOK
<1>3. QED
  BY <1>1, <1>2 DEF Succeed

\* An update that commits its body notifies with a committed payload.
LEMMA PutLocal ==
    ASSUME TypeInv, NEW c \in Clients, pc[c] \in {"put", "txn"},
           Commit([store EXCEPT ![req[c].key] = PutEntry(store[req[c].key], req[c].val, rev + 1)],
                  {req[c].key}, c),
           Succeed(c, "ok", obs[c])
    PROVE  Others(c) /\ OwnPayload(c) /\ HistGrows
<1> DEFINE k == req[c].key
           s == [store EXCEPT ![k] = PutEntry(store[k], req[c].val, rev + 1)]
<1>1. k \in Keys /\ req[c].val \in Vals /\ store[k] \in Entry \cup {NoEntity}
  BY RequestFields DEF TypeInv, TypeOK, CallShape
<1>2. rev + 1 \in Nat
  BY DEF TypeInv, TypeOK
<1>3. PutEntry(store[k], req[c].val, rev + 1) \in Entry
  BY <1>1, <1>2, PutEntryType
<1>4. store \in [Keys -> Entry \cup {NoEntity}]
  BY DEF TypeInv, TypeOK
<1>5. s[k] = PutEntry(store[k], req[c].val, rev + 1)
  BY <1>1, <1>4
<1>6. s[k] # NoEntity /\ s[k].val = req[c].val
  BY <1>3, <1>5, AbsentAssumption DEF PutEntry
<1>7. HistGrows /\ req[c].val \in hist'[k]
  <2>1. {k} \in SUBSET Keys
    BY <1>1
  <2>2. HistGrows /\ \A x \in {k} : s[x] # NoEntity => s[x].val \in hist'[x]
    BY <1>1 DEF Commit, HistGrows
  <2>3. QED
    BY <1>6, <2>2
<1>8. QED
  BY <1>7, SucceedLocal

LEMMA UpdateGetNotify ==
    ASSUME NotifyInv, NEW c \in Clients, UpdateGet(c)
    PROVE  NotifiedWasCommitted' /\ NotifyPayloadCommitted'
<1>1. Others(c) /\ OwnPayload(c) /\ HistGrows
  BY EndLocal, ContinueLocal DEF UpdateGet, NotifyInv, TypeInv, TypeOK, Results
<1>2. QED
  BY <1>1, LocalStep DEF UpdateGet

LEMMA UpdatePutNotify ==
    ASSUME NotifyInv, NEW c \in Clients, UpdatePut(c)
    PROVE  NotifiedWasCommitted' /\ NotifyPayloadCommitted'
<1>1. Others(c) /\ OwnPayload(c) /\ HistGrows
  BY PutLocal, EndLocal DEF UpdatePut, NotifyInv
<1>2. QED
  BY <1>1, LocalStep DEF UpdatePut

LEMMA UpdateTxnNotify ==
    ASSUME NotifyInv, NEW c \in Clients, UpdateTxn(c)
    PROVE  NotifiedWasCommitted' /\ NotifyPayloadCommitted'
<1>1. Others(c) /\ OwnPayload(c) /\ HistGrows
  BY PutLocal, EndLocal DEF UpdateTxn, TxnFailed, NotifyInv, Results
<1>2. QED
  BY <1>1, LocalStep DEF UpdateTxn

LEMMA GetNotify ==
    ASSUME NotifyInv, NEW c \in Clients, Get(c)
    PROVE  NotifiedWasCommitted' /\ NotifyPayloadCommitted'
<1> DEFINE e == store[req[c].key]
<1>1. e # NoEntity => e.val \in Results
  BY RequestFields DEF Get, NotifyInv, TypeInv, TypeOK, Entry, Results
<1>2. \/ \E r \in Results : Finish(c, r)
      \/ \E w \in BOOLEAN : RoundTripFails(c, w)
  BY <1>1 DEF Get, Results
<1>3. Others(c) /\ OwnPayload(c) /\ HistGrows
  BY <1>2, EndLocal DEF NotifyInv
<1>4. QED
  BY <1>3, LocalStep DEF Get

LEMMA DeleteNotify ==
    ASSUME NotifyInv, NEW c \in Clients, Delete(c)
    PROVE  NotifiedWasCommitted' /\ NotifyPayloadCommitted'
<1> DEFINE k == req[c].key
<1>1. req[c].op = "delete" /\ k \in Keys
  BY RequestFields DEF Delete, NotifyInv, TypeInv, TypeOK
<1>2. Others(c) /\ OwnPayload(c) /\ HistGrows
  <2>1. CASE Commit([store EXCEPT ![k] = NoEntity], {k}, c) /\ Succeed(c, "deleted", store[k])
    <3>1. HistGrows
      BY <1>1, <2>1 DEF Commit, HistGrows
    <3>2. Others(c) /\ OwnPayload(c)
      BY <1>1, <2>1, SucceedLocal DEF NotifyInv
    <3>3. QED
      BY <3>1, <3>2
  <2>2. CASE \/ \E r \in Results : Finish(c, r)
             \/ \E w \in BOOLEAN : RoundTripFails(c, w)
    BY <2>2, EndLocal DEF NotifyInv
  <2>3. QED
    BY <2>1, <2>2 DEF Delete, Results
<1>3. QED
  BY <1>2, LocalStep DEF Delete

LEMMA DeleteGroupGetNotify ==
    ASSUME NotifyInv, NEW c \in Clients, DeleteGroupGet(c)
    PROVE  NotifiedWasCommitted' /\ NotifyPayloadCommitted'
<1>1. Others(c) /\ OwnPayload(c) /\ HistGrows
  BY EndLocal, ContinueLocal DEF DeleteGroupGet, NotifyInv, TypeInv, TypeOK, Results
<1>2. QED
  BY <1>1, LocalStep DEF DeleteGroupGet

LEMMA DeleteGroupRangeNotify ==
    ASSUME NotifyInv, NEW c \in Clients, DeleteGroupRange(c)
    PROVE  NotifiedWasCommitted' /\ NotifyPayloadCommitted'
<1> DEFINE present == {x \in GroupSubtree(req[c].key.group) : store[x] # NoEntity}
           s == [x \in Keys |-> IF x \in present THEN NoEntity ELSE store[x]]
<1>1. req[c].op = "deleteGroup"
  BY DEF DeleteGroupRange, NotifyInv, TypeInv, CallShape
<1>2. Others(c) /\ OwnPayload(c) /\ HistGrows
  <2>1. CASE Commit(s, present, c) /\ Succeed(c, "deleted", obs[c])
    <3>1. HistGrows
      BY <1>1, <2>1 DEF Commit, HistGrows
    <3>2. Others(c) /\ OwnPayload(c)
      BY <1>1, <2>1, SucceedLocal DEF NotifyInv
    <3>3. QED
      BY <3>1, <3>2
  <2>2. CASE \/ \E r \in Results : Finish(c, r)
             \/ \E w \in BOOLEAN : RoundTripFails(c, w)
    BY <2>2, EndLocal DEF NotifyInv
  <2>3. QED
    BY <2>1, <2>2 DEF DeleteGroupRange, Results
<1>3. QED
  BY <1>2, LocalStep DEF DeleteGroupRange

\* What the notify loop hands a handler was committed, when its payload was.
LEMMA DeliveredCommitted ==
    ASSUME NEW c \in Clients, req[c] \in Requests,
           NEW view \in [Keys -> Vals \cup {NoEntity}],
           \A k \in Keys : view[k] # NoEntity => view[k] \in hist[k],
           req[c].op = "update" => req[c].val \in hist[req[c].key]
    PROVE  \A k \in Keys : Delivered(view, c)[k] # NoEntity
                             => Delivered(view, c)[k] \in hist[k]
<1>1. req[c].key \in Keys
  BY RequestFields
<1>2. QED
  BY <1>1 DEF Delivered

LEMMA NotifyHandlerNotify ==
    ASSUME NotifyInv, NEW c \in Clients, NotifyHandler(c)
    PROVE  NotifiedWasCommitted' /\ NotifyPayloadCommitted'
<1> DEFINE h == hi[c]
<1>1. NotifyPayloadCommitted'
  BY DEF NotifyHandler, NotifyInv, NotifyPayloadCommitted
<1>2. h \in Handlers
  BY HandlersRange DEF NotifyHandler, NotifyInv, TypeInv, TypeOK
<1>3. \A k \in Keys : Delivered(hv[h], c)[k] # NoEntity => Delivered(hv[h], c)[k] \in hist[k]
  <2>1. req[c] \in Requests /\ hv[h] \in [Keys -> Vals \cup {NoEntity}]
    BY <1>2 DEF NotifyInv, TypeInv, TypeOK
  <2>2. \A k \in Keys : hv[h][k] # NoEntity => hv[h][k] \in hist[k]
    BY <1>2 DEF NotifyInv, NotifiedWasCommitted
  <2>3. req[c].op = "update" => req[c].val \in hist[req[c].key]
    BY DEF NotifyHandler, NotifyInv, NotifyPayloadCommitted
  <2>4. QED
    BY <2>1, <2>2, <2>3, DeliveredCommitted
<1>4. NotifiedWasCommitted'
  BY <1>2, <1>3 DEF NotifyHandler, NotifyInv, NotifiedWasCommitted, TypeInv, TypeOK
<1>5. QED
  BY <1>1, <1>4

LEMMA NotifyReturnNotify ==
    ASSUME NotifyInv, NEW c \in Clients, NotifyReturn(c)
    PROVE  NotifiedWasCommitted' /\ NotifyPayloadCommitted'
<1>1. Others(c) /\ OwnPayload(c) /\ HistGrows
  BY ReturnLocal DEF NotifyReturn, HistGrows, NotifyInv, TypeInv, TypeOK
<1>2. QED
  BY <1>1, LocalStep DEF NotifyReturn

LEMMA CallNotify ==
    ASSUME NotifyInv, NEW c \in Clients, CallNext(c)
    PROVE  NotifiedWasCommitted' /\ NotifyPayloadCommitted'
<1>1. ASSUME NEW r, Call(c, r) PROVE Others(c) /\ OwnPayload(c) /\ HistGrows
  BY <1>1 DEF Call, Others, OwnPayload, HistGrows, NotifyInv, TypeInv, TypeOK
<1>2. Others(c) /\ OwnPayload(c) /\ HistGrows /\ UNCHANGED hv
  <2>1. \E r : Call(c, r)
    BY DEF CallNext, UpdateGroup, UpdateEntity, DeleteEntity, DeleteGroup,
           GetGroup, GetEntity
  <2>2. \A r : Call(c, r) => UNCHANGED hv
    BY DEF Call
  <2>3. QED
    BY <1>1, <2>1, <2>2
<1>3. QED
  BY <1>2, LocalStep

LEMMA NotifyInvStep == NotifyInv /\ [Next]_vars => NotifyInv'
<1> SUFFICES ASSUME NotifyInv, [Next]_vars PROVE NotifyInv'
  OBVIOUS
<1>1. TypeInv'
  BY TypeInvStep DEF NotifyInv
<1>2. CASE UNCHANGED vars
  BY <1>1, <1>2 DEF vars, NotifyInv, NotifiedWasCommitted, NotifyPayloadCommitted
<1>4. ASSUME NEW c \in Clients, CallNext(c) \/ StepNext(c)
      PROVE  NotifiedWasCommitted' /\ NotifyPayloadCommitted'
  BY <1>4, CallNotify, UpdateGetNotify, UpdatePutNotify, UpdateTxnNotify,
     GetNotify, DeleteNotify, DeleteGroupGetNotify, DeleteGroupRangeNotify,
     NotifyHandlerNotify, NotifyReturnNotify
  DEF StepNext
<1>5. QED
  BY <1>1, <1>2, <1>4 DEF Next, NotifyInv

LEMMA InitNotifyInv == Init => NotifyInv
<1> SUFFICES ASSUME Init PROVE NotifyInv
  OBVIOUS
<1>1. TypeInv
  BY InitTypeInv
<1>2. NotifiedWasCommitted /\ NotifyPayloadCommitted
  BY DEF Init, NotifiedWasCommitted, NotifyPayloadCommitted
<1>3. QED
  BY <1>1, <1>2 DEF NotifyInv

\* NotifyInv holds in every state: besides the types, every running update
\* notify loop (notifyUpdate after update()'s Put or Txn) carries a body
\* etcd committed at its key, and every handler holds only committed bodies.
THEOREM NotifyInvariant == Spec => []NotifyInv
BY InitNotifyInv, NotifyInvStep, PTL DEF Spec

\* The notify loops of update(), delete() and DeleteGroup() only ever tell a
\* handler of a body that etcd committed at that key (checked by TLC in the
\* notify run): a Txn whose compare failed, or a round trip that failed,
\* never reaches notifyUpdate.
THEOREM NotifySafety == Spec => []NotifiedWasCommitted
<1>1. NotifyInv => NotifiedWasCommitted
  BY DEF NotifyInv
<1>2. QED
  BY <1>1, NotifyInvariant, PTL

=============================================================================
