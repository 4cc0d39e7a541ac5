---------------------------- MODULE RegistrySpec ----------------------------
(***************************************************************************)
(* What the schema registry promises its callers: every mutating call      *)
(* takes effect, if at all, in one atomic step between its invocation and  *)
(* its return (it is linearizable), and its result agrees with the state   *)
(* at that step.  Update is an upsert that does nothing when the stored    *)
(* body is already equal; it may fail with ErrConcurrentModification only  *)
(* when the key was written by someone else while the call was running.    *)
(* A call may also fail with a client error, before or after its effect.   *)
(* After its effect, a call that changed the store notifies handlers       *)
(* ("applied") before returning.  A read returns the body stored at one    *)
(* instant of the call.                                                    *)
(***************************************************************************)
EXTENDS RegistryKeys

VARIABLES
    astore,    \* key -> stored body, or NoEntity
    apc,       \* client -> "idle" | "pending" | "applied"
    areq,      \* client -> the call it is running
    aret,      \* client -> what its last call returned
    atouched   \* client -> its key was written since it was called

avars == <<astore, apc, areq, aret, atouched>>

ATypeOK ==
    /\ astore \in [Keys -> Vals \cup {NoEntity}]
    /\ apc \in [Clients -> {"idle", "pending", "applied"}]
    /\ areq \in [Clients -> Requests]
    /\ aret \in [Clients -> Results]
    /\ atouched \in [Clients -> BOOLEAN]

\* The writer c ends its compare; every other running call whose key is in
\* K is overtaken.
ATouch(K, c) ==
    [d \in Clients |-> IF d = c THEN FALSE
                       ELSE atouched[d] \/ (apc[d] = "pending" /\ areq[d].key \in K)]

\* The call of c ends with result r: it returns ("idle") or first notifies
\* the handlers ("applied").  A returned call keeps nothing but its result.
AFinish(c, r, phase) ==
    /\ apc' = [apc EXCEPT ![c] = phase]
    /\ aret' = [aret EXCEPT ![c] = r]
    /\ areq' = IF phase = "idle" THEN [areq EXCEPT ![c] = NoRequest] ELSE areq

\* The call of c ends with result r and no effect on the store.
AEnd(c, r) ==
    /\ AFinish(c, r, "idle")
    /\ atouched' = [atouched EXCEPT ![c] = FALSE]
    /\ UNCHANGED astore

AInit ==
    /\ astore = [k \in Keys |-> NoEntity]
    /\ apc = [c \in Clients |-> "idle"]
    /\ areq = [c \in Clients |-> NoRequest]
    /\ aret = [c \in Clients |-> "none"]
    /\ atouched = [c \in Clients |-> FALSE]

ACall(c, r) ==
    /\ apc[c] = "idle"
    /\ apc' = [apc EXCEPT ![c] = "pending"]
    /\ areq' = [areq EXCEPT ![c] = r]
    /\ UNCHANGED <<astore, aret, atouched>>

\* One atomic write leaving the store as s, changing the keys in K; the
\* call then notifies with result r, or returns the client's error.
AWrite(c, s, K, r) ==
    /\ astore' = s
    /\ atouched' = ATouch(K, c)
    /\ \/ AFinish(c, r, "applied")
       \/ AFinish(c, "err", "idle")

AUpdate(c) ==
    LET k == areq[c].key IN
    /\ apc[c] = "pending" /\ areq[c].op = "update"
    /\ AWrite(c, [astore EXCEPT ![k] = areq[c].val], {k}, "ok")

AUpdateUnchanged(c) ==
    /\ apc[c] = "pending" /\ areq[c].op = "update"
    /\ astore[areq[c].key] = areq[c].val
    /\ AEnd(c, "ok")

AConflict(c) ==
    /\ apc[c] = "pending" /\ areq[c].op = "update"
    /\ atouched[c]
    /\ AEnd(c, "conflict")

ADelete(c) ==
    LET k == areq[c].key IN
    /\ apc[c] = "pending" /\ areq[c].op = "delete"
    /\ astore[k] # NoEntity
    /\ AWrite(c, [astore EXCEPT ![k] = NoEntity], {k}, "deleted")

ANotDeleted(c) ==
    /\ apc[c] = "pending" /\ areq[c].op = "delete"
    /\ astore[areq[c].key] = NoEntity
    /\ AEnd(c, "notdeleted")

AGroupNotFound(c) ==
    /\ apc[c] = "pending" /\ areq[c].op = "deleteGroup"
    /\ astore[areq[c].key] = NoEntity
    /\ AEnd(c, "notfound")

\* DeleteGroup removes the whole subtree of the group; it returns true even
\* when the subtree was already empty at that moment.
ADeleteGroup(c) ==
    LET present == {x \in GroupSubtree(areq[c].key.group) : astore[x] # NoEntity}
    IN  /\ apc[c] = "pending" /\ areq[c].op = "deleteGroup"
        /\ \/ /\ present # {}
              /\ AWrite(c, [x \in Keys |-> IF x \in present THEN NoEntity ELSE astore[x]],
                        present, "deleted")
           \/ present = {} /\ AEnd(c, "deleted")

\* A read returns the body stored at one instant of the call, or
\* ErrEntityNotFound.
AGet(c) ==
    LET k == areq[c].key IN
    /\ apc[c] = "pending" /\ areq[c].op = "get"
    /\ AEnd(c, IF astore[k] = NoEntity THEN "notfound" ELSE astore[k])

AFail(c) ==
    /\ apc[c] = "pending"
    /\ AEnd(c, "err")

AReturn(c) ==
    /\ apc[c] = "applied"
    /\ apc' = [apc EXCEPT ![c] = "idle"]
    /\ areq' = [areq EXCEPT ![c] = NoRequest]
    /\ UNCHANGED <<astore, aret, atouched>>

ANext ==
    \E c \in Clients :
        \/ \E r \in Requests : ACall(c, r)
        \/ AUpdate(c) \/ AUpdateUnchanged(c) \/ AConflict(c)
        \/ ADelete(c) \/ ANotDeleted(c)
        \/ AGroupNotFound(c) \/ ADeleteGroup(c)
        \/ AGet(c)
        \/ AFail(c) \/ AReturn(c)

ASpec == AInit /\ [][ANext]_avars
=============================================================================
