# A TLA+ model of the BanyanDB schema registry

This directory holds TLA+ specifications of the metadata core of the
repository: the etcd-backed schema registry in
`src/banyand/metadata/schema/etcd.go` (with `measure.go`). It also models the
index-field encoder at the end of `etcd.go` and the search contract of
`src/pkg/index/index.go`. Alongside the modules are the TLC configurations that
model-check them and the TLAPS proofs of the registry's main invariants.

## 1. The system

The parts the sources and the spec name, and how they interact:

| Part | Code | State | Operations |
|---|---|---|---|
| Schema registry | `etcd.go` `update`, `delete`, `DeleteGroup`, `get`, `listWithPrefix`, the `Update*/Delete*/Get*/List*` entry points | etcd's mvcc store: key -> (value, create revision, mod revision); the global revision | update = kv.Get, then a plain kv.Put (key absent), or nothing (equal body), or a kv.Txn guarded by the mod revision read; delete = one kv.Delete with the previous KeyValue; DeleteGroup = GetGroup, then one ranged kv.Delete of `/groups/<g>/` |
| Event dispatch | `RegisterHandler`, `notifyUpdate`, `notifyDelete`, `eventHandler.InterestOf` | the handler slice with interest masks | after a write, loop over the handlers in registration order and call those whose mask has the kind |
| Key codec | `formatKey`, `formatGroupKey`, `listPrefixesForEntity`, `incrementLastByte`, the ListGroup suffix filter | none (pure) | `/groups/<g>/<kind-prefix><name>`, `/groups/<g>/__meta_group__`, range ends by incrementing the last byte |
| Write-path encoder | `MarshalIndexFieldValue` and the builder's `getTag` (at the end of `etcd.go`) | none (pure) | Go value -> tag value -> index bytes: strings and binaries as they are, int64 as `convert.Int64ToBytes`, string arrays joined by `\n`, int64 arrays concatenated; Null and a nil tag are an error |
| Index search contract | `src/pkg/index/index.go` | the index (interfaces only) | `MatchTerms(Field)`, `Range(field, RangeOpts)` over the encoded terms |
| Server lifecycle | `NewEtcdSchemaRegistry`, `newStandaloneEtcdConfig`, `Close` | an embedded etcd | start, stop |

Many goroutines call the registry at once. There is no in-process lock: etcd
is the only serialisation point. Each call is a sequence of round trips, and
other calls' round trips interleave between them. A round trip can fail before
etcd applies it. It can also fail after, when the response is lost or the
context expires. The Txn runs under `context.Background()`.

A mutation that changed the store then runs its notify loop synchronously. The
notify loops of different calls run concurrently.

These are the behaviours that make the code hard, each at the line where it
bites (PROJECT.json "hazards" has the full list):

- the insert path's unconditional Put (etcd.go:489);
- the compare-and-swap that must reject any writer between Get and Txn (:479);
- notifications that run after commit and in no order across writers (:494);
- a write that commits behind an error and is never notified, even on retry (:473, :482);
- DeleteGroup checking the group and deleting the range in two round trips (:165-170), notifying with the group it read earlier (:180) and returning true when nothing was deleted (:184);
- update() never checking that the entity's group exists (:455).

## 2. Modules

| Module | What it is |
|---|---|
| `RegistryKeys` | Constants (clients, groups, names, entity kinds, bodies, handler interest masks), keys as records `[kind, group, name]`, the subtree of a group, the interest test, call records and results. |
| `RegistrySpec` | The abstract specification: an atomic registry. Each call takes effect in one step between its invocation and its return. A write may still report an error (the client lost the response), and a conflict is allowed only when another writer touched the key during the call. |
| `Registry` | The detailed model of `etcd.go`. One step per etcd round trip and one step per handler of a notify loop. Round trips fail nondeterministically up to `MaxFaults` times. |
| `MC_Registry` | Model values and small definitions for TLC. |
| `RegistryProofs` | TLAPS proofs about `Registry`: type correctness and notification safety. |
| `RegistryRefinement` | TLAPS proofs that the compare-and-swap of `update()` loses no write, and that `Registry` implements `RegistrySpec`. |
| `KeyCodec` | The key layout of `etcd.go` at the level of bytes: the prefix literals (:52-57), `formatKey`, `formatGroupKey`, `listPrefixesForEntity`, `incrementLastByte` (with the 0xFF wrap, `% 256`) and `bytes.Compare` as `KeyLess`. |
| `KeySpace` | The registry seen as etcd keys: a store `kv` from byte keys to the identity (kind, group, name) of the stored body. `Update`, `Delete` and `DeleteGroup` write it one call at a time; `ListGroup` and `ListEntity` (via `listWithPrefix`) read it. `KeyOf` is `Metadata.Key()`, which is not in the sources and is modelled from the spec's key layout. |
| `KeySpaceProofs` | TLAPS proofs about `KeyCodec` and `KeySpace`: the range of a prefix, the injectivity of the key layout, the store invariant `StoredAtKey`, and the four `KeySpace` properties for every set of names that satisfies `PlainGroupNames` (and `PlainEntityNames` for `ListGroup`). |
| `MC_KeySpace` | Name sets for TLC: plain names, nested group names, a name equal to the metadata suffix. |
| `IndexField` | `getTag`, `MarshalIndexFieldValue` over every variant, `convert.Int64ToBytes` (not in the sources: modelled as the 8 big-endian bytes of `uint64(i)`, that is of `i mod 2^64`), `strings.Join`, and an index that elements are written to once (`WriteIndexed`, or `WriteRejected` when the encoder fails) and that answers `MatchTerms` and `SearchRange` (`Searcher.Range`, with `KeyLess` from `KeyCodec` as `bytes.Compare`). |
| `MC_IndexField` | Element ids, byte strings, int64 values on both sides of a byte boundary (0, 1, 255, 256) and with -1, string arrays of one and two elements. |

How `Registry` corresponds to the code:

- `store`, `rev`: etcd's KeyValues (`Entry` = value, create and mod revision) and its revision. `ModRevision` is 0 for an absent key, as in an etcd Compare. `PutEntry` keeps the create revision of an existing key.
- `pc`, `req`, `obs`, `hi`, `ret`: a call's position, its arguments, the KeyValue it read, its loop index over `e.handlers`, and its result.
- `UpdateGroup`, `UpdateEntity`, `DeleteEntity`, `DeleteGroup`, `GetGroup`, `GetEntity`: the public entry points. The four entity kinds of each are one action over `kind \in EntityKinds`. The constant `Reads` says whether clients call the `Get*` reads.
- `Get` is `get()`: one kv.Get, returning the error, `ErrEntityNotFound` for no key, or the body. A Get of one key never returns more than one KeyValue, so `ErrUnexpectedNumberOfEntities` cannot happen. The Unmarshal error is left out, because every body in etcd was written by `update()` with `proto.Marshal`.
- `UpdateGet` is the kv.Get of `update()` with its four outcomes: error, absent -> Put, equal -> return nil (no notification), different -> Txn.
- `UpdatePut` is the plain kv.Put. `UpdateTxn` is the Txn: `TxnSucceeds` is the ModRevision compare, and `TxnFailed` is the `ErrConcurrentModification` return.
- `Delete` is `delete()`. It notifies only when `Deleted == 1`, and returns (false, nil) when the key is absent.
- `DeleteGroupGet` and `DeleteGroupRange` are the two round trips of `DeleteGroup`. The range delete is one revision. It notifies only when `Deleted > 0` and returns true either way.
- `Commit` is one etcd write transaction and `RoundTripFails` is a failed one. `Succeed` is a committed write whose response arrives (the notify loop starts) or is lost (the call returns an error).
- `NotifyHandler` is one iteration of `notifyUpdate`/`notifyDelete`, and `NotifyReturn` is the return after the loop.
- `hv`, `hist`, `touched` are history variables that no guard reads:
  - `hv` is what each handler was last told per key. A consumer forgets a deleted key and, on a group delete, everything under the group.
  - `hist` is every body ever committed at a key.
  - `touched` records that another writer changed a call's key while the call ran.

`Linearizable == Abs!ASpec` maps the detailed model to the atomic registry:

- the store maps to its bodies;
- a call in its round trips maps to "pending", and a call in its notify loop maps to "applied";
- a read (`AGet`) returns the body stored at one instant of the call, or "notfound".

## 3. Runs

All runs use one group, one name, one entity kind (stream) and two bodies. `MaxRev = 3` lets three writes commit, enough for create, overwrite and delete, or two racing creates and a delete. Two clients are enough for every race above, because each race is between two calls.

Commits are guarded by `rev < MaxRev`, and once `MaxRev` writes have committed `RoundTripFails` refuses every further write with an error, at no cost in `faults`. This refusal is an artefact of the bound, not a behaviour of etcd; it leads only to an error return, an outcome that a failed round trip below the bound shows as well. `MaxRev = 3` leaves no room for a key deleted and re-created twice (the ABA case of `NoLostUpdate`); the theorem `NoLostUpdateHolds` in `RegistryRefinement` covers it for every bound. `Linearizable` judges what calls return and what the store holds: it cannot see an expired caller context (etcd.go:478), the payload of a group-delete notification (etcd.go:180), or the `true` of a `DeleteGroup` whose range removed nothing (etcd.go:184), which the abstract specification also allows.

| Run | cfg | Result | What it shows |
|---|---|---|---|
| linearizable | `MC_Linearizable.cfg` (2 clients up to symmetry, no handlers, 1 fault, reads on) | pass, 1.47M states (2.92M without symmetry), under 3 min | Every step, reads included, refines `RegistrySpec` (`Linearizable`): each `Get*` returns a body stored at one instant of the call. The Txn never overwrites a KeyValue other than the one it read, even across delete and re-create (`NoLostUpdate`). `TypeOK`. |
| notify | `MC_Notify.cfg` (2 clients, handlers {group,stream} and {stream}, 1 fault, reads off) | pass, 3.0M states, about 1 min | A handler is told only of bodies etcd committed at the key (`NotifiedWasCommitted`), through conflicts, refused writes and a failed round trip. |
| reorder | `MC_Reorder.cfg` (2 clients, 0 faults) | violation | `HandlerViewConverges` fails without any fault. Client 1 creates the stream and notifies the first handler. Client 2 deletes the stream and notifies both handlers. Client 1's delayed update notification then reaches the second handler, which ends up holding a body etcd no longer stores. |
| lost_notify | `MC_LostNotify.cfg` (1 client, 1 fault) | violation | `HandlerViewConverges` fails: a Put commits, its response is lost, and no handler is ever told. |
| insert_race | `MC_InsertRace.cfg` (2 clients, 0 faults) | violation | `NoBlindOverwrite` fails: two first inserts both plain-Put, and the second overwrites a body it never read. |
| orphan | `MC_Orphan.cfg` (1 client) | violation | `GroupOwnsEntities` fails: UpdateStream succeeds under a group that does not exist. |

The `KeySpace` runs use names over a few characters. The passing runs use group names `a` and `ab`: one is a prefix of the other, so a range that is one byte too wide shows up. They use two entity kinds and names `a` and `ab`. Each violation run adds one kind of name the code accepts: a group name with `/`, or a name equal to `__meta_group__`.

| Run | cfg | Result | What it shows |
|---|---|---|---|
| key_layout | `MC_KeyLayout.cfg` | pass, 9281 states | `ListGroup` returns exactly the stored groups (`ListGroupExact`), and the List of a kind in a group returns exactly its entities (`ListEntityExact`). An update replaces no other identity (`UpdateKeepsOthers`). `DeleteGroup` removes exactly its group's keys (`DeleteGroupExact`). |
| key_nested | `MC_KeyNested.cfg` (groups `a`, `a/a`) | violation | `DeleteGroup(a)` deletes `[/groups/a/, /groups/a0)`, which holds every key of group `a/a`. |
| key_meta_name | `MC_KeyMetaName.cfg` (a stream `__meta_group__`) | violation | The stream's key ends in `/__meta_group__`, so `ListGroup` returns it as a group. |
| key_collision | `MC_KeyCollision.cfg` | violation | Stream `__meta_group__` of group `a` and group `a/streams` share the key `/groups/a/streams/__meta_group__`, so an update of one replaces the other. `formatKey` is not injective, against spec section 4.1. |

The same overlap behind key_nested puts the keys of group `a/streams` under the List prefix `/groups/a/streams/` of group `a` (etcd.go:520). It is recorded with the key_nested finding and has no run of its own.

The `IndexField` runs write three elements, each once, with every tag the builder or a client can produce. The element ids are written once, so the runs stop when all are written and check no deadlock.

| Run | cfg | Result | What it shows |
|---|---|---|---|
| index_terms | `MC_IndexTerms.cfg` (ints 0, 1, 255, 256) | pass, 5832 states | A Range query with encoded bounds returns exactly the numerically enclosed elements, for each inclusion flag (`RangeExact`). `TypeOK`. |
| index_negative | `MC_IndexNegative.cfg` (ints -1, 0, 1) | violation | `RangeExact` fails after one write of -1: the bytes of `uint64(-1)` are all 0xFF and sort after those of 1, so a Range from -1 to 1 has an empty byte range and misses the element holding -1. The order-preserving claim holds only for non-negative values. |

Only `linearizable` uses symmetry, over the two clients (`MCSymmetry`). Nothing in `Registry` or `RegistrySpec` tells clients apart: requests and results carry no client, and every client runs the same actions. `TypeOK`, `NoLostUpdate` and the refinement `Linearizable` are safety properties that are themselves symmetric in the clients, so checking one state per orbit is sound for them. The `notify` run gives its two handlers different interests, and handlers are indexed, so it does without symmetry; it is small enough not to need it.

Every passing run has one mutant. Each mutant changes a mapped definition the way a plausible bug would, and TLC then finds the property violated:

- `TxnSucceeds` compares create revisions, which breaks `NoLostUpdate`;
- `TxnSucceeds` compares the mod revision against the read create revision, which breaks `Linearizable`;
- a failed Txn notifies anyway, which breaks `NotifiedWasCommitted`;
- the notify loop is indexed from 0, which breaks `TypeOK`;
- `formatKey` without the name, which breaks `UpdateKeepsOthers`;
- `DeleteGroup` ranging over the name without its closing `/`, which breaks `DeleteGroupExact`;
- `ListGroup` without the suffix filter, which breaks `ListGroupExact`;
- `listPrefixesForEntity` without the kind prefix, which breaks `ListEntityExact`;
- the byte extraction of `Int64ToBytes` without the `% 256`, which breaks `TypeOK`;
- `Int64ToBytes` in little-endian order, which breaks `RangeExact`;

### Liveness and fairness

No run checks a liveness property, and no specification adds fairness. In the code, no path of `update()`, `delete()` or `DeleteGroup()` loops: each makes at most two round trips and then one pass over the handlers. So "every call returns" depends only on whether each round trip and each handler call returns. Neither is guaranteed:

- the Txn at etcd.go:478 runs under `context.Background()`, and nothing bounds it if etcd stops answering;
- handlers are called synchronously (etcd.go:118-132), so a handler that blocks blocks the caller.

A fairness condition that lets every such step happen would assume these hazards away, and the liveness property checked under it would only say that the model has no loop. Both hazards are listed in `PROJECT.json`, with no property. Deadlock checking is on in every `Registry` run: a client may always start a call, so the model never stops.

## 4. What is proved

`RegistryProofs` and `RegistryRefinement` prove their theorems with TLAPS, for every value of the constants that satisfies the named assumptions:

- the keys, groups and kinds are well formed;
- `NoEntity` is neither a body nor a KeyValue;
- `MaxRev` and `MaxFaults` are naturals, and `Reads` is a Boolean.

**`TypeCorrect == Spec => []TypeOK`.** `TypeOK` is not inductive on its own: the Put of `update()` needs the call's body in `Vals`, which holds only because a call in the `put`/`txn` round trips is an update. The proof therefore uses `TypeInv == TypeOK /\ CallShape` and proves three things:

1. `Init => TypeInv`;
2. `TypeInv /\ [Next]_vars => TypeInv'`, with one lemma per action and one step per disjunct of the action;
3. `TypeInv => TypeOK`.

**`NotifySafety == Spec => []NotifiedWasCommitted`.** The invariant needs a strengthening about calls in flight. `NotifyPayloadCommitted` says that a running update notify loop carries a body already in `hist` at its key. `NotifyInv` is `TypeInv` plus both of these, and it is inductive:

- `hist` only grows;
- a Put or a successful Txn adds its own body to `hist` in the very step that starts the notify loop;
- a failed Txn or a failed round trip returns without notifying;
- a handler is told either that body or nothing (a delete or group delete).

The lemmas `LocalStep`, `PutLocal`, `SucceedLocal` and `DeliveredCommitted` carry this argument. `NotifyInvariant == Spec => []NotifyInv` is stated as a theorem of its own, and `NotifySafety` follows from it.

Reads, and the `Reads` constant, are part of every proof. `GetStep` and `GetNotify` show that a read keeps `TypeInv` and `NotifyInv`: it ends with a result in `Results` and commits nothing.

**`CasInvariant == Spec => []CasInv`** (in `RegistryRefinement`). `CasInv` is `TypeInv` plus two facts about revisions:

- `StoreRevisions`: every stored KeyValue has a mod revision in `1..rev`. A commit stamps the keys it writes with `rev + 1`, and nothing else changes a KeyValue.
- `TxnReadCurrent`: a call waiting on its Txn holds a KeyValue `obs` with mod revision in `1..rev`. If the key now has that mod revision, it holds exactly `obs`. If `touched` is still false, the key holds `obs`.

`CasInv` is what makes the ModRevision compare sound. Revisions are unique, so an equal mod revision means the same write. The `touched` part is needed because `AConflict` is allowed only for a call whose key another writer changed.

The preservation proof has one lemma per kind of step:

- `CommitWritten` and `PutWritten` state what a commit does to the store, `rev` and `touched` (`Written`).
- `StepShape` says that every other step is quiet: it leaves `store` and `rev` alone and no other client's `touched`.
- `TxnEntry` says that a call enters `txn` only from `UpdateGet`, with the KeyValue it just read.
- `TxnReadOther` carries `TxnReadCurrent` for the clients that did not move.

TLC checked `CasInv` as an invariant of the `linearizable` instance before it was proved.

**`NoLostUpdateHolds == Spec => NoLostUpdate`**, an action property proved from `CasInv`. A Txn writes only when its compare succeeds (`TxnWrites`). By `TxnReadCurrent`, the key then holds exactly what the call read, so the write overwrites nothing the call did not see.

**`Refinement == Spec => Linearizable`.** The proof follows the refinement mapping of section 2:

- `Init` maps to `AInit`.
- Under `CasInv`, every step maps to an abstract step or a stutter (`RefinementStep`), with one lemma per action:
  - `Call` is `ACall`, and a failed round trip is `AFail`.
  - `UpdateGet` returning on an equal body is `AUpdateUnchanged`. Its `Continue` is a stutter.
  - The Put and the successful Txn are `AUpdate`. A lost response is the "err" branch of `AWrite`.
  - A failed compare is `AConflict`. The call's `touched` is true here by `TxnReadCurrent`.
  - `Get`, `Delete`, `DeleteGroupGet` and `DeleteGroupRange` map to `AGet`/`AFail`, `ADelete`/`ANotDeleted`, `AGroupNotFound` and `ADeleteGroup`.
  - `NotifyHandler` is a stutter, and `NotifyReturn` is `AReturn`.

`AbsKeys`, `AbsRequests` and `AbsNoRequest` state that the instance's constant operators are the registry's own, because the prover does not identify them by itself.

**The key layout (`KeySpaceProofs`).** Keys and names are sequences of byte values (`Seq(Nat)` with every byte at most 255, by `KeySpaceAssumption`), and `KeyCodec` writes the key literals as byte tuples. `strings.HasPrefix` and `strings.HasSuffix` are `KeyCodec`'s own `HasPrefix` and `HasSuffix`, so that no module the proofs use reaches a recursive definition of the community modules. Nothing in the code restricts names, and the violation runs show that each theorem needs its hypothesis:

- `PlainGroupNames`: no group name holds a `/` (`key_nested`, `key_collision`);
- `PlainEntityNames`: no entity name holds a `/`, and none is `__meta_group__` (`key_meta_name`).

The argument has four layers:

1. **`RangePrefix`**: when the last byte of `p` is below 0xFF, the etcd range `[p, incrementLastByte(p))` holds exactly the byte sequences that start with `p`. At 0xFF the `% 256` wraps and the range is empty. The layout never meets this case, because every prefix it scans ends in `/` (0x2F).
2. **`DirPrefix`** (with the position lemma `DirCore`): `X + h + r` starts with `X + g + u`, where `g` and `h` hold no `/` and `r` and `u` start with `/`, exactly when `g = h` and `r` starts with `u`. The first `/` after `X` ends both names at the same place. `KindPrefix` and `KindsDiffer` tell the kind prefixes and the metadata key apart by one byte. `NotMetaSuffix` (with `MetaCore`) shows that a `/` followed by a plain name other than `__meta_group__` never ends in `/__meta_group__`, whatever the name's length.
3. **`KeyOfInjective`**: under `PlainGroupNames`, two identities with the same key are equal. **`StoredAtKeyInv == Spec => []StoredAtKey`**: every stored body is an identity stored at its own `KeyOf`. This invariant holds with no hypothesis on names (TLC checked it on the nested-group instance first), and it is inductive as it stands: `update()` writes a body only at its own key, and the deletes only remove keys.
4. From these: **`UpdateKeepsOthersHolds`** and **`DeleteGroupExactHolds`** prove the two action properties, and **`ListEntityHolds`** the invariant `ListEntityExact`, all under `PlainGroupNames`. **`ListGroupHolds`** proves `ListGroupExact` under `PlainEntityNames`. Each is `Spec => ...`, combined from `StoredAtKeyInv` by PTL.

These are only model-checked, and stay with TLC:

- the `IndexField` properties, because `IndexField` extends `SequencesExt`, whose folds are recursive operators, and because what `Int64ToBytes` and the joins compute would need induction over data.

## 5. What is not modelled, and why

- **List and ListGroup in `Registry`**: they change no state. `Registry` keys its store by records, which keeps it small. The byte-level reads, and the name collisions that records hide, are modelled in `KeySpace` instead. In `KeySpace`, calls are atomic, and their races and faults are left to `Registry`. `Get*` reads are in `Registry`.
- **RegisterHandler** concurrent with a notify loop (etcd.go:112): handlers are a constant, registered before any call. In the code the append races with the `range` of a running loop, which is a data race on the slice header. Modelling it would need the handler list as a variable and the Go memory model's outcomes of that race.
- **Decode failures** of stored bodies (etcd.go:544, and the Unmarshal of `get()`): bodies are model values written by `update()`, and they always decode.
- **The empty-array ambiguity** (etcd.go:646): an empty string array and an array of one empty string both encode to the empty term, so MatchTerms cannot tell them apart. It is recorded as a hazard. A property that MatchTerms separates written values would hold only over arrays chosen to avoid this case, so none is checked.
- **The StreamWriteRequestBuilder setters**: they only assign fields of a request.
- **MatchField and the ordered FieldIterator** of `index.go`: nothing in the repository implements them.
- **The etcd server lifecycle, the protobuf declarations and the stream write test.**

## 6. Plan for the following work

1. A TLAPS proof that `formatKey` is injective when names contain no `/`. It would be stated over the separator positions, without `SubSeq`-heavy definitions.
2. The handler list as a variable, so that `RegisterHandler` can race with a notify loop.
