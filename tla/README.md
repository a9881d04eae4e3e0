# Formal models of ic-kit's mock execution environment

This directory holds TLA+ models of the test-time Internet Computer that
`ic-kit` provides (`src/src/mock.rs`, `src/src/handler.rs`). It holds TLC
configurations that model-check the models on small instances, and TLAPS proofs
of the main safety invariants for every instance.

## The system

A test builds a `MockContext` with builder calls (`with_balance`,
`with_msg_cycles`, `with_handler`, ...), injects it as the thread's context and
runs canister code against it. The part with real concurrency-like behaviour is
the inter-canister call `call_raw` (mock.rs:512-556):

1. It panics if the call sends more cycles than the balance holds. Otherwise it
   debits the cycles and sets reply-callback mode.
2. It walks the installed handler chain and stops at the first handler whose
   `accept` returns true. If none accepts, it panics.
3. It runs that handler's `perform` synchronously, on the same thread:
   - A **Method** (handler.rs:236-292) checks the expected arguments. It then
     runs its atoms (consume all, consume n, refund n) against a fresh context
     holding the sent cycles, and refunds what is left.
   - A **RawHandler** (handler.rs:295-321) runs a user closure against a fresh
     context. The closure may accept cycles. It may also call `get_context()`
     and issue nested `call_raw`s on the root context, before returning Ok or
     Err. Its refund is whatever it left available.
   - A **Canister** (handler.rs:324-378) takes a `borrow_mut` of its own
     `RefCell<MockContext>`. It sets that context's msg cycles to the sent
     amount and delegates to the handler registered for the method, or to its
     default. It then refunds the context's remaining cycles and zeroes them.
4. It credits the refund, stores it as `cycles_refunded` and records a
   `WatcherCall` in the watcher. Finally it returns a ready future.

Calls therefore nest: a closure's nested `call_raw` runs to completion inside
the outer `perform`. The mock state is one thread-local struct mutated through
`as_mut` raw pointers. The interesting behaviours are the interleavings of
nested frames on the shared root context and on the Canister contexts. Others
are the u64 arithmetic at its limits, and the sequences of calls a test can
make.

Two more parts are modelled separately, because they share no state with
the call engine:
- the typed storage, stable memory and certified data of the same
  `MockContext`, with the part of the `Watcher` that observes them;
- `src/ic-kit-ws/src/connections.rs`, a per-connection message log bucketed
  by block that a canister keeps certified.

## Modules

| Module | Models |
|---|---|
| `MockCalls.tla` | The call engine: `MockContext`'s cycle fields, reply mode, trap flag, the watcher's call log and `called_caller`, the handler chain, the Canister contexts and their RefCell borrows, and the stack of `perform` frames in progress. |
| `MCMockCalls.tla` | Model values and three handler chains for TLC. |
| `MockCallsProofs.tla` | TLAPS proofs of the inductive invariant and the three safety theorems. |
| `MockStorage.tla` | `storage`, `stable`, `certified_data`, `certificate` of `MockContext`, `Watcher::storage_modified` and the flags of those operations, and the build/run phase of a context. |
| `MCMockStorage.tla` | Model values for TLC. |
| `MockStorageProofs.tla` | TLAPS proofs that only a reference older than the last `watch` can write past `storage_modified`, that every state is well typed, and that the certificate is the one of the certified data. |
| `WsConnections.tla` | `WsConnections`: the deque of (block id, per-connection message sequences), the root hash and the clock. |
| `WsLog.tla` | The abstract log it promises: per connection, messages in send order, forgotten only from the oldest end. |
| `WsRefinement.tla` | The refinement mapping from the deque to `WsLog`, and the invariant that justifies it. |
| `MCWsConnections.tla` | The instance TLC checks (it extends `WsRefinement`). |
| `WsRefinementProofs.tla` | TLAPS proof that `WsConnections` implements `WsLog`. |
| `WsConnectionsProofs.tla` | TLAPS proof that the deque stays within `MAX_BLOCK_HEIGHT`. |

### State (MockCalls)

| Variable | Code |
|---|---|
| `handlers` | `MockContext::handlers` |
| `balance`, `cycles`, `cyclesRefunded`, `replyMode`, `trapped` | the fields of the injected root `MockContext` |
| `calledCaller`, `calls` | `Watcher::called_caller`, `Watcher::calls` |
| `canBalance[i]`, `canCycles[i]` | `balance` and `cycles` of the context of the Canister at chain position i |
| `borrowed` | chain positions whose `RefCell` is mutably borrowed |
| `stack` | the `perform` calls in progress, innermost last. Each frame holds the handler, the context it runs in (0 for a throwaway context, whose cycles are `avail` and whose accepted cycles are `kept`), the call's target, method and sent cycles, and `pc`: the next atom of a Method, or the number of operations a closure has done |
| `response` | what the last resolved future holds (Ok/Err and the cycles sent) |
| `panicked` | the panic that ended the test, or `"none"` |

Handlers are records. A `Leaf` is a Method or a RawHandler. A Method's atoms
are a sequence, its name is optional and its expected arguments are a model
value. A `CanisterHandler` maps each method to a Leaf or `NoHandler`, and has
a default.

### Actions

| Action | Code |
|---|---|
| `CallRaw(t, m, a, c)` | `call_raw` up to entering `perform`, together with `FirstAccepting` (the accept loop), `Dispatch` (Canister prologue: borrow, `update_msg_cycles`, routing) and `Perform` (argument assertion) |
| `MethodStep` | one atom of `Method::perform`'s loop, through `FrameAccept` (`msg_cycles_accept` on the frame's context) |
| `ClosureAccept(n)` | a closure calling `msg_cycles_accept(n)` on its own context |
| `Return(res)` | the end of `perform` (refund of what is available; `ReleaseContext` zeroes a Canister context and ends the borrow), followed by the end of `call_raw` (`Settle`: credit, `cycles_refunded`, `record_call`) |
| `RootAccept`, `Caller`, `Trap`, `CallStateReset`, `Watch` | the Context operations on the root context, by the test or by a closure through `get_context()` |
| `UpdateBalance`, `UpdateMsgCycles` | the test-side setters between calls |
| `Inject` | the next test injecting a fresh context (`MockContext::new` configured by the builders) |

Each action includes everything its handler changes: for example, `Return`
also performs the zeroing, the credit and the watcher record.

Abstractions:
- Principals, method names and argument blobs are model values.
- The response payload is Ok/Err.
- u64 is scaled down to `0..MaxU64`. An addition past `MaxU64` is the
  `overflow` panic of a debug build.
- The number of operations a closure does is bounded by `MaxClosureSteps`,
  the nesting depth by `MaxDepth` and the calls per context by `MaxCalls`.
- A Canister nested in a Canister is excluded: the assert at handler.rs:348
  forbids it.
- A closure's operations are accepting cycles, a nested `call_raw` and the
  root operations. A closure could also call the public
  `update_msg_cycles` on its context. The model assumes it does not, and
  `RefundWithinSent` rests on that.
- The throwaway context of a Method or closure starts with a balance of
  10^14 (mock.rs:91). The scaled model never overflows it, and no property
  is about that balance.

## Runs

All runs use `MCMockCalls` with principals {c1, c2}, methods {m1, m2},
arguments {a1, a2}, amounts {0, 1}, initial balances {1, 2}, `MaxU64 = 2`,
`MaxDepth = 2`, `MaxCalls = 1` and `MaxClosureSteps = 1`.

- **mock_calls** (pass, 83,695 distinct states) checks these properties:
  - `TypeOK`.
  - `RefundWithinSent`: every recorded call refunded at most what it sent.
  - `NoResidualCycles`: a Canister context that is not borrowed holds no
    cycles.
  - `CyclesConserved`, an action property: every engine step keeps
    root balance + root msg cycles + Canister balances and cycles + cycles in
    flight in frames constant, unless it panics, except that a Method's
    "consume" legitimately destroys the cycles its throwaway context kept.
  - `CallsTerminate`: every call in progress eventually returns or the test
    panics.

  The chain `<<Canister c1 {m1: closure, default: refund 1 expecting a1},
  Method m1 consume-all>>`, or a lone closure, covers every routing case: a
  registered method (m1), the default route (m2), a call no handler accepts
  and a call with arguments the Method does not expect (the assertion at
  handler.rs:256). It also covers nested calls from a closure to the same
  Canister (re-entrancy) and to the Method, both overflow panics (balance 2
  plus a refund) and the over-refund panic.
- **reply_mode** (violation of `ReplyModeClearedWhenIdle`): after a call
  resolves, the context is still in reply-callback mode. Spec §4.5 step 5 says
  the mode is cleared when the call completes. The code clears it only in
  `call_state_reset`, so a later `caller()` panics.
- **accept_contract** (violation of `PerformOnlyAfterAccept`):
  `Canister::perform` calls `perform` on a registered handler whose own
  `accept` rejects the method. This breaks the `CallHandler` contract
  (handler.rs:16-20).
- **reentrancy** (violation of `NoReentrantBorrowPanic`): a closure under a
  Canister calling that Canister again panics on `borrow_mut`.

Why the bounds suffice:
- Amounts {0, 1} with `MaxU64 = 2` reach both sides of every comparison in
  the code: accept more or less than available, refund more or less than
  available, and a credit that does or does not overflow.
- Depth 2 is the smallest depth at which a nested frame shares a context with
  an outer one.
- One call per context with re-injection lets a test run several calls in
  sequence, because `Inject` starts a new context.

Fairness: weak fairness of `MethodStep` and of `Return`. The code justifies
it:
- `Method::perform` is a finite loop over its atoms followed by a return.
- A closure is finite code on a single thread, and nothing else can run while
  it holds the thread. This is an assumption about the test's closures:
  a closure that never returns would hang the test, and `CallsTerminate`
  does not cover that case.

No fairness is assumed for the test's own actions.

Every property of the pass run has a seeded fault (`PROJECT.json`, "mutants")
that TLC finds: an unchecked accept, an accept that does not clamp, a Method
stuck on an atom, a Canister that forgets `update_msg_cycles(0)`, and a
WatcherCall built with its fields swapped.

## Proofs (MockCallsProofs.tla)

The three theorems below are proved for every value of the constants, under
`ConstAssumption`: the bounds are naturals, amounts and balances lie in
`0..MaxU64`, chains are sequences of handlers, and `NoName`/`NoArgs` are
fresh. They are:
- `TypeCorrect`: `Spec => []TypeOK`.
- `RefundsWithinSent`: `Spec => []RefundWithinSent`.
- `ContextsZeroedWhenFree`: `Spec => []NoResidualCycles`.

The three invariants are not inductive on their own. A `Return` pops a frame
and refunds its available cycles, and the refund is within sent only if the
frame never had more available than it was sent. Zeroing a context keeps
other free contexts at zero only if no two frames share a Canister context.
The strengthening is `IInv == TypeOK /\ FramesOK /\ RefundWithinSent /\
NoResidualCycles`. For every frame, `FramesOK` requires:
- its context index is in range;
- `avail + kept <= sent`;
- a Canister frame's context is borrowed, holds at most `sent`, and belongs
  to no other frame.

TLC checked `IInv` as an invariant of the mock_calls instance before it was
proved. The proof has one lemma per action (`FrameAcceptIInv`,
`MethodStepIInv`, `CallRawIInv`, `ReturnIInv`, ...) and `NextIInv` combines
them. Helper lemmas on sequences (`PopSeq`) and on the record updates of a
frame (`FrameUpdate`, `TopUpdate`, `PushIInv`) are stated once and cited.
`IInvInvariant` then follows by induction with PTL.

Only model-checked (out of TLAPS's reach):
- `CallsTerminate`, a liveness property under fairness.
- `CyclesConserved`: its sum over the stack is a recursive definition, and
  what it computes over every input cannot be proved by the installed
  provers.
- The three violation runs.

## Typed storage, stable memory and certified data (MockStorage)

| Variable | Code |
|---|---|
| `phase` | "build" while the builders run, "run" after `inject` |
| `storage` | `MockContext::storage`: per `TypeId`, `Absent` or the Box, a record of the value and an allocation number |
| `refs` | the `&mut` references `get_mut` returned since the context was created, as (type, Box); `watch` does not end them |
| `modified`, `flags` | `Watcher::storage_modified` and the `called_stable_*`, `called_set_certified_data`, `called_data_certificate` flags |
| `stable` | `MockContext::stable`: empty, or the encoded value sequence |
| `certifiedData`, `certificate` | the two `Option<Vec<u8>>` fields |
| `panicked` | the assertion or panic that ended the test, with the payload length |
| `refWrites`, `refsAtWatch`, `lost` | history: the types written through a reference since the last `watch`; the references live at that `watch`; whether a write through a reference missed the storage |

The actions are the builders `WithData`, `WithStable` and `WithCertifiedData`,
then `Inject`, `NewContext`, `Watch` and `ClearStorage`. `Watch` replaces the
Watcher and nothing else (mock.rs:107-110); `ClearStorage` empties the
storage and marks nothing. The Context API gives
`Store`, `Get`, `GetMut`, `Delete`, `StableStore`, `StableRestore`,
`SetCertifiedData` and `DataCertificate`. `WriteRef` is canister code
assigning through a reference that `get_mut` returned.

The API takes `&self` and `get_context()` is `'static`, so such a reference
can outlive a later `store` or `delete` of its type, which drops the Box.
Writing through it is then undefined behaviour. The model gives it one
outcome: the storage does not see the write.

`sign` is modelled as what it does to its input: it copies the payload into
32 zero bytes. The hash chain after that is taken as injective.

Runs use one type, one non-default value, bytes {0, 1}, a limit of 2 bytes
standing for 32, payloads up to 3 bytes and 3 Boxes per context:
- **storage** (pass, 373,296 states) checks three properties:
  - `TypeOK`.
  - `UnmarkedWritesUseOldRefs`: a type written through a reference since
    the last `watch` is missing from `storage_modified` only if a reference
    to it was live at that `watch`. A `get_mut` that forgets to mark
    breaks it.
  - `CertificateOfData`: the certified data is at most the limit, and the
    certificate is the one of the current data.
- **cert_builder** (violation of `OnlyOversizedPayloadsFatal`):
  `with_certified_data` aborts on a payload of exactly the limit.
- **cert_padding** (violation of `CertificateTracksData`): `<<>>` and `<<0>>`
  get the same certificate.
- **dangling_ref** (violation of `NoLostWrite`): `get_mut`, then `store` of
  the same type, then a write through the old reference.
- **watch_ref** (violation of `ModifiedCoversWrites`): `get_mut`, then
  `watch`, then a write through the reference. The type changes and
  `is_modified` says no. The spec's Watcher state and the doc of
  `is_modified` (mock.rs:684) say it holds the types accessed mutably
  during the execution. The code records only calls to `store`, `get_mut`
  and `delete` since the reset.

A limit of 2 with payloads of 0..3 bytes reaches lengths below, at and above
the limit. One type is enough for the storage properties, because types
never interact. Three Boxes allow `with_data`, a replacing `store` and a
default insertion in one context.

## Connection log (WsConnections, WsLog)

`connections` is the `VecDeque`, front first. Each entry is a block id and a
tree mapping each connection to its messages. A message is the pair
(connection, n) for the n-th message sent to that connection, which makes
every payload distinct. The loop of `send_raw` appends each message to its
own connection's sequence, so a batch is given by how many messages it holds
for each connection.

`SendRaw` is the whole handler, in this order:
1. `EnsureBlock`: unless the back entry is for the current block, `pop_back`
   when full, then `push_front`;
2. `AppendToBack`, the loop;
3. `RootHash`, `recompute_hash` with hashes taken as collision-free.

`CloseConnections` removes connections from every entry and recomputes the
hash. `Tick` advances `ic::time()` between calls. History variables record
the block each message was sent in, the messages sent before a connection's
last close, and the distinct blocks of the sends.

`WsLog` is the abstract log a reader of the certified log relies on. Per
connection:
- messages are in send order;
- no message is duplicated or invented;
- every message of a batch appears in its connection's log;
- a send may forget messages only from the oldest end;
- close empties the log.

`WsRefinement` maps the deque to it: a connection's log is its sequence in
the back entry (`Log`), and the messages sent are those the history
`sentIn` numbers (`Sent`). Reading only the back entry is right because of
`OnlyBackHoldsMessages`: every other entry is empty. `send_raw` appends only
to the back entry, and the entry it pushes is pushed empty at the front.
`WsLogRefined` is `Abs!Spec`, checked as a property.

Runs use connections {1, 2}, `MAX_BLOCK_HEIGHT = 2`, at most one message per
connection per batch and two per connection in all, and times 0, 3 and 6 ms.
That gives three blocks, so the deque fills and pops:
- **ws_log** (pass, 3,444 states) checks three properties (`TypeOK` is
  proved instead, as `WsTypeCorrect`):
  - `OnlyBackHoldsMessages`: every entry but the back one is empty;
  - `BoundedBlocks`: `Len(connections) <= MAX_BLOCK_HEIGHT`;
  - `WsLogRefined`.
  A mutant that pushes the new entry at the back breaks the first. One
  that puts a batch in front of the earlier messages breaks the third.
- **ws_recent** (violation of `RecentMessagesKept`): messages go to the back
  entry, but new blocks are pushed at the front (the comment at
  connections.rs:56 says the last entry is the current block's), and
  `pop_back` drops the back entry at capacity. A second send within
  block 3 therefore erases the message sent moments earlier in the same
  block.
- **ws_seconds** (violation of `BlockIdsInSeconds`): `time() / 1_000_000` is
  milliseconds.

The refinement holds even though messages are lost, because `WsLog` allows
forgetting from the oldest end. What the code gets wrong is *which* messages
it forgets (`ws_recent`). `close_connections` does not compile as written,
and the model follows the removal its loop spells out.

## Proofs (MockStorageProofs.tla, WsConnectionsProofs.tla, WsRefinementProofs.tla)

- `OnlyOldRefsEscapeWatcher`: `Spec => []UnmarkedWritesUseOldRefs`, for
  every set of types and values. The property is not inductive: a
  `WriteRef` writes without marking anything. The strengthening
  `NewRefsMarked` says that every reference handed out since the last
  `watch` is of a marked type, because `get_mut` marks before it returns.
  TLC checked the strengthened invariant `WInv` on the storage instance
  first. There is one lemma per group of actions.
- `StorageTypeCorrect`: `Spec => []TypeOK` for the storage model. `TypeOK`
  is split into `StoreOK` (storage, references, boxes) and `DataOK` (stable
  memory, certified data, flags, panics). Each half has its own step lemma,
  so no leaf has to carry the whole record.
- `CertifiedDataSigned`: `Spec => []CertificateOfData`. The inductive
  invariant is `DataOK /\ CertificateOfData`. The proof rests on
  `NoDataAssumption` in `MockStorage`: `None` (the model value `NoData`) is
  neither a payload nor a certificate, just as `Option<Vec<u8>>` keeps
  `None` apart from every byte vector. Without it, "data is set exactly when
  a certificate is" could not be told apart from a stored value equal to
  `NoData`.
- `BlocksBounded`: `Spec => []BoundedBlocks`, for every `MAX_BLOCK_HEIGHT >=
  1`, set of connections and clock (`WsAssumption`). The inductive invariant
  is `TypeOK /\ BoundedBlocks`. The lemmas cover three operators:
  - `EnsureBlockType`: the result has between 1 and `MAX_BLOCK_HEIGHT`
    entries, because it pops before it pushes when full;
  - `AppendToBackType`;
  - `CloseType`: both keep the length.
  `WsTypeCorrect` follows from the same invariant.
- `LogRefinement`: `Spec => WsLogRefined`. Every initial state maps to an
  initial state of `WsLog`. Every `SendRaw` maps to a `Send`, every
  `CloseConnections` to a `Close`, and `Tick` to a stutter. The step proofs
  need the invariant `RInv`, which TLC checks on the ws_log instance. Its
  conjuncts:
  - `IInv`: types, and `BoundedBlocks`.
  - `OnlyBackHoldsMessages`: popping the back entry must leave an empty
    back, so each log keeps all of what it held or none of it.
  - `LogHoldsLatest`: each log is the last K messages sent to its
    connection, `<<c, N-K+1>> .. <<c, N>>`. This gives `Unique` and shows
    that a new batch is fresh.
  - `SentBounded`: `Sent` stays within the abstract message set.
  The lemmas on the model's operators are:
  - `EnsureBlockBack` and `AppendToBackBack`: what the back entry becomes;
  - `LatestExtend`: appending a batch to the latest K gives the latest K+m;
  - `BatchTail`: the appended part is new, and covers the batch;
  - `PrefixConcat`, `LatestUnique`.
- `BackOnly`: `Spec => []OnlyBackHoldsMessages`, from the same `RInv`.

Only model-checked: `RecentMessagesKept` and `BlockIdsInSeconds` are
violated, so there is nothing to prove. The MockCalls liveness property
`CallsTerminate` needs fairness and `ENABLED`, which are beyond TLAPS.

## Not modelled

- The values `get`, `stable_restore`, `delete` and `data_certificate`
  return, and `get_certified_data`, which only reads. Encoded bytes are
  not modelled either: stable memory holds the value sequence.
- The message payloads of `send_raw` and the tree hashing of
  `ic_kit_certified`, which the model takes as collision-free.
- Getters that only read a field (`id`, `time`, `balance`), `print`, and the
  watcher flags no property reads.
- Async behaviour beyond a ready future: `call_raw` resolves before it
  returns, so no await point can interleave with anything.
