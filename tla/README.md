# TLA+ models of `clientv2` (dpservice Go client)

`clientv2` (`src/unnamed/part_000`, the package's `clientv2.go`; `doc.go` and
`example_test.go` under `src/go/dpservice-go/clientv2/`) is a thin facade over
dpservice's flat legacy Go client. It groups forty-three legacy RPC calls
into resource handles. It also lets each call name remote error codes to
treat as non-fatal.

## 1. Inventory

### Components

| Component | Source | State | Operations |
|---|---|---|---|
| Call-option mechanism | lines 15-46 | `callOptions{ignoredCodes []uint32}`, built fresh for each call | `WithIgnoredCodes`, `buildCallOptions` (skips nil options), `toLegacyIgnored` (nil, or a single group) |
| Root facade and construction | lines 48-80 | `rootAdapter{legacy}` | `NewFromProto(rpc)` (a new `legacy.NewClient`), `AsV2(c)` (wraps an existing client), seven accessors |
| Resource handles | lines 86-359 | `xClient{legacy}`, one struct per handle type | sub-resource accessors (`Prefixes`, `Targets`, `VIP`, `Firewall`), 43 forwarders |
| Legacy client | not in `src/` | connections, server state | serves each forwarded call |
| gRPC transport | not in `src/` | — | — |
| Docs and examples | `doc.go`, `example_test.go` | `v2` of each program | usage programs: a constructor, then statements `v2.A().B().Op(ctx, ...)`. `doc.go`'s are comments and are never compiled. The examples are compiled, and `go test` runs them on a nil gRPC client |

### How the components interact

A goroutine builds a root (`NewFromProto` or `AsV2`). It calls accessors to
reach a handle: `v2.Interfaces().Firewall()`. Every accessor returns a new
struct that holds the same `legacy.Client`. The goroutine then calls an
operation with its parameters and `opts ...CallOption`. The forwarder runs
`toLegacyIgnored(opts...)` and calls exactly one legacy method with the
parameters, any fixed arguments, and that group. It returns the legacy result
and error as they are.

### What is hard

The facade has no shared mutable state and no goroutines of its own. What can
go wrong:

- **Concurrency, and why it is not a hazard here.** Goroutines may share
  roots, handles and one legacy client. But no facade value is ever written
  after it is built, and every call builds its own options, so goroutines
  cannot affect one another through the facade. What a shared legacy client
  does with concurrent calls is code outside this repository.
- **Option composition.** Options must apply in order. A nil option must be
  skipped, because calling it would panic. No codes must mean no argument
  at all.
- **Hand-written forwarders.** Forty-three near-identical forwarders invite
  copy-paste slips. A forwarder that passes two parameters of the same type
  in the wrong order, such as `fwClient.Get(interfaceID, ruleID)`, still compiles.
- **Client identity.** An accessor must copy the parent's client, and `AsV2`
  must not build a new one.

`PROJECT.json` lists these hazards at the lines where they bite.

### What makes each component correct

- Option mechanism: the argument sent is the non-nil options' codes,
  concatenated in order with duplicates kept, as one group. It is omitted
  when that concatenation is empty. A nil option is skipped, never called.
- Root and handles: every call made through any accessor path goes to the
  legacy client the root was built on. `AsV2` adds no client.
- Forwarders: operations map one-to-one onto legacy methods, including fixed
  arguments (`ListAny` passes `"any"`). Each operation is exactly one legacy
  call, and its result comes back unchanged. In short, the facade behaves
  like using the legacy client directly (spec §7).

## 2. Modules

| Module | Models | How |
|---|---|---|
| `CallOptions.tla` | lines 15-46 | An option value is `[appends]` or `NilOption`. `CallOpt` is the closure call, `LoopStep` one iteration of the nil-skipping loop, `BuildCallOptions` a `FoldLeft` from `ZeroCallOptions`, `ToLegacyIgnored` the conversion. A nil func call yields `Panicked`. `IgnoredSpec` is the reference definition from spec §4.1/§8. |
| `MCCallOptions.tla` | — | Enumerates every option list of at most `MaxOpts` options as initial states. |
| `ClientV2.tla` | lines 48-359 | Handles are `[kind, legacy]`. The accessor tables and the forwarder table give, per handle type and operation, the legacy method, its arity, which parameter goes to which legacy argument (`pass`), and its fixed arguments. Goroutine actions: `NewFromProto`, `AsV2`, `Navigate` (accessor call), `Invoke` (entering an operation), `Forward` (conversion plus legacy call; a panic means no call) and `Return`. `LegacyServe` is the environment. |
| `DirectLegacy.tla` | spec §4.2, §7 | The abstract specification: goroutines call legacy methods directly, one call at a time, with arguments that begin with their parameters in order (`lparams`) and ignored codes `IgnoredSpec(opts)`, and get the result. `ClientV2` maps onto it with `INSTANCE DirectLegacy WITH ...`. Steps before `Forward` are stutters. |
| `MCClientV2.tla` | — | The option set of `facade_single`. |
| `DocExamples.tla` | `doc.go` lines 11-46, `example_test.go` lines 15-142 | Each documented program is a record: its constructor (`DocNewFromProto`, `DocAsV2`) and its statements (`St`: accessor path, operation, number of parameters, options). A goroutine runs one program on the `ClientV2` actions: `DocNavigate` calls the statement's next accessor, `DocInvoke` its operation, `DocForward` is `Forward` plus a log entry, and `DocReturn` drops the results and goes back to `v2`. A statement naming an accessor or operation the code lacks, or passing the wrong number of parameters, cannot step. |
| `OptionAliasing.tla` | lines 22-27 | A caller's slice `buf`, an option stored from it (`StoreOption`: the closure captures the slice), writes by the caller (`WriteSlice`), and a call with the stored option (`CallWithStored`: the closure reads `buf` as it is then). `created` is a history variable: `buf` when the option was made. |
| `MCDocExamples.tla` | — | The program set and options of `doc_single`. |

The variables of `ClientV2` are:

- `legacyRpc`: which legacy clients exist, and on which gRPC client.
- `pc`, `handle` and `call`: the goroutine's local state.
- `req`: the legacy call in flight.
- `result`: what the legacy call returned.
- `origin`: a history variable recording how the root was obtained.

## 3. Runs

| Run | Config | Properties | Bounds |
|---|---|---|---|
| `call_options` | `MCCallOptions.cfg` | `ToLegacyIgnoredMeetsSpec` | up to 5 options from {nil, no codes, `1001`, `1001,1001`, `1002,1003`}: 3,906 lists |
| `facade_single` | `MCClientV2.cfg` | `TypeOK`, `LegacyCallIdentifiesOperation`, `CallReachesOwnClient`, `ImplementsDirectLegacy` | 1 goroutine, 1 gRPC client, legacy clients l1 (pre-existing) and l2 (buildable), two parameter values `p1` and `p2`, up to 2 options from {nil, `1001`, `1002`}, every handle and operation; 15,016 states |
| `doc_single` | `MCDocExamples.cfg` | `DocProgramsComplete` | 1 goroutine, each of the nine programs; 369 states |
| `option_aliasing` | `MCOptionAliasing.cfg` | `StoredOptionKeepsCodes` (expected to fail) | one caller with a 2-element slice over codes {`1001`, `1002`}, one stored option, one call |

The three `pass` runs pass. `option_aliasing` fails as expected, after 4 states:
make the option, write the slice, call.

What the bounds cover:

- Two distinct parameter values expose a forwarder that passes two
  parameters the wrong way round, e.g. `fwClient.Get(ctx, interfaceID,
  ruleID)`, where both are strings.
- Two options are enough to expose order, overwrite and per-option grouping
  slips.
- The nil option exposes a missing nil check. The empty list exposes the
  omitted argument.
- Two legacy clients, one of which only `NewFromProto` can build, tell
  "the root's client" apart from "some client". They also tell reuse apart
  from re-initialisation.
- One goroutine is enough: goroutines share no mutable facade state, so
  more of them only multiply interleavings that cannot change any call.
- Option-list combinatorics are covered exhaustively in `call_options`
  instead.

- In the documentation runs, the programs are run exactly as written, so
  the only choice left is the legacy results.

**Fairness.** `ClientV2`'s `Spec` has no fairness: `facade_single` checks
safety and the refinement to `DirectLegacy`, whose `Spec` has none either.
`DocExamples` makes every step of a program's goroutine weakly fair
(`DocFairness`), which `DocProgramsComplete` needs:

- the program's own steps (constructor, accessor, operation, forwarding,
  return) are straight-line code that runs once the goroutine is started;
- `DocServe`, the legacy client answering, is an *assumption* about the
  server and the connection, not something the code guarantees. The
  programs pass `context.TODO()`, which never expires, so nothing in the
  code bounds the wait. The property therefore says: if the server answers,
  every documented call exists and the program reaches its end.

`facade_single` and `doc_single` disable deadlock checking, because a
program may stop calling or ends.

**Mutants.** Each property has a mutant, listed in `PROJECT.json`. Each one
is a variant defined just before the operator it replaces:

- overwrite instead of append;
- empty group not omitted;
- one group per option;
- `ListLocal` copied from `ListAny`;
- `fwClient.Get` passing `ruleID` and `interfaceID` swapped;
- `AsV2` re-initialising a client;
- `NATs().ListAny` renamed: a change that leaves `doc.go` stale.

Every mutant is caught.

**Findings.** One spec gap (`option_aliasing`):

- `WithIgnoredCodes(buf...)` keeps the caller's slice, and the codes are
  read only when a call runs the option.
- So an option that is stored, and used after the caller changes `buf`,
  sends the changed codes.
- The spec assumes options are never stored (§3) and asks for
  configuration that is immutable after construction (§9). The code does
  not enforce that assumption, because a `CallOption` is a plain func value.
- When an option is made at the call site, as every example in the package
  does, nothing can change the slice in between, unless another goroutine
  writes it in a data race.

Otherwise the code agrees with the spec on everything modelled, including
the nil-option rule that spec §9 leaves as an open question.

## 4. Not modelled

- **The legacy client and gRPC.** They are outside this repository. They
  appear only as opaque values, plus an environment that answers calls.
- **Domain objects, `context` and parameter types.** They are opaque model
  values (`Params`, `Results`). The facade only passes them through.
- **What the examples do at run time.** `go test` runs the examples
  because they carry an `// Output:` comment. Their calls go to a legacy
  client over a nil gRPC client. What that client does with a nil
  transport is code outside this repository. The model lets the legacy
  client answer, as for any call.

## 5. Open work

- A lost fixed argument, such as `ListAny` calling `ListNats` without
  `"any"`, is caught by no property. `LegacyCallIdentifiesOperation` only
  tells operations apart, and the contract does not say which fixed
  arguments each legacy method takes. Checking it would need a reference
  table that restates the forwarder table.
- Everything in `src/` that changes state is an action of a module. What
  is left is outside the repository (the legacy client and gRPC) or is
  prose (the licence header and package comment of `doc.go`).
