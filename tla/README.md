# TLA+ verification of penalty-payment-api

This directory holds TLA+ models of the penalty-payment-api service, with the
TLC configurations that check them and the TLAPS proofs about them. The models
are written from `src/`, except the transaction-list generator: only its test is
under `src/`, so that part is modelled from `spec.md`. `PROJECT.json` lists:

- every component, and whether it is modelled;
- every run, with the properties it checks;
- the mutants that show each property can fail;
- the map from each definition to the source lines it translates;
- the findings;
- the hazards;
- the theorems.

## 1. The system

| Part | Source | What it does |
|---|---|---|
| Process lifecycle | `src/main.go` | `main()` runs the start-up chain `config.Get`, Mongo client, `LoadPenaltyConfig`, `LoadPenaltyDetails`, `GetAllowedTransactions`, `handlers.Register`. It sends SIGINT and SIGTERM to a buffered channel and starts a goroutine running `h.ListenAndServe()`. When a signal arrives it shuts the payable-resources DAO down and calls `h.Shutdown` with a 5 s deadline. |
| Config singleton | `src/config/config.go` `Get` | A mutex-guarded lazy singleton: allocate the Config, publish it in `cfg`, fill it with `gofigure`. |
| Penalty configuration | `config.go` `LoadPenaltyConfig` and getters, `penalty_config_provider.go` | Unmarshals two embedded YAML documents and stores both lists in the package variable `penaltyConfig`. The reason provider and the configuration endpoint read it. |
| Configuration endpoint | `src/handlers/configuration.go` | `GET /penalty-payment-api/configuration?type=…` answers with one of the two lists, or 400. |
| Routes | `src/handlers/register.go` | gorilla/mux routes, interceptors and middleware. |
| Reason provider | `src/issuer_gateway/private/reason_provider.go` | The reason text of a ledger line, from its type, company code and subtype, using the penalty types configuration. |
| Transaction-list generator | spec.md 4.2-4.7, its test under `src/` | The line classifier, DCA interpreter, payable-status resolver and etag stamper, which fails fast, and the assembler. |

How the parts interact:

- `main` calls `config.Get` and `LoadPenaltyConfig` before any request is
  served.
- Request handlers run concurrently, one goroutine each. They read the
  configuration and use the DAO that `main` shuts down.
- The generator calls the reason provider for each line.

## 2. Modules and their correspondence to the code

**`ConfigGet`** models `config.Get`.
- State:
  - `mtx` is the goroutine holding the mutex, or `Nil`;
  - `cfg` is the package variable;
  - `contents` records how far each allocated Config was filled: unalloc, empty, partial or full;
  - `pc` records where each goroutine is in `Get`;
  - `ret` holds the last result of each goroutine;
  - the history `handed` holds every pointer returned with a nil error.
- Actions: `Call`, then `Lock`. After that either `ReturnCached`, or `CheckNil`, `Allocate` and `Gofigure` in turn.
  - `Gofigure` covers success and failure. On failure, gofigure may leave the fields before the bad one set.
  - The deferred Unlock is part of each return action.
- Constants:
  - `Procs` is the set of goroutines;
  - `Ptrs` is the set of addresses an allocation may return;
  - `Nil` is a model value.

**`ConfigGetProofs`** extends `ConfigGet` with the inductive invariant and the TLAPS proofs.

**`ConfigEndpoint`** models `LoadPenaltyConfig` and `HandleConfiguration` for a set `Reqs` of concurrent requests.
- Loading has two steps, one per `yaml.Unmarshal`. Each may fail.
- The handler steps follow the code: `Request`, `Switch` (with the 400 path), then `Encode`.
- Responses follow net/http's rule: the first `WriteHeader` or `Write` commits the status, and a later `WriteHeader` is ignored.
- `ProvidedConfig` is the `ConfigurationProvider` getter.

**`ConfigEndpointProofs`** extends `ConfigEndpoint` with its inductive invariant and TLAPS proofs.

In `ConfigEndpoint` alone, `Request` is the handler's entry `Accept` guarded by `loadPc = "loaded"`. That guard stands for `main`'s check of the `LoadPenaltyConfig` error (main.go 52-56). `System` derives it from `main`'s steps instead.

**`Service`** models `main()`.
- There is one action per start-up step outcome (`StartOk` and `StartFails`), then `Register`, `Notify`, `Spawn`, `Receive`, `MainDaoShutdown`, `HttpShutdown`, `ShutdownReturns` and `MainReturns`.
- The serving goroutine has three actions: `Listen`, `ServeReturns` and `GoroutineCheck`.
- The environment has three more:
  - `Arrive` and `Handle` model requests, each of which uses the DAO;
  - `Signal` models a SIGTERM, which kills the process if it arrives before `signal.Notify`.
- `err` is the one variable that `main` and the goroutine share, as in the code.
- Process exit is the variable `exit`. Once it is set, no action is enabled.

**`System`** composes `Service` and `ConfigEndpoint` through two named instances, `S` and `E`, that share their variables.
- `LoadPenaltyConfig` is `main`'s start-up step at "penaltyConfig". It runs `E`'s two unmarshal steps. On a failure `main` returns; on success it goes on to `LoadPenaltyDetails`.
- `ConfigRequest(r)` is `E!Accept(r)`, taken only while the server listens (register.go 56-57 routes the path). `ConfigHandle(r)` is the rest of the handler, taken while the process runs.
- `ShutdownReturns` returns nil only when `Drained` holds: no DAO request in flight and no configuration handler still running.
- `MainStep` and `ServerStep` are `Service`'s other steps, with the endpoint state unchanged.

**`ReasonProvider`** models `GetReason` and `getSanctionsReason`.
- It is written as pure operators.
- `SpecifiedReason` is the rule from spec.md 4.3, kept beside them as the reference. It is an IF chain in the rule's order. It was first a CASE whose guards overlap, and an overlapping TLA+ CASE may take any true arm, not the first one. So the late-filing line could have been given a configured reason.
- `MCReason` compares the two over every line of a small domain.

**`ServiceProofs`** extends `Service` with the proof of its type invariant.

**`SystemProofs`** extends `System` with the proof that `main`'s order alone keeps the endpoint from serving unloaded lists.

**`TransactionListProofs`** extends `TransactionList` with the counting invariant and its TLAPS proofs.

**`TransactionListRefinement`** extends `TransactionListProofs` with the proof that `TransactionList` implements `TransactionListAbs`.

**`Ledger`, `TransactionListAbs` and `TransactionList`** are the transaction-list generator. Its code is not in this repository, so it is modelled from spec.md 4.2-4.7, and where the spec and the repository's test `generate_transaction_list_test.go` disagree, from the test: every line of the snapshot becomes an item (lines 81-113 and 147-177 keep a line the allow-list does not name), and the payable status counts all the snapshot's lines.
- `Ledger` holds:
  - the ledger line;
  - the account snapshot, with references 1..n and one company code;
  - the allow-list;
  - the constants.
- `TransactionListAbs` is what one call promises, in one step: the list of spec.md §3/§4, or a `TokenGenerationFailed` error, never a partial list. For a regime without penalty details the result is `ConfigurationMissing`.
  - `ExpectedList` has one item per line, in snapshot order.
  - A DCA text is the sentinel followed by padding.
- `TransactionList` does the same call step by step:
  - one etag call for the list;
  - each line stamped and built into an item;
  - any etag call may fail.
  - `TrimmedLen` trims the padding. It is the position of the last symbol that is not padding, chosen directly rather than found by a recursive scan, so that the provers can use it. A TLC comparison found it equal to the scan.
- `AbsOutcome` is the refinement mapping, and `MCTransactionList` gives the constants.

## 3. Runs

| Run | Result | What it shows |
|---|---|---|
| `config_get` (3 goroutines, 2 addresses) | pass, 1,856 states | `SingleInstance`: every pointer returned without error is the same. `GetReturns`: every caller that reaches Lock returns, under the fairness below. `CfgNeverReplaced`: once a Config is published in `cfg`, no step replaces or clears it. |
| `config_get_populated` | violation | **Finding.** After a failed gofigure the published Config stays. A later `Get()` returns it, empty or partial, with a nil error. |
| `transaction_list` (snapshots of up to 2 lines, 3 regimes, 3 subtypes, 4 dunning texts) | pass, 42,157 states | `AbsSpec`: the detailed generator implements the one-step specification. `OpenItemIsAlone`: an "open" item is the only item of its list. `StampDiscipline`: the generator is called items + 1 times on success, and never after a failure. |
| `transaction_list_filter` | violation | **Finding.** `OnlyAllowedListed`, spec.md 4.1's eligibility filter, fails on the generator the test describes: a late-filing snapshot with a type "2" line lists it. The test and the spec disagree; see section 5. |
| `reason_as_specified` | violation | **Finding.** For a company code that is neither late-filing nor sanctions, the code returns the generic "Penalty". spec.md 4.3 says the reason table should be consulted. |
| `service` (2 requests in flight) | pass, 139 states | `SignalEndsProcess`: a signal always ends the process, even with a request whose DAO call never answers. That holds because `stop` has a buffer and `h.Shutdown`'s context has a 5 s deadline. |
| `service_dao_after_shutdown` | violation | **Finding.** The DAO is shut before `h.Shutdown` drains the server, so a request in flight uses a closed DAO. |
| `service_exit_race` | violation | **Finding.** The goroutine reads the deadline error `main` wrote into the shared `err`. It then shuts the DAO down again and calls `os.Exit(1)`. |
| `config_endpoint` (2 concurrent requests) | pass, 444 states | `ConfigAllOrNothing`: the two lists are stored together or not at all. (The endpoint's own guard makes `ServedLoadedConfig` hold by construction here; it is checked in `system`, where it depends on `main`'s order.) |
| `service_startup_exit` | violation | **Finding.** A failed `config.Get`, `LoadPenaltyConfig`, `LoadPenaltyDetails` or `GetAllowedTransactions` makes `main` return. The process then exits with status 0 although no signal asked it to stop. The Mongo failure alone calls `os.Exit(1)`. |
| `system` (1 DAO request in flight, 2 configuration connections) | pass, 31,166 states | `ServedLoadedConfig` in the whole process: `main`'s check of the load error, before the server starts, is what keeps the endpoint from serving a list that was never loaded. |
| `config_endpoint_500` | violation | **Finding.** The 500 on the encode-error path comes after the 200 was committed, so it is never sent. |

Every property of a passing run has a mutant in `PROJECT.json` that TLC finds violating it. Each mutant is a plausible bug in the mapped code:

- a Lock without the mutex;
- an early return without the nil check;
- an Unlock only on success;
- an unbuffered signal channel;
- the first list stored early;
- serving after a load failure;
- `main` going on after the `LoadPenaltyConfig` error;
- a sibling count taken from the items built so far;
- a stamper that goes on after a failed etag call;
- a payable status from the running count of items;
- an unbuffered `stop` channel, and an `h.Shutdown` without its deadline;
- GetReason without the type check.

**Bounds.**
- Three goroutines and two addresses are enough for `Get`'s races. Two callers race on the nil check, a third arrives after a failure, and the second address lets a double allocation be seen.
- Two-line snapshots are the smallest in which the sibling count matters, a line the allow-list does not name can sit beside an allowed one, and an etag call can fail in the middle.
- Two requests are enough to have one in flight while another arrives.
- In `System`, one DAO request and two configuration connections. That is enough for a shutdown to find a handler running (the deadline path) or all drained (the nil path), and for a load failure to meet a request, were `main` to serve after it.

**Fairness.**
- `ConfigGet` has strong fairness on `Lock`. Go's `sync.Mutex` enters starvation mode and hands the lock to a waiter blocked for more than 1 ms. It has weak fairness on the steps of the goroutine holding the mutex, which never block.
- `Service` has weak fairness on the steps of `main` and the serving goroutine: the Go scheduler runs every runnable goroutine. A request handler (`Handle`) has none, because it waits on Mongo calls that need not answer; `h.Shutdown` then returns only by its 5 s deadline, so removing the deadline breaks `SignalEndsProcess`.
- `System` keeps `Service`'s fairness (none on the DAO request) and adds weak fairness on `LoadPenaltyConfig` and on each configuration handler's `Switch` and `Encode`. `Complete`, the client reading its answer, has none.
- Signals, requests and new `Get` calls have no fairness.

**Deadlock.** `CHECK_DEADLOCK FALSE` is set only where the process really stops: after `main` returns or `os.Exit`, and after a failed `LoadPenaltyConfig`.

## 4. Proofs (TLAPS)

`ConfigGetProofs` proves two theorems for every set of goroutines and addresses that satisfies `ConfigGetAssumption`: both sets are finite and non-empty, and `Nil` is in neither.

- `TypeCorrect`: `Spec => []TypeOK`.
- `SingleInstanceHolds`: `Spec => []SingleInstance`.

Neither property is inductive alone. For `TypeOK`, `Gofigure` adds `cfg` to `handed`. For `SingleInstance`, an `Allocate` could publish a second pointer. The inductive invariant `IInv` conjoins four facts:

- `TypeOK`;
- `MutexHeld`: `mtx` is exactly the goroutine at check, alloc or figure;
- `CfgAsSeen`: a goroutine at alloc saw `cfg = Nil`, and one at figure sees `cfg # Nil`;
- `HandedIsPublished`: `handed \subseteq {cfg}`.

`Allocate` keeps `handed \subseteq {cfg}` true for this reason:

1. Its goroutine holds the mutex, so no other goroutine has moved since it saw `cfg = Nil`.
2. So nothing has been handed out: `handed = {}`.

The proof is laid out as follows:

- `InitIInv` proves `Init => IInv`.
- `NextIInv` proves that `IInv` is preserved, with one step per action. The Gofigure step splits into its success and failure disjuncts.
- Each theorem combines these by PTL.

`ConfigEndpointProofs` proves two theorems for any set `Reqs` of concurrent requests:

- `TypeCorrect`: `Spec => []TypeOK`;
- `AllOrNothingHolds`: `Spec => []ConfigAllOrNothing`.

Its inductive invariant `IInv` is what `SystemProofs` reuses for `ServedLoadedConfig`, which is not inductive alone, because a handler at "encode" has not yet written its body. The invariant `IInv` adds two facts:

- a loaded configuration has both lists;
- `HandlerFacts(r)` for each request, which says:
  - a handler past "idle" started after the load;
  - at "switch" nothing is committed;
  - at "encode" the list taken is loaded, of a known type, and nothing is committed yet.

`Switch` and `Encode` are split per request: the request that moves, and the others, which `EXCEPT` leaves alone.

`TransactionListProofs` proves two theorems for every ledger, set of regimes and bound `MaxLines`:

- `StampDisciplineHolds`: `Spec => []StampDiscipline`;
- `OpenItemIsAloneHolds`: `Spec => []OpenItemIsAlone`.

Both rest on `Counting`: while the generator looks at line `i`, it has made `Len(items) + 1` calls and built `i - 1` items; after a failed call it has made at most `Len(snapshot) + 1`; an open item was built from a snapshot of one line. The lemma `SnapshotsAreLines` says every snapshot is a `Seq(Line)`, and `BuiltUnchanged` that a step keeping snapshot and regime keeps the items that can be built.

`ServiceProofs` proves `TypeCorrect`, `Service`'s `Spec => []TypeOK`, for every `MaxInflight`. The one non-trivial bound is `daoShutdowns \in 0..2`. The strengthening `ShutdownAccount` counts the shutdowns:

- at most one by `main`, which is past its shutdown only after receiving the signal;
- at most one by the goroutine, which is not spawned before `main` reaches "spawn" and runs its check once.

The Boolean fields are proved apart by Zenon (`BoolTypes`, `NextBoolTypes`), the others by SMT.

`ConfigGetProofs` also proves `CfgNeverReplacedHolds`: `Spec => CfgNeverReplaced`, an action property. The proof shows that `IInv /\ [Next]_vars` implies the step property and then closes by PTL. The only step that writes `cfg` is `Allocate`, and `CfgAsSeen` says its goroutine saw `cfg = Nil`.

`SystemProofs` proves `SystemServedLoadedConfig`: `System`'s `Spec => []ServedLoadedConfig`, for every `MaxInflight` and `Reqs`. Here the endpoint has no guard on the load. Its invariant conjoins `Ordered`, the facts `main`'s order gives:

- before `LoadPenaltyConfig`, nothing is loaded;
- during it, the load has not failed yet;
- past it (`AfterLoad`), or once the serving goroutine or the server exists, the load succeeded.

Along with `Ordered`, the invariant carries the endpoint's own facts.

- `main`'s and the server's steps leave the endpoint alone (lemma `EndpointFrame`) and keep `Ordered`.
- A configuration handler's step is an endpoint step, so `ConfigEndpointProofs`' `NextIInv` is cited through an instance.

`SystemProofs` also proves `SystemTypeCorrect`: `System`'s `Spec => []TypeOK`. The argument projects `System` onto `Service`.

- Lemma `ServiceStep`: every `System` step except `ShutdownReturns` is a `[Service!Next]` step.
  - A configuration step leaves `main`'s state alone.
  - `LoadPenaltyConfig` is `StartFails` when the second unmarshal fails, `StartOk` when it loads, and a stutter of `main` at the first unmarshal.
- `ShutdownReturns` is `Service`'s step under the extra guard `Drained`. It keeps `Service`'s invariant directly.
- `ServiceProofs`' `IInv` is then preserved, through an instance. With the endpoint's `IInv` it gives `TypeOK`, including the bound of two on DAO shutdowns.
- The constant assumption `SystemAssumption` (`MaxInflight \in Nat \ {0}`) is the instance's.

`TransactionListRefinement` proves `Refinement`: `Spec => AbsSpec`, for every ledger, regime set, reason table and `MaxLines`. Under `AbsOutcome` the call maps as follows:

- it is pending from `Invoke` to its last step;
- `StampList` and `StampItem` are stutters;
- `RefuseUndescribed`, `StampFails` and `Finish` are the abstract `Return`;
- `Invoke` and `Forget` map to their namesakes (lemma `StepRefines`).

`Finish` needs an argument. The loop invariant `Listing` says that item j was built from line j. So, at the end, the items are one per line in order (lemma `FinishList`). Each item is then the specified one, by three lemmas:

- `IsDCASpecified`: trimming the padding and comparing with the sentinel is "the sentinel followed by padding". Its proof uses `TrimmedLenDef`, the least-number principle `NatMin` (from `WellFoundedInduction` on `Nat`) and `SequenceTheorems`.
- `ReasonSpecified`: `GetReason` is `SpecifiedReason` on every ledger line. That line belongs to one of the two company codes, so the divergence `reason_as_specified` finds, for other company codes, does not arise here. `FirstMatch` picks the first matching row of the reason table.
- `ItemSpecified` combines these with `Len(snapshot)` as the count the payable status reads.

`Listing` was checked by TLC on the `transaction_list` instance before it was proved.

Only TLC checks the following:

- the liveness properties `GetReturns` and `SignalEndsProcess`, since TLAPS does not handle fairness or ENABLED;
- the equality of the closed form of `TrimmedLen` with the recursive scan it replaces. TLC checked it on every sequence of up to four symbols. TLAPS cannot reason about a recursive operator, so the closed forms are the definitions the proofs and the runs share.

## 5. Not modelled, and why

- **`LoadPenaltyDetails` and `GetAllowedTransactions`.** These are file reads and YAML decoding. They appear only as start-up steps that may fail.
- **Route registration.** It is gorilla/mux configuration, folded into `Register`. In `System`, the configuration route is its own request step.
- **The Kafka consumer supervisors** started under the feature flag (main.go 72-89) are in packages outside `src/`.
- **Monetary amounts, dates and etag values.** The generator copies them unchanged, and no property tells them apart.
- **The eligibility filter of spec.md 4.1.** `generate_transaction_list_test.go` expects lines outside the allow-list to be kept and classified "other" (lines 81-113: a type "2" cost line, with the penalty's payable status closed because there are two lines; lines 147-177: subtype "Other"). The model follows the test, which is under `src/`; the spec's filter is the property `OnlyAllowedListed`, and the run `transaction_list_filter` records the divergence as a finding.

## 6. Plan for the next sittings

1. Prove `ConfigEndpoint`'s and `Service`'s remaining action properties, if later runs add some.
2. Check the inductive invariants of the proof modules with TLC on larger instances, as regression checks for model changes.
3. Compose `ConfigGet` with `Service`, so that the start-up step "config" is `Get`'s steps.
4. Model the reason provider as swappable. spec.md 9 asks for alternate policies; check that the assembler's output depends on it only through `GetReason`.
