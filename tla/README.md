# A TLA+ model of go-kms-wrapping

This directory holds TLA+ modules, TLC configurations and TLAPS proofs about
go-kms-wrapping: a Go library that encrypts ("wraps") data under keys kept by
key management systems, hardware modules and cloud services, in process or
through a plugin process. `PROJECT.json` is the index: components, runs,
mutants, the map from definitions to source lines, findings, hazards, theorems.

## The system

| Component | State | Operations | What is hard about it |
|---|---|---|---|
| session semaphore (`kms/pkcs11/internal/session/semaphore.go`) | size, cur, waiters, closed | Acquire, Release, Close | wake-ups against cancellations; Close holds the mutex while it sends to waiters |
| session pool (`.../session/pool.go`, `handle.go`) | global cache slot -> pool; per pool PIN, reference count, live and dead channels, semaphore, persistent session | Login, Get, put, Drop, Scope | logins, failed logins and shutdowns of one slot race; a Drop may time out with sessions in use |
| module cache (`.../module/module.go`) | path -> library, reference count | Open, Drop, GetToken | the library must outlive every call into it |
| PKCS#11 KMS and wrapper (`kms/pkcs11/*.go`) | module and pool reference; lazily exported public keys | Open, Close, GetKey; SetConfig, Encrypt, Decrypt, Finalize; operations on keys | share the two caches above; contexts of one caller must not spoil the result of another |
| plugin (`plugin/`) | host: instance id per client, keys held; plugin: tables of instances and keys | every RPC, timeouts, garbage collection of keys | a handler outlives the call that started it; lost answers |
| legacy PKCS#11 wrapper (`wrappers/pkcs11/`) | library, settings, current key id | SetConfig, Encrypt, Decrypt, GenerateRandom, Finalize, with one session per operation | login and logout are token-wide; Finalize during a call; which key a blob needs |
| cloud wrappers, KMIP, transit (`wrappers/*`) and envelope (`envelope.go`) | client, configured and current key id; transit: token renewals | SetConfig, Encrypt, Decrypt | key id stored by concurrent Encrypts, key versions, SetConfig failing half-way, blobs of earlier releases |
| Securosys HSM (`kms/securosyshsm/`, `wrappers/securosyshsm/`) | REST client with an API key index per group; keystore, ciphers, signers; seal key | requests repeated with the next API key; requests that approvers decide on, polled | shared index without a lock; ignored errors; polling without a context |
| AEAD, static wrapper (`aead/`, `wrappers/static/`) | one or two keys | SetConfig, Encrypt, Decrypt | rotation |
| transit KMS, options, interfaces, generated code, examples | - | - | - |

The KMS and the wrapper call the pool and the module cache; the pool calls its
semaphore and the PKCS#11 library; the remote wrappers call their service and
`EnvelopeEncrypt`; a plugin serves any KMS or wrapper to hosts in another
process. All caches are process-wide, and the library is used from concurrent
goroutines whose contexts may end at any moment.

## Modules

| Module | Models |
|---|---|
| `SemaphoreCloser` | `semaphore.go`. A thread's position (`pc`) is where it is in `acquireInternal` or `Close`; `ready[t]` is what its channel holds; `waiters`, `size`, `cur`, `closed` are the fields. A section under `s.mu` is one action. `Close` keeps the mutex over its sends, so `CloseStart`, each `CloseSend` (a rendezvous with a waiter that is still in its select) and `CloseDrain` are actions and `Locked` disables the others' critical sections meanwhile. |
| `SessionBudget` | What the pool relies on: at most `Size` owners, none added once closing, drained only when empty. `SemaphoreCloser` is checked to implement it. |
| `SessionPool`, `MCSessionPool` | `pool.go`, `module.go`, and Open/Close of the KMS, SetConfig (module, then token)/with/Finalize of the wrapper. `pc[c]` is where a client is in Login or Drop; `pool[p]` has the fields and the live/dead channels; `sessions` and `loggedIn` are the state of the token. `sema[p]` is the semaphore of the pool, as `semaphore.go` implements it and not as `SessionBudget` promises it: a Get may be cancelled while it queues or as it is told of the close, releases a token it never had, and takes part in the Close that blocks for ever (`"stuck"`); the panic of Release ends the process. Against `SemaphoreCloser` it has one step per critical section and no order in the queue. `surplus`, `gaveUp` and `unclean` are history: they name what went wrong, for the properties. |
| `PluginService` | Clients, RPCs and server tables of `plugin/`, for KMSs and wrappers alike (SetConfig is Open, Finalize is Close). An object whose Close failed is `"failed"`, and out of the table like a closed one. `Impatient` clients have calls that time out; `openedBy`, which no code reads, tells whose instance an orphan would be. |
| `OnceOrCancel` | `onceOrCancel` of `kms/pkcs11/pkcs11.go`. |
| `RemoteWrapper` | The eleven wrappers whose key stays with a service. What they do differs in the order of a few kinds of steps (read the key name, check settings, build a client, ask the service for the key, keep the client, store the key id, encrypt, ...), so SetConfig and Encrypt of a provider are a sequence of these (`AwsSetConfig`, `OciSetConfig`, ...), and there is one action per kind of step. A goroutine's `call` has the steps it has yet to do and its locals; `wrapper` has the fields of the Wrapper object, `latest` the version the service encrypts with, `blobs` what Encrypt returned and, in `Init`, blobs of formats that earlier releases wrote (without an envelope, with the nonce in the ciphertext, with a base64 encoded key). Decrypt is one request and a function of wrapper and blob. |
| `LegacyPkcs11`, `MCLegacyPkcs11` | `wrappers/pkcs11`. `call[c].pc` is the Cryptoki call a goroutine makes next: C_Initialize, C_OpenSession, C_Login, the use, C_Logout, C_CloseSession; C_Finalize and the loss of the client, two steps without a lock, come between any two. A text is the sequence of its parts between colons, so that the name in a blob is written as `label:id` and split at the last colon as the code does. FindKey, the attribute checks and the mechanisms are functions of the objects in `store`. |
| `Securosys`, `MCSecurosys` | `kms/securosyshsm` and `wrappers/securosyshsm`. An operation is a sequence of requests (`todo`); a request asks for an API key, is sent, rejected and repeated with the next key, answered or lost (`at`). `index` is the client's shared key index, `requests` are the service's approval requests. `Down` stands for `os.Exit`, `log.Fatal` and panics. |
| `SemaphoreProofs`, `DrainProofs`, `OnceProofs`, `PoolProofs`, `PluginProofs`, `RemoteProofs`, `LegacyProofs`, `SecurosysProofs` | The theorems about the modules of those names; `DrainProofs` is the second part of the semaphore's, for callers that are not cancelled. |

Definitions named `Mutant...` are deliberately wrong variants of the definition
that follows them; no specification uses them. Each property has one that
breaks it, so that a property that cannot fail is noticed.

## Runs

| Run | Instance | Shows |
|---|---|---|
| `SemAll` | 3 threads, 2 closers, 2 tokens, anyone cancelled | no lost wake-up, exact queue, exact count until the close, bounded sessions, nothing granted after the close |
| `SemClose` | 3 threads, 2 closers, 2 tokens, one closer cancelled, fair | Close returns, only when all tokens are back, every waiter returns; refinement of `SessionBudget` |
| `SemDrainRace` (violation) | 2 threads, 1 closer, 1 token | Close can return with a session in use: see below |
| `SemCloseStuck` (violation) | 2 threads, 1 closer, 1 token, fair | Close can block for ever: see below |
| `PoolDrain` | a KMS and a wrapper call on one token, 2 operations for 2 sessions of which one is the login's; every context may end, library calls fail; fair; 186 thousand states | exact reference counts; a holder's pool is cached, live, open and logged in; whenever a library, a session or a login is lost, one of the causes that the properties name has happened to that pool; waits end |
| `PoolWrapper` (violation) | a KMS, a wrapper call, an operation | the wrapper finalizes a library in use |
| `PluginShared` | 2 clients, 2 RPCs, 3 instances, 1 key, fair; the calls of one client may time out anywhere; 878 thousand states | a close runs once and, for the client that waits, never next to a use; that client leaves nothing in the tables, and its Close reaches the object; Close reports success only for an object that is closed |
| `OnceRace` | 3 callers, 4 evaluations, fair | callers that succeed have one value, although evaluations are cancelled or time out and are repeated; calls return |
| `WrapAll` | all 11 providers, 2 goroutines, 2 keys of 2 versions, 2 blobs; 1.1 million states | what was encrypted, also by earlier releases, stays readable; a blob names the key version that made it, although another Encrypt stores its id at the same time; KeyId names the configured key; no token renewal is left running |
| `LegacySessions` | 2 goroutines, 2 sessions, 3 kinds of token, 1 blob; a label and an id with a colon in them; 2.4 million states | one logged-in call at a time; no session lost but by a failed login; blobs decrypt after a restart with another key configured |
| `SecApproval` | 1 goroutine using the keystore or the wrapper, 2 API keys, fair; 352 thousand states | results only of requests that were carried out, and of the input that is due; waiting ends |
| `SecApiKeys` (violation) | 2 goroutines, 2 API keys | the key that works is skipped |

Four more configurations can be run by hand, beside these twelve. Three of them
violate their property and show a limit of the code:

| Configuration, module | Shows |
|---|---|
| `OnceDeadline`, `OnceOrCancel` | only `context.Canceled` keeps a result from being stored (`pkcs11.go:466`); a `DeadlineExceeded` of one caller becomes the key's answer to everyone |
| `KmipAlg`, `RemoteWrapper` | a KMIP blob records its mechanism (`kmip.go:314`), and Decrypt uses it, but takes the length of the tag from the algorithm that is configured now (`kmip.go:388`), so a blob is unreadable once that has changed |
| `LegacyAmbiguous`, `MCLegacyPkcs11` | FindKey asks for two objects and cannot see a third: with a label that two pairs share it takes whichever objects it got |
| `PoolPins`, `MCSessionPool` | passes (2.8 million states): the invariants of `PoolDrain` with a second KMS, and one client that has another PIN |

Bounds. Two tokens for three threads give queueing, hand-over and free tokens at
once; two closers give the second Close of a closed semaphore. `MaxUint` is 7,
more than the tokens ever counted, so that a count that wrapped around is not
mistaken for one that did not. In `PoolDrain` one session is the login's, so two
operations queue for the other, and a waiter may be cancelled as the semaphore
closes; the KMS and the call of the wrapper, which can be repeated without end,
let one hold a pool, wait for it, or arrive while it dies. `PoolPins` has three
clients at once. Two RPCs let a handler overlap with a Close and a Close with its
repetition; the third instance is the one an impatient client opens again. Two
goroutines are what a race on the fields of a wrapper needs, two key versions a
rotation between two steps, two blobs an old one next to a new one. Two sessions
let one call of the legacy wrapper run next to a leaked one, and exhaust the
token; its id with a colon reads, behind the first label, like the second label
and an id of a key that exists. In `SecApproval` `ApprovalTimeout` (3) is no
multiple of `CheckEvery` (2), so that the last wait overshoots; one approval
request is enough because a caller polls only its own; two pieces fill a buffer
more than once. It has one goroutine, as its properties speak of the caller's own
requests; the race of two is `SecApiKeys`. Symmetry is used in `LegacySessions` only, for
goroutines, which its invariants do not tell apart. Where a run has `CHECK_DEADLOCK FALSE`,
everything may simply be closed, or every bound used up, and nobody needs to
call again.

Fairness. The Go scheduler runs every runnable goroutine, and `sync.Mutex`
hands itself to a starving waiter; calls into the token return; a request to a
service is answered or fails (the Securosys client only gives up after 115 days,
so there this is an assumption about the service). So the steps of
a call in progress are weakly fair (the `Lock` of `OnceOrCancel` strongly). No
one is obliged to start a call, no context to end, no garbage to be collected,
and no approver to decide: `AsyncEnds` says so in its hypothesis, because
Decrypt and Sign of the Securosys keystore poll for as long as it takes. `WaitsEnd`
says that each wait of a Login or a Drop ends; that a Login gets a pool in the end
it does not say, because others may make and drop theirs before it each time it
looks, and it excepts what waits behind a Close that is stuck.

## What the violation runs show

* `SemDrainRace`: a waiter that received the error Close sent, and whose context
  ends before it looks, calls Release (line 120) for a token it was never
  granted. `cur` is one too low, so Close returns while a session is in use,
  and the last rightful Release panics.
* `SemCloseStuck`: Close sends its error to a waiter on an unbuffered channel, with
  `s.mu` held. A waiter that left its select because its context ended waits for
  `s.mu`, to leave the queue. Neither goes on, and no later call does.
* `PoolWrapper`: `with` logs a Drop that timed out and forgets it; Finalize then
  drops the module although an operation of a KMS on the shared pool goes on.
* `SecApiKeys`: two requests that were rejected with the same API key both add
  one to the shared index; the key in between works and is never used again.

## Proofs

`SemaphoreProofs` proves, for any finite sets of threads and closers, any
cancellations, any capacity and width of uint:
`TypeCorrect` (which excludes a capacity of 0, but not a count that wraps around), `NoLostWakeupHolds`, `QueueExactHolds`, `TokensAccountedHolds`,
`SessionsBoundedHolds`, `ClosedOnlyShrinksHolds`. The assumptions are the named
ASSUMEs of `SemaphoreCloser`: threads and closers are finite and disjoint, and
the capacity is at least 1 and a uint.

`NoLostWakeup` is inductive with the types, but for one reason worth naming: a
cancelled waiter at the front calls notify only if tokens are free, and by the
invariant none are while it queues. The others are not inductive. `IndInv` adds

* `Struct`: the queue is exact, and where a thread is agrees with what its
  channel holds;
* `ErrMeansClosing`: an error was received only from a Close, so before it a
  thread on its way to line 120 owns the token it is about to release;
* `ClosedQueue`: after the close only closers queue, so notify grants nothing
  to a thread that would use a session;
* `Account`: until the close, cur is the number of owners and at most `Size`.

After the close `Account` is false (that is `SemDrainRace`), and the bound on the
sessions follows from `ShrinkStep` instead: no step adds an owner.

`DrainProofs` proves `DrainedMeansNoOwnersHolds` and `ImplementsBudgetHolds`, that
every step of the semaphore is a step of `SessionBudget` or changes nothing of
it, for semaphores whose callers are not cancelled (`Uncancelled`). Without that
hypothesis both are false: that is `SemDrainRace`. `DrainInv` adds to `IndInv`
that no thread is on its way to line 120 (`PatientThreads`), where closers can be
(`CloserPlaces`), that cur is the number of owners also after the close
(`Exact`), and that a closer that owns the token it drained for is the only owner
(`LastOwner`). A Release is a `Return` of the budget, or a `HandOver` when notify
passes the token on; `Drained` is the step by which a closer gets all tokens, at
once or after it waited for them.

`OnceProofs` proves `TypeCorrect`, `OneValueHolds` and `KeptIsFinalHolds` for any
callers and any number of evaluations, from `OnceInv`: who is inside holds the
mutex, nobody evaluates once a result is kept, and whoever got a value got the
kept one. That no error of a context is kept is not a theorem: it is false
(`OnceDeadline`).

`PoolProofs` proves `TypeCorrect`, `RefsExactHolds` and `HoldersShareLivePoolHolds`
for any KMSs, wrapper calls, operations, tokens, errors and timeouts. None is
inductive. `IInv` says which pool a client refers to at each place of Login and
Drop (`RefsOK`), that the cache has no dead pool (`CacheOK`), that a client that
makes or ends a pool owns its slot and shares it with nobody (`OwnerOK`), what a
client at its place knows of the channels, the semaphore, the references and the
login (`StateOK`), that references are exact for every live pool, cached or not
(`CountOK`), that a pool that hands out sessions has a client that will close it
(`LiveOK`), that the pool of an operation stays live (`OpsOK`), and that
the module has one reference per KMS that opened it and one for the wrapper
(`ModOK`). `DrainKeepsModuleHolds`, `UsersKeepSessionHolds` and `LoginFindsCleanTokenHolds` are
proved for the same, with every context ending at any moment. What a drain gives
is not unconditional, so these properties name what takes it away: a surplus
Release on the same pool (`surplus`, see `SemDrainRace`), a Drop that gave up
waiting (`gaveUp`, by a KMS or by a call of the wrapper, see `PoolWrapper`), and a
CloseAllSessions that failed (`unclean`). The library survives the Drop of a KMS
that timed out, a session does not. For them `TInv` adds to `IInv`

* `SemInv`: as long as nobody released a token it never had, `cur` is the number of
  sessions in use, and once Close has its token there are none;
* `UInv`: an operation that has a session has a client that did not get past the
  drain yet (`Guarded`), or a KMS that keeps its module because its Drop timed out;
* `KInv`: the session of an operation whose pool met no fault is open;
* `LoginsOwned`, `SessionsOwned`: what is left at the token belongs to a client that
  is about to remove it, or to an operation that its pool did not wait for.

`PluginProofs` proves `TypeCorrect`, `CloseIsAloneHolds` and
`NothingLeftBehindHolds` for any clients, RPCs, instances and keys. `IInv` says
that a client's id is of an instance it opened and that the table has only
services that nobody closed (`IdsOK`), what an RPC carries at each stage
(`RpcOK`), that a service not yet in the table is known to the handler that
opened it and to nobody else (`OpenedOK`), that one that is being closed is out
of the table and one handler has it (`ClosingOK`), that a key belongs to the
client whose instance it came from and is in one place only: a handle, an
answer or a cleanup (`KeysOK`), and that a client that waits opens one instance
at a time and closes when nothing else is in progress (`PatientOK`). The last is
what `NothingLeftBehind` rests on, and what an impatient client breaks.
`NamesAssumption` keeps `None` out of the sets it is told apart from.

`RemoteProofs` proves `TypeCorrect`, `BlobsReadableHolds`, `BlobNamesItsKeyHolds`,
`ConfiguredKeyKnownHolds` and `NoWatcherLeftHolds` for any of the eleven
providers, any goroutines, keys, versions and blobs. What a goroutine has yet
to do is always an end of what its provider does (`PlanOK`), so a statement about
where a call is becomes one about the order of the steps of a provider's
SetConfig or Encrypt. Those are settled once, by `ConfigPlans`, `TransitPlans` and
`EncryptPlans`: the key is read before it is described or used, a version and an
id come after the request that names them, who keeps its client last, what
may come after transit starts its token renewal. From them follow the other
parts of `IInv`:

* `Alone`, `ConfigOK`: SetConfig runs without other calls, with a configuration
  a caller can give, complete once transit has looked at its settings;
* `KeyOK`: once SetConfig was told the key there is one, if one is needed;
* `IdOK`: after its request a call knows the version that was used, a version of
  the wrapper's key, and the id it got names it;
* `KnownOK`, `ClientOK`: the current id is of the configured key from the moment
  SetConfig is done with the key; where the client is kept last, one that is
  there means success, so a repeated SetConfig does not skip the look at the key;
* `WatchOK`: a token renewal belongs to a configured wrapper or to the SetConfig
  that started it. Only the test encryption can fail after that, and stops it;
  the other steps cannot, because the settings were looked at before;
* `BlobsOK`: a blob is of the format the provider writes (`MadeOf`), or of one that
  an earlier release wrote (`DirectOf`, `Unsplit`).

Assumed are that providers are among the eleven (`ProvidersAssumption`), that
`None` and `"error"` are not names of keys or goroutines (`NamesAssumption`), and
that bounds are numbers (`BoundsAssumption`).

`LegacyProofs` proves `TypeCorrect`, `LoginExclusiveHolds` and
`SessionsAccountedHolds` for any goroutines, also infinitely many, any objects
on the token, any settings and any number of sessions (`LimitsAssumption`: at
least one). Neither is inductive alone. `IInv` adds `Alone`: SetConfig runs
without a client and without other calls, and only SetConfig is at its first
and last step. It is needed twice. Finalize takes login and sessions away at
once, and by `Alone` no call is left that still counts on them; and the client
that SetConfig stores at its end brings no call that Finalize cut off back to
life. `OneUser` and `Accounted` are the two properties without cardinalities
and images, as the provers need them.

`BlobsReadableHolds` of the same module rests on `BlobsMade`: a blob, also one that
a call has not returned yet, has the text of a name that was configured, and is of
an AES key found by that name and has the nonce that was used, or of the pair
found by it. A blob from before there were names is of some AES key; the first
Decrypt writes the configured name into it, which is why the property asks of such
a blob that this was the name of its key. The property asks for no more than the
code needs: `RoundTrip` shows that a name comes back from its text if its id has no
colon, whatever the label; `FindsAll` that a name that belongs to one key or pair
leaves the library no choice of objects, `FindsOne` and `FoundKey` that FindKey
then returns that key; that the public half used for encrypting belongs to it is
the condition `Paired` on the token. Mechanism and hash are not in the blob and
have to be the same. `TextsAssumption` says that texts are sequences of parts and
hexadecimal ids have no colon, `TokensAssumption` that a token has finitely many
objects, that only secret keys are AES keys, and that copies and halves of a key
are of one type.

`SecurosysProofs` proves `TypeCorrect`, `ResultApprovedHolds` and
`InputExactHolds` for any goroutines, labels, input, API keys, approvers and
requests. Neither of the last two is inductive. `CallInv` says of each call

* `PlaceOK`: the requests it has yet to make are ones of its operation
  (`TodosOf`), and only who polls waits;
* `InputOK`: it works on the whole buffer of its object, which is what was fed since
  the last Close behind what earlier Closes left (`ObjOK`), or on a blob's
  ciphertext (`BlobOK`);
* `PostedOK`: the request it posted is about its input and its key;
* `AnswerOK`: an answer that is not an error is one to the request it made, and
  a final status is that of its own posted request;
* `Approved`, `NewInput`: the two properties, of one call.

The service decides a request once and never changes what it is about (`Grows`),
so what a call knows of its request stays true while other goroutines post and
approvers decide (`Kept`). Where Decrypt goes on after an error of AsyncDecrypt it
has id 0, of which `AnswerOK` shows that no poll succeeds.

What a Close leaves is part of the statement (`kept`): the input of a Close that
returned before it made a request, of which there are several, and, for
decryption with AES GCM, whose buffer is never emptied, the input of every Close.
That a working API key is not passed over (`WorkingKeyUsed`) is no theorem;
`SecApiKeys` shows that it fails.

Assumed are that a group has a number of API keys, that policies are among the
four kinds (`SizesAssumption`), and that a piece of input is not taken for a
ciphertext (`DataAssumption`).

Only model-checked: liveness and what else needs fairness, which is out of the
provers' reach: `CloseReturns`, `WaiterReturns`, `WaitsEnd`, `CloseTakesEffect`,
`CallReturns`, `SealDecryptEnds`, `AsyncEnds`. Every invariant, and every action
property, that a passing run checks is a theorem.

## Assumptions worth knowing

* `PluginService`: how a Use or an operation with a key ends changes nothing in
  plugin or host, so one answer stands for both. If no identifier can be made for
  an object that was opened, it stays open in the plugin and is in no table
  (`StoreInstance`); the properties are about what is in the tables.
* `LegacyPkcs11`: C_Logout and C_CloseSession succeed (the code ignores their
  errors). SetConfig is not called while calls are in progress.
* `RemoteWrapper`: the bytes of a wrapped key are no base64 text, so Azure's Decrypt
  tells the two formats apart (for 256 random bytes that is a safe assumption).
  `BlobsReadable` is about KMIP blobs of the configured algorithm. `ConfiguredKeyKnown` leaves out GCP, which keeps its client
  before it knows the key, so that a SetConfig repeated after a failure asks no
  more, and tcloud, whose SetConfig makes no request. The Huawei and Tencent wrappers do
  not look at `WithDisallowEnvVars` (`heeds` is FALSE for them).
* `Securosys`: at this commit the package implements interfaces that `kms/kms.go`
  no longer declares, so it is modelled from its text. A repeated request has
  its body again because net/http rewinds it; `TransportError` covers the case
  that it does not. RemoveRequest is never called: a request that
  was polled too long stays at the service.
* Read but not expressed: `envelope.go` and `wrappers/static/static.go` return
  `append(data.Iv, data.Ciphertext...)`, which writes into the array of the
  blob's nonce if it has room; a second SetConfig of the static wrapper keeps
  the previous key of the first.

## Left out

Cryptography, formats, network and device behaviour other than success and
failure, logging.

* AEAD and static wrapper: keys in memory that SetConfig replaces; the key a
  blob needs is read off its key id in one branch. There is nothing to
  interleave that is not a plain data race on the caller's side.
* Transit KMS: stateless, each operation is one request.
* Slot matching, key lookup and the choice of mechanisms in `kms/pkcs11`: pure
  functions of the objects on the token.
* Options, interfaces: pure functions and declarations. Plugin start-up: the
  handshake belongs to hashicorp/go-plugin. Generated code, examples, tools.
* Functions of the Securosys client that nothing calls (block, unblock, modify,
  wrap, certificates, import), and its tables of algorithm names.

Planned next: the steps behind the liveness properties as action properties
(what makes `waited` of the wrapper's Decrypt grow, or a waiter move up the
queue), which need no fairness; key lookup and mechanism selection of
`kms/pkcs11` against reference definitions.
