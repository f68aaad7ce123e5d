# TLA+ models of spv-wallet-web-backend

This directory holds TLA+ models of the parts of the web backend that have
control flow worth checking:

- the encryption of wallet mnemonics;
- the shared exchange-rate cache;
- the `spvwallet` helpers that read transaction metadata.

It also holds TLC configurations, an abstract contract of the cache with a refinement proof, and TLAPS proofs for the cache.

## The system and its parts

The backend serves an SPV wallet over HTTP. The parts modelled here are:

| Part | Source | Module(s) | Status |
|---|---|---|---|
| `Encrypt`, `Decrypt`, `deriveKey` | `src/encryption/encrypt.go` | `Encryption`, `MCEncryption`, `EncryptionProofs` | modelled |
| Exchange-rate cache `rates.Service` | `src/domain/rates/rates_service.go` | `RatesCache` (contract), `RatesService`, `MCRatesService`, `RatesServiceProofs` | modelled |
| `GetPaymailsFromMetadata`, `getAbsoluteValue` | `src/unnamed/part_003` | `SpvWallet`, `MCSpvWallet`, `SpvWalletProofs` | modelled |
| `Hash` (SHA-256 digest) | not in the sources | none | not modelled |
| `SetupWalletRoutes` | `src/unnamed/part_002` | none | not modelled |
| Request and response structs | `model.go`, `transactions.go`, `part_001` | none | data only |

How the parts interact:

- **Mnemonics.** The user handlers encrypt a user's mnemonic with the user's password on registration. They decrypt it with the password given on sign-in or on a transaction. The stored envelope is the text `hex(salt)-hex(nonce)-hex(ciphertext)`.
- **Exchange rate.** Every request goroutine that needs the BSV exchange rate calls `GetExchangeRate` on one shared `rates.Service`.
- **Transaction listing.** The listing uses `GetPaymailsFromMetadata` to name the two sides of each transaction.

Parts not modelled:

- **`Hash`:** named in the spec, but its code is not here.
- **`SetupWalletRoutes`:** runs once at start-up. Its type switch depends on handler types that are not in the sources.
- **Request and response structs** (`model.go`, `transactions.go`, `part_001`): plain JSON structs with no operations. The handlers that fill and read them are not in the sources, so there is no behaviour to model.

## Encryption (`Encryption.tla`)

### State

- `store`: the caller's rows of envelope strings.
- `sealed`: the ideal AEAD's table of sealings. Each sealing carries the passphrase it was made with, as a ghost field `by`.
- `last`: the last `Decrypt` call, with its passphrase and outcome.
- Two counters, `tampers` and `encrypts`, which bound the runs.

### Actions

| Action | Code | What it does |
|---|---|---|
| `Encrypt(s, p, m)` | `Encrypt`, lines 19-36 | Derives the key with a nil salt and draws a random nonce of `NonceSize` bytes. Seals, then stores the envelope in row `s`. |
| `Decrypt(s, p)` | `Decrypt`, lines 39-75 | Evaluates `DecryptOf`. |
| `ReplaceChar`, `DeleteChar`, `InsertChar`, `CopyRow` | none | The environment corrupting the stored text. |

`DecryptOf` follows the code in order:

1. `strings.Split` on `-`, and the three-part check.
2. `hex.DecodeString` of the salt and of the nonce.
3. The nonce-length check.
4. The decoding of the data.
5. `Open`.

The error branches of `Encrypt` are left out, for two reasons:

- From Go 1.24, `rand.Read` never returns an error.
- `aes.NewCipher` and `cipher.NewGCM` cannot fail with a 32-byte key.

### Conversions

Strings are sequences of one-character strings. This lets the models of `strings.Split`, `hex.EncodeToString` and `hex.DecodeString` do what the real functions do:

- `hex.DecodeString` rejects an odd length.
- It rejects a non-hex character.
- It accepts **both** letter cases.

### Cryptography

The cryptography is ideal:

- `pbkdf2` is injective on (passphrase, salt).
- AES-GCM is a lazily sampled AEAD. `Seal` is deterministic and injective for a fixed key and nonce, and produces `Len(pt) + TagSize` bytes.
- `Open` succeeds exactly on a sealing in the table.
- A nonce of the wrong length makes `Open` panic, as `crypto/cipher` does. This is modelled as the outcome `Panicked`, as is an index past the end of the split.

### Properties

| Property | What it says |
|---|---|
| `NeverPanics` | `Decrypt` never panics, whatever the row holds. This is the goal of the repository's fuzz test. |
| `RoundTrip` | A row holding an untouched envelope decrypts, under its own passphrase, to the sealed secret. This holds whatever else was sealed or corrupted. |
| `NoForgery` | A non-empty result is a secret that some `Encrypt` sealed under the same passphrase. |
| `TamperDetected` | The spec's §8.6 tamper detection: a row holding a sealing's envelope with one hex character of its ciphertext component replaced by another hex digit decrypts, under the sealing passphrase, to `""`. Only the tag check in `aesgcm.Open` (line 70) can reject it. |

### Runs

| Run | Bounds | Result |
|---|---|---|
| `enc_main` (`MCEncryption.cfg`) | 2 rows, 2 passphrases, 2 plaintexts (`""` and one byte), 2 byte values, `NonceSize = TagSize = 1`, 2 encrypts, 1 corruption over `{0, -, g}` | about 440k states; all five invariants hold |
| `enc_corrupt` (`MCEncryptionCorrupt.cfg`) | 1 row, 1 encrypt, 2 corruptions | `NeverPanics` and `NoForgery` only. Two edits reach a dash deleted *and* another inserted, and a nonce made one byte longer. |

Why these bounds are enough:

- **Sizes of one.** A one-byte nonce and tag stand in for 12 and 16 bytes. The checks in the code compare lengths only, and a corruption changes a length by one hex character, half a byte.
- **Two passphrases** let `NoForgery` try a wrong key.
- **Two rows** let `CopyRow` move an envelope.

### About `TamperDetected`

`TamperDetected` compares digit values, not characters. `hex.DecodeString` accepts both letter cases, so changing a letter to its other case decodes to the same bytes and still decrypts. That is not a flip of a hex digit, and the authenticated bytes are unchanged.

In the model, `Open` succeeds exactly on a sealing in the table. A flipped ciphertext is therefore rejected unless another sealing under the same key and nonce has that ciphertext. In the MC instance, no two plaintexts have the same length, so no such sealing exists. The real 128-bit GCM tag makes such a collision negligible, rather than impossible. For that reason `TamperDetected` is checked by TLC only and has no theorem. The mutant `OpenUnauthenticated`, an `Open` without the tag check, breaks it.

### Proofs (`EncryptionProofs.tla`)

These hold for every set of rows, passphrases, plaintexts and byte values, and every nonce and tag size, from `ConstantsAssumption`:

- `TypeCorrect`: `Spec => []TypeOK`.
- `NeverPanicsHolds`: `Spec => []NeverPanics`.
- `NoForgeryHolds`: `Spec => []NoForgery`.
- `RoundTripHolds`: `Spec => []RoundTrip`.

`TypeOK` alone is not inductive. The table of sealings is read by `Decrypt`, and its entries must have the shape `Encrypt` gives them. The strengthening is:

`IInv == TypeOK /\ SealedShape /\ SealedFunctional`

- `SealedShape`: every sealing was made under `DeriveKey(by, <<>>)` (no salt, as the code calls it) with a nonce of `NonceSize` bytes.
- `SealedFunctional`: key, nonce and ciphertext determine the plaintext. This is why `Open` is a function of its inputs.

`IInv` was model-checked on `enc_main` and `enc_corrupt` before it was proved. `Encrypt` keeps `SealedFunctional` because a new ciphertext is either an existing sealing of the same inputs or fresh for its key and nonce (`SealFresh`). `Tamper` and `CopyRow` do not touch the table.

- **`NeverPanics`** needs no invariant. `DecryptNeverPanics` shows, for *every* string, that each path through `Decrypt` checks a length before it indexes:
  - the split into parts;
  - the hex decoding;
  - the nonce size.
- **`NoForgery`** rests on `DecryptAuthentic`: a non-empty result is the plaintext of a sealing whose key was derived from the passphrase used.
- **`RoundTrip`** rests on three lemmas:
  - `HexRoundTrip`: decoding an encoding gives the bytes back.
  - `SplitEnvelope`: the envelope `salt-nonce-ciphertext` splits back into its three parts, because hex text holds no dash.
  - `DecryptEnvelope`: decrypting the envelope of a sealing under its passphrase returns its plaintext. `SealedFunctional` excludes another sealing with the same key, nonce and ciphertext.

`TamperDetected` has no theorem, for the reason given above.

## Exchange-rate cache (`RatesService.tla`)

### State

| Variable | Code |
|---|---|
| `exchangeRate`, `lastFetch` | The fields of the same names. A pointer is `Nil` or a record of the rate and the ghost instant `at` it was stored. |
| `locked` | `s.mutex` |
| `pc[g]` | Where goroutine `g` is |
| `checkedAt[g]` | Ghost: when `g` evaluated `useCachedValue` |
| `ret[g]` | The last return of `g` |
| `now` | `time.Now()`, advanced by `Tick` up to `MaxTime` |

### Actions

| Action | Code |
|---|---|
| `Init` | `NewRatesService`: the first load either succeeds with some rate at time 0, or leaves `nil` with the zero time. |
| `Call` | Enters `GetExchangeRate`. |
| `UseCache` | Takes the lock and `useCachedValue` holds. |
| `StartFetch` | Takes the lock and `useCachedValue` fails. The mutex stays held across `fetchExchangeRate`. |
| `FetchDone(g, r)` | The fetch returns rate `r`: stores `lastFetch` and `exchangeRate`, then unlocks. |
| `FetchFailed` | The request, the body read or the unmarshalling fails: unlocks and returns the error. |
| `ReadRate` | `return s.exchangeRate, nil`, **after** the deferred unlock. |

`UseCachedValue` is `exchangeRate != nil && now - lastFetch < TTL`, a strict comparison.

### Properties

| Property | What it says |
|---|---|
| `OkImpliesRate` | A call that returns no error returns a non-nil rate. |
| `ReturnsFresh` | The rate a successful call returns was stored during the call, or was younger than the TTL when the call checked the cache. The racy read can only observe a newer rate. |
| `CallsReturn` | In every behaviour in which the exchange endpoint keeps answering (`EndpointAnswers`: no goroutine stays in the fetch forever), every call that asks for the lock returns. |
| `ImplementsCache` | The service implements its abstract contract (see below). |

### Runs

| Run | Bounds | Result |
|---|---|---|
| `rates_safety` | 2 goroutines, 2 rates, `TTL = 2`, clock up to 4, symmetric in the goroutines | about 24k states |
| `rates_live` | the same constants under `FairSpec`, property `CallsReturn`, without symmetry | about 47k states |
| `rates_refinement` | the same constants, `Spec`, property `ImplementsCache` | about 47k states |

A clock of 4 with `TTL = 2` crosses the TTL boundary twice. Two goroutines are enough for one to fetch, or fail, between the other's unlock and read.

### The contract (`RatesCache.tla`) and the refinement

`RatesCache` states what the service promises, with the mutex, the cache check and the HTTP exchange abstracted away. Its state is:

- `rate`: the rate the service holds;
- `busy[g]`: whether goroutine `g` is inside a call;
- `result[g]`: what `g`'s last call returned;
- `now`: the clock.

Its actions are:

- `Begin(g)`: a call starts.
- `Refresh(g, r)`: on behalf of a call in progress, the rate is replaced by a fetched one stamped `now`.
- `ReturnRate(g)`: a call ends with the rate held at that moment, which must be non-nil.
- `ReturnError(g)`: a call ends with an error and no rate.
- `Tick`.

Nothing in the contract ever clears the rate.

`RatesService` maps onto it, through `Cache == INSTANCE RatesCache WITH ...`:

- `rate` is `exchangeRate`;
- `busy[g]` is `pc[g] # "idle"` (`busyBar`);
- `result[g]` is `ret[g]` without its ghost `checked` field (`resultBar`).

Each concrete step maps to a contract step or a stutter:

| Concrete step | Contract step |
|---|---|
| `Call` | `Begin` |
| `UseCache`, `StartFetch` | stutter |
| `FetchDone` | `Refresh` |
| `FetchFailed` | `ReturnError` |
| the read after unlock, `ReadRate` | `ReturnRate` |
| `Tick` | `Tick` |

`ReadRate` maps to `ReturnRate` only because of the invariant `ReadSeesRate`. The run `rates_refinement` checks the mapping as a property. The theorem `Refinement` proves it.

### Fairness in `FairSpec`

- **Strong fairness on taking the lock.** Go's `sync.Mutex` enters starvation mode and hands the lock to a waiter that has waited over 1 ms.
- **Weak fairness on the read after unlock.** It is a local step of a runnable goroutine.
- **No fairness on the fetch returning.** `http.DefaultClient` has no timeout and the context is `Background()`, so the code does not guarantee that a fetch ever returns. A hung endpoint blocks every caller, since the mutex is held across the fetch. The endpoint answering is therefore the hypothesis `EndpointAnswers` of `CallsReturn`, not a fairness condition of the specification.

### Proofs (`RatesServiceProofs.tla`)

These hold for every set of goroutines and rates, every TTL and every clock bound, from `RatesAssumption`:

- `TypeCorrect`: `Spec => []TypeOK`.
- `OkImpliesRateHolds`: `Spec => []OkImpliesRate`.
- `ReturnsFreshHolds`: `Spec => []ReturnsFresh`.
- `Refinement`: `Spec => ImplementsCache`.

**`OkImpliesRate`** is not inductive on its own: a goroutine at `read` must see a non-nil pointer, or its `ReadRate` could return nil. The strengthening is:

`IInv == TypeOK /\ ReadSeesRate /\ OkImpliesRate`

where `ReadSeesRate` says that every goroutine at `"read"` will read a non-nil pointer. `IInv` is inductive because:

- A goroutine reaches `read` only through `UseCache`, which requires a non-nil pointer, or through `FetchDone`, which stores one.
- No action ever stores `nil`.

The lemmas `IInvInit` and `IInvStep` carry this, with one case per action.

**`ReturnsFresh`** needs a different strengthening:

`FInv == TypeOK /\ RateStamped /\ ReaderFresh /\ ReturnsFresh`

- `RateStamped`: a stored rate's instant equals `lastFetch` and is not in the future, and every cache check lies in the past.
- `ReaderFresh`: every goroutine at `read` will read a rate stored after its check, or one younger than the TTL at its check.

`UseCache` establishes `ReaderFresh` for its goroutine, because `useCachedValue` compares `lastFetch`, which `RateStamped` ties to the rate's instant. A concurrent `FetchDone` keeps `ReaderFresh` for every other reader, since it stores a rate stamped `now`, which is at least every check.

**`Refinement`** uses `IInv`, the lemma `InitRefines` (initial states map to initial states), and the lemma `StepRefines` (each step maps to a contract step or a stutter).

`CallsReturn` is a liveness property, which the prover cannot handle. It is only model-checked.

## spvwallet helpers (`SpvWallet.tla`)

### Model

A metadata value is tagged with its dynamic type:

- nil;
- a string;
- a non-string (a JSON number, bool or array);
- for `p2p_tx_metadata`, a nested map with a sender.

Type assertions panic on the wrong type, as in Go. `GetPaymailsFromMetadata` is split the way the code reads:

| Operator | Lines | What it does |
|---|---|---|
| `FromKey` | 19-26 | Reads `sender` and `receiver`. |
| `P2PSender` | 28-36 | Reads the p2p sender, only when the sender is still `""`. |
| `Fill` | 39-43 | Applies the fallback paymail by direction. |

`getAbsoluteValue` is `uint64(math.Abs(float64(v)))`. Its integers are scaled down:

- `IntWidth = 8` bits stand for `int64`.
- `Mantissa = 4` significant bits stand for float64's 53.
- The conversion rounds to nearest, ties to even.

The state machine is a caller that makes any call and records the last one.

### Properties

| Property | What it says |
|---|---|
| `MetadataPaymailsKept` | From the doc comment ("returns sender and receiver paymails from metadata"): when the call returns, each side holds the paymail found for it in the metadata. A side with none found holds `""` or the fallback. |
| `WellTypedNeverPanics` | The unchecked type assertions at lines 22, 25, 31 and 33 never panic when the values they inspect have the types the code asserts. |
| `FallbackWhenNoneFound` | The doc comment's "If no paymail was found in metadata, fallback paymail is returned". This is the violation run. |
| `AbsCorrectlyRounded` | The result is within half a unit in the last place of `|v|`, so it is exact below 2^53 in Go. |
| `AbsExact` | The violation run. It shows the result is not `|v|` above the mantissa. |

Satoshi amounts stay below 2^53, so valid amounts are unaffected.

### Runs

| Run | Result |
|---|---|
| `spv_helpers` (`MCSpvWallet.cfg`) | `MetadataPaymailsKept`, `WellTypedNeverPanics` and `AbsCorrectlyRounded` hold on every metadata shape, with 2 paymails. |
| `spv_abs_exact` (`MCSpvWalletAbs.cfg`) | Finds `AbsExact` violated above the mantissa. |
| `spv_fallback` (`MCSpvWalletFallback.cfg`) | Finds `FallbackWhenNoneFound` violated. |

### Finding

The fallback is applied only for the directions `incoming` (receiver) and `outgoing` (sender), at lines 39-43. A non-nil transaction with any other direction (for example `reconcile`, here the value `other`) and no paymail in its metadata gets `("", "")`. The doc comment promises the fallback paymail. A nil transaction returns `("", "")` by an explicit early return, so the run excludes it.

### Proofs (`SpvWalletProofs.tla`)

These hold for every set of paymails and every integer and float width:

- `MetadataPaymailsKeptHolds`: `Spec => []MetadataPaymailsKept`.
- `WellTypedNeverPanicsHolds`: `Spec => []WellTypedNeverPanics`.

  Both rest on the lemma `PaymailsMatchReference`. It shows that the function equals a closed form (`Reference`, by cases on the metadata's shape) on *every* transaction and fallback. The proof follows the code's order of reads:
  1. A bad `sender` or `receiver` panics.
  2. Otherwise a non-empty `sender` is kept.
  3. Otherwise the case splits on the shape of `p2p_tx_metadata`: nil, a non-map (panics) or a map, whose `sender` is read like a key.

  The lemma `ReferenceContract` then shows two things. The closed form keeps every paymail found. It panics only on metadata that is not well typed. No invariant is needed, because both properties are about the last call only.
- `AbsCorrectlyRoundedHolds`: `Spec => []AbsCorrectlyRounded`, under the hypothesis `UlpIntegral`. `UlpIntegral` says that the unit in the last place of every magnitude an `int64` can have is a positive integer. The proof covers the rest:
  - `RoundWithinHalfUnit`: the quotient, remainder and ties-to-even branch of `RoundToFloat` land within half a unit.
  - `RoundToFloatWithinHalfUlp`: the exact case below `2^Mantissa`.
  - `AbsoluteValueIsRounded`: `getAbsoluteValue` of a negative amount is the rounding of its magnitude.

  `UlpIntegral` itself is a fact about `2^e` and the exponent `Log2Floor` chooses. It needs induction on `e`, which is out of the provers' reach (see below). `MCSpvWallet` states it as an `ASSUME` (`UlpIntegralChecked`), so TLC evaluates it on every run's widths.

## Mutants

Every property of a passing run has a mutant: an operator defined just before the code definition it replaces, which models a plausible bug. TLC finds each one violating its property:

- a nonce check or part check dropped;
- the envelope's fields swapped;
- the passphrase dropped from key derivation;
- the tag left out;
- `<=` instead of `<` at the TTL;
- a failed fetch stored, or retried forever (the stored failure also breaks `ImplementsCache`);
- the p2p sender consulted unconditionally;
- the nil check of a metadata key dropped;
- `Open` without the tag check;
- `math.Abs` left out.

## What only TLC checks, and what is out of reach

- **Every safety invariant of a passing run has a theorem**, except the hypothesis `UlpIntegral` of `AbsCorrectlyRoundedHolds`. In the installed provers, `2^e` with a variable exponent is an uninterpreted term: not even `2^(e+1) = 2 * 2^e` or `2^e > 0` can be proved. The induction over `e` that would establish them needs an operator-parameter theorem (`NatInduction`), which these backends cannot instantiate. `AbsCorrectlyRounded` is therefore proved down to that fact, and TLC checks the fact, and the property itself, on the bounded widths.
- **Liveness (`CallsReturn`)** and anything stated with `ENABLED` stay with TLC.
- **Recursive definitions** are avoided: `Split` is written with `CHOOSE` over the dash positions.
