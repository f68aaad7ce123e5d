----------------------------- MODULE Encryption -----------------------------
(***************************************************************************)
(* Model of src/encryption/encrypt.go: Encrypt and Decrypt of a secret     *)
(* (the wallet mnemonic) under a passphrase, and the text envelope         *)
(* "hex(salt)-hex(iv)-hex(sealed)" that the caller stores.                 *)
(*                                                                         *)
(* Strings are sequences of one-character strings, so that strings.Split, *)
(* hex.EncodeToString and hex.DecodeString are modelled by what they do.   *)
(* The cryptography is ideal: pbkdf2 is an injective function of           *)
(* (passphrase, salt), and AES-GCM is a lazily sampled ideal AEAD whose    *)
(* table of sealings is the variable `sealed`: Seal under a fixed key and  *)
(* nonce is deterministic and injective, and Open succeeds exactly on a    *)
(* sealing in the table.                                                   *)
(*                                                                         *)
(* Around the two functions, a store of rows (the caller's database) is    *)
(* written by Encrypt, read by Decrypt and corrupted by the environment:   *)
(* characters replaced, deleted or inserted, a row copied over another.    *)
(***************************************************************************)
EXTENDS Naturals, Sequences, FiniteSets

CONSTANTS
    Passphrases,  \* passphrases callers hand to Encrypt and Decrypt
    Plaintexts,   \* secrets, as the bytes []byte(plaintext)
    Slots,        \* storage rows, each holding one envelope string
    Byte,         \* byte values rand.Read and the cipher may produce
    NonceSize,    \* the GCM nonce size the code checks for (12)
    TagSize,      \* the GCM tag length appended by Seal (16)
    TamperChars,  \* characters a corrupted or tampered row may receive
    MaxTamper,    \* bound on the number of corruption steps
    MaxEncrypt    \* bound on the number of Encrypt calls

ASSUME ConstantsAssumption ==
    /\ Byte \subseteq 0..255 /\ Byte # {}
    /\ Plaintexts \subseteq Seq(0..255)
    /\ NonceSize \in Nat \ {0}
    /\ TagSize \in Nat
    /\ MaxTamper \in Nat
    /\ MaxEncrypt \in Nat

VARIABLES
    store,    \* store[s]: the envelope string held by row s
    sealed,   \* the ideal AEAD's table of sealings made so far
    last,     \* the last Decrypt call: its passphrase and its outcome
    tampers,  \* corruption steps taken so far
    encrypts  \* Encrypt calls made so far

vars == <<store, sealed, last, tampers, encrypts>>

-----------------------------------------------------------------------------
(* Strings, hex and strings.Split                                          *)

LowerHex == <<"0","1","2","3","4","5","6","7","8","9","a","b","c","d","e","f">>
UpperHex == <<"0","1","2","3","4","5","6","7","8","9","A","B","C","D","E","F">>
HexChars == {LowerHex[i] : i \in 1..16} \cup {UpperHex[i] : i \in 1..16}
Char == HexChars \cup {"-"} \cup TamperChars

\* hex.EncodeToString: two lowercase digits per byte, high nibble first.
HexEncode(bs) ==
    [i \in 1..2 * Len(bs) |->
        LET b == bs[(i + 1) \div 2]
        IN  IF i % 2 = 1 THEN LowerHex[b \div 16 + 1] ELSE LowerHex[(b % 16) + 1]]

\* The value of a hex digit; hex.DecodeString accepts both cases.
HexVal(c) == CHOOSE v \in 0..15 : LowerHex[v + 1] = c \/ UpperHex[v + 1] = c

\* hex.DecodeString: an error for odd length or a non-hex character.
HexDecode(s) ==
    IF Len(s) % 2 = 0 /\ \A i \in 1..Len(s) : s[i] \in HexChars
    THEN [err |-> FALSE,
          bytes |-> [j \in 1..Len(s) \div 2 |->
                        16 * HexVal(s[2 * j - 1]) + HexVal(s[2 * j])]]
    ELSE [err |-> TRUE, bytes |-> <<>>]

\* strings.Split(s, "-"): one more part than s has dashes ("" gives <<"">>).
Split(s) ==
    LET D == {i \in 1..Len(s) : s[i] = "-"}
        Cut(k) == IF k = 0 THEN 0
                  ELSE IF k > Cardinality(D) THEN Len(s) + 1
                  ELSE CHOOSE i \in D : Cardinality({j \in D : j < i}) = k - 1
    IN  [k \in 1..Cardinality(D) + 1 |-> SubSeq(s, Cut(k - 1) + 1, Cut(k) - 1)]

-----------------------------------------------------------------------------
(* Cryptographic primitives (ideal)                                        *)

\* Mutant: a key derived from the salt alone, the passphrase dropped.
DeriveKeySaltOnly(p, salt) == [pass |-> CHOOSE q \in Passphrases : TRUE, salt |-> salt]

\* deriveKey: pbkdf2.Key(passphrase, salt, 1000, 32, sha256.New).
DeriveKey(p, salt) == [pass |-> p, salt |-> salt]

Sealing == [key : [pass : Passphrases, salt : Seq(0..255)],
            iv : Seq(0..255), pt : Seq(0..255), ct : Seq(0..255),
            by : Passphrases]  \* by: the passphrase given to Encrypt (ghost)

\* Mutant: a sealing that leaves out the authentication tag.
SealOutputsNoTag(key, iv, pt) ==
    LET old == {e \in sealed : e.key = key /\ e.iv = iv}
    IN  IF \E e \in old : e.pt = pt
        THEN {e.ct : e \in {x \in old : x.pt = pt}}
        ELSE {c \in [1..Len(pt) -> Byte] : \A e \in old : e.ct # c}

\* aesgcm.Seal: the sealing already made for (key, iv, pt), or else a fresh
\* ciphertext of Len(pt) + TagSize bytes no other plaintext has under (key, iv).
SealOutputs(key, iv, pt) ==
    LET old == {e \in sealed : e.key = key /\ e.iv = iv}
    IN  IF \E e \in old : e.pt = pt
        THEN {e.ct : e \in {x \in old : x.pt = pt}}
        ELSE {c \in [1..Len(pt) + TagSize -> Byte] : \A e \in old : e.ct # c}

\* Outcomes of Decrypt: a returned string, or a panic of the goroutine.
Returned(v) == [panic |-> FALSE, val |-> v]
Panicked == [panic |-> TRUE, val |-> <<>>]

\* Mutant: Open without the tag check, decrypting any ciphertext of a
\* sealing's length under its key and nonce.
OpenUnauthenticated(key, iv, ct) ==
    IF Len(iv) # NonceSize THEN Panicked
    ELSE IF \E e \in sealed : e.key = key /\ e.iv = iv /\ Len(e.ct) = Len(ct)
         THEN Returned((CHOOSE e \in sealed :
                            e.key = key /\ e.iv = iv /\ Len(e.ct) = Len(ct)).pt)
         ELSE Returned(<<>>)

\* aesgcm.Open: crypto/cipher panics on a nonce of the wrong length; an
\* authentication failure returns an error, which Decrypt turns into "".
Open(key, iv, ct) ==
    IF Len(iv) # NonceSize THEN Panicked
    ELSE IF \E e \in sealed : e.key = key /\ e.iv = iv /\ e.ct = ct
         THEN Returned((CHOOSE e \in sealed :
                            e.key = key /\ e.iv = iv /\ e.ct = ct).pt)
         ELSE Returned(<<>>)

-----------------------------------------------------------------------------
(* Encrypt and Decrypt                                                     *)

\* Mutant: the nonce written before the salt.
EncodeEnvelopeIvFirst(salt, iv, data) ==
    HexEncode(iv) \o <<"-">> \o HexEncode(salt) \o <<"-">> \o HexEncode(data)

\* The envelope: hex(salt) + "-" + hex(iv) + "-" + hex(data).
EncodeEnvelope(salt, iv, data) ==
    HexEncode(salt) \o <<"-">> \o HexEncode(iv) \o <<"-">> \o HexEncode(data)

\* Mutant: Unseal without the nonce length check of encrypt.go:54.
UnsealNoNonceCheck(p, arr) ==
    IF Len(arr) < 3 THEN Panicked
    ELSE LET salt == HexDecode(arr[1])
             iv == HexDecode(arr[2])
             data == HexDecode(arr[3])
         IN  IF salt.err \/ iv.err THEN Returned(<<>>)
             ELSE IF data.err THEN Returned(<<>>)
             ELSE Open(DeriveKey(p, salt.bytes), iv.bytes, data.bytes)

\* Decrypt once the envelope is split: arr[0..2] (1..3 here) are read, and
\* an index past the end of arr panics as it does in Go.
Unseal(p, arr) ==
    IF Len(arr) < 3 THEN Panicked
    ELSE LET salt == HexDecode(arr[1])
             iv == HexDecode(arr[2])
             data == HexDecode(arr[3])
         IN  IF salt.err \/ iv.err THEN Returned(<<>>)
             ELSE IF Len(iv.bytes) # NonceSize THEN Returned(<<>>)
             ELSE IF data.err THEN Returned(<<>>)
             ELSE Open(DeriveKey(p, salt.bytes), iv.bytes, data.bytes)

\* Mutant: the check that the split gave three parts left out.
DecryptOfNoPartCheck(p, s) == Unseal(p, Split(s))

\* Decrypt(passphrase, ciphertext): "" unless the split gives three parts.
DecryptOf(p, s) ==
    LET arr == Split(s)
    IN  IF Len(arr) # 3 THEN Returned(<<>>) ELSE Unseal(p, arr)

\* Encrypt(passphrase, plaintext) with its result stored in row s: the key
\* is derived with a nil salt, the nonce is NonceSize random bytes.  (Since
\* Go 1.24 rand.Read does not return an error, and a 32-byte key makes
\* aes.NewCipher and cipher.NewGCM succeed, so the error returns are dead.)
Encrypt(s, p, m) ==
    LET key == DeriveKey(p, <<>>)
    IN  /\ encrypts < MaxEncrypt
        /\ encrypts' = encrypts + 1
        /\ \E iv \in [1..NonceSize -> Byte] :
             \E ct \in SealOutputs(key, iv, m) :
               /\ sealed' = sealed \cup {[key |-> key, iv |-> iv, pt |-> m, ct |-> ct, by |-> p]}
               /\ store' = [store EXCEPT ![s] = EncodeEnvelope(<<>>, iv, ct)]
               /\ UNCHANGED <<last, tampers>>

\* Decrypt(passphrase, row s): the caller's verification of a password.
Decrypt(s, p) ==
    /\ last' = [pass |-> p, res |-> DecryptOf(p, store[s])]
    /\ UNCHANGED <<store, sealed, tampers, encrypts>>

-----------------------------------------------------------------------------
(* The environment: rows corrupted or tampered with in storage             *)

Tamper(s, new) ==
    /\ tampers < MaxTamper
    /\ store' = [store EXCEPT ![s] = new]
    /\ tampers' = tampers + 1
    /\ UNCHANGED <<sealed, last, encrypts>>

ReplaceChar(s, i, c) == Tamper(s, [store[s] EXCEPT ![i] = c])
DeleteChar(s, i) ==
    Tamper(s, SubSeq(store[s], 1, i - 1) \o SubSeq(store[s], i + 1, Len(store[s])))
InsertChar(s, i, c) ==
    Tamper(s, SubSeq(store[s], 1, i - 1) \o <<c>> \o SubSeq(store[s], i, Len(store[s])))
CopyRow(s, t) == Tamper(t, store[s])

NoCall == [pass |-> "none", res |-> Returned(<<>>)]

Init ==
    /\ store = [s \in Slots |-> <<>>]
    /\ sealed = {}
    /\ last = NoCall
    /\ tampers = 0
    /\ encrypts = 0

Next ==
    \/ \E s \in Slots, p \in Passphrases, m \in Plaintexts : Encrypt(s, p, m)
    \/ \E s \in Slots, p \in Passphrases : Decrypt(s, p)
    \/ \E s \in Slots, c \in TamperChars :
          \E i \in 1..Len(store[s]) : ReplaceChar(s, i, c)
    \/ \E s \in Slots : \E i \in 1..Len(store[s]) : DeleteChar(s, i)
    \/ \E s \in Slots, c \in TamperChars :
          \E i \in 1..Len(store[s]) + 1 : InsertChar(s, i, c)
    \/ \E s, t \in Slots : s # t /\ CopyRow(s, t)

Spec == Init /\ [][Next]_vars

-----------------------------------------------------------------------------
(* Properties                                                              *)

Outcome == [panic : BOOLEAN, val : Seq(0..255)]

TypeOK ==
    /\ store \in [Slots -> Seq(Char)]
    /\ sealed \subseteq {e \in Sealing : Len(e.ct) = Len(e.pt) + TagSize}
    /\ last \in [pass : Passphrases \cup {"none"}, res : Outcome]
    /\ tampers \in 0..MaxTamper
    /\ encrypts \in 0..MaxEncrypt

\* The envelope Encrypt produced for a sealing.
EnvelopeOf(e) == EncodeEnvelope(<<>>, e.iv, e.ct)

\* Decrypt never panics, whatever a row holds after corruption: the length
\* checks on the split (encrypt.go:42) and on the nonce (encrypt.go:54)
\* stand before every index and before aesgcm.Open (FuzzDecrypt's goal).
NeverPanics == \A s \in Slots, p \in Passphrases : ~DecryptOf(p, store[s]).panic

\* Round trip: every row that holds an envelope exactly as Encrypt produced
\* it decrypts, under the passphrase it was produced with, to the plaintext
\* sealed, whatever other rows hold and whatever else was sealed since.
RoundTrip ==
    \A s \in Slots, e \in sealed :
        store[s] = EnvelopeOf(e) => DecryptOf(e.by, store[s]) = Returned(e.pt)

\* Wrong-key rejection: whenever Decrypt returns a non-empty string, that
\* string is a secret some Encrypt sealed under the same passphrase; no
\* corruption of a row and no other passphrase yields a plaintext.
NoForgery ==
    \A s \in Slots, p \in Passphrases :
        LET v == DecryptOf(p, store[s]).val
        IN  v # <<>> => \E e \in sealed : e.by = p /\ e.pt = v

\* Text t is e's envelope with one hex character of its ciphertext
\* component replaced by a digit of another value.
CiphertextFlipOf(t, e) ==
    LET env == EnvelopeOf(e)
        start == Len(env) - 2 * Len(e.ct)
    IN  /\ Len(t) = Len(env)
        /\ \E i \in start + 1 .. Len(env) :
              /\ t[i] \in HexChars
              /\ HexVal(t[i]) # HexVal(env[i])
              /\ \A j \in 1..Len(env) : j # i => t[j] = env[j]

\* Tamper detection (spec 8.6): a row holding a sealing's envelope with one
\* hex character of its ciphertext component flipped decrypts, under the
\* passphrase it was sealed with, to "": aesgcm.Open at encrypt.go:70
\* rejects the changed ciphertext.
TamperDetected ==
    \A s \in Slots, e \in sealed :
        CiphertextFlipOf(store[s], e) => DecryptOf(e.by, store[s]) = Returned(<<>>)
=============================================================================
