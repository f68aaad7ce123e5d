-------------------------- MODULE EncryptionProofs --------------------------
(***************************************************************************)
(* Proofs about Encrypt and Decrypt of src/encryption/encrypt.go, for      *)
(* every set of passphrases, plaintexts, rows and bytes, every nonce and   *)
(* tag size and every bound on the calls and corruptions.                  *)
(***************************************************************************)
EXTENDS Encryption, SequenceTheorems, FiniteSetTheorems, TLAPS

\* Every sealing in the table was made by Encrypt: under the key derived
\* from the passphrase given to Encrypt and a nil salt, with a nonce of
\* NonceSize bytes (encrypt.go:21-33).
SealedShape ==
    \A e \in sealed : e.key = DeriveKey(e.by, <<>>) /\ Len(e.iv) = NonceSize

\* The ideal AEAD is a function of its table: under one key and nonce, a
\* ciphertext opens to at most one plaintext.
SealedFunctional ==
    \A e1, e2 \in sealed :
        e1.key = e2.key /\ e1.iv = e2.iv /\ e1.ct = e2.ct => e1.pt = e2.pt

IInv == TypeOK /\ SealedShape /\ SealedFunctional

\* The positions of two dashes, as Split counts them: two of them, and
\* the first and the second in order.
LEMMA CutsOfTwo ==
    ASSUME NEW D, NEW p1 \in Nat, NEW p2 \in Nat, p1 < p2, D = {p1, p2}
    PROVE  /\ Cardinality(D) = 2
           /\ (CHOOSE i \in D : Cardinality({j \in D : j < i}) = 1 - 1) = p1
           /\ (CHOOSE i \in D : Cardinality({j \in D : j < i}) = 2 - 1) = p2
<1>1. IsFiniteSet({p1}) /\ Cardinality({p1}) = 1
  BY FS_Singleton
<1>2. Cardinality(D) = 2
  <2>1. D = {p1} \cup {p2} /\ p2 \notin {p1}
    OBVIOUS
  <2>2. QED
    BY <1>1, <2>1, FS_AddElement
<1>3. {j \in D : j < p1} = {} /\ {j \in D : j < p2} = {p1}
  OBVIOUS
<1>4. Cardinality({j \in D : j < p1}) = 0 /\ Cardinality({j \in D : j < p2}) = 1
  BY <1>1, <1>3, FS_EmptySet
<1>5. \A i \in D : Cardinality({j \in D : j < i}) = 1 - 1 <=> i = p1
  BY <1>4
<1>6. \A i \in D : Cardinality({j \in D : j < i}) = 2 - 1 <=> i = p2
  BY <1>4
<1>7. p1 \in D /\ p2 \in D
  OBVIOUS
<1>8. QED
  BY <1>2, <1>5, <1>6, <1>7

\* strings.Split of a string with exactly two dashes: the text before the
\* first, between the two, and after the second.
LEMMA SplitTwoDashes ==
    ASSUME NEW S, NEW s \in Seq(S), NEW p1 \in Nat, NEW p2 \in Nat, p1 < p2,
           {i \in 1..Len(s) : s[i] = "-"} = {p1, p2}
    PROVE  Split(s) = <<SubSeq(s, 1, p1 - 1), SubSeq(s, p1 + 1, p2 - 1),
                        SubSeq(s, p2 + 1, Len(s))>>
<1> DEFINE D == {i \in 1..Len(s) : s[i] = "-"}
           Cut(k) == IF k = 0 THEN 0
                     ELSE IF k > Cardinality(D) THEN Len(s) + 1
                     ELSE CHOOSE i \in D : Cardinality({j \in D : j < i}) = k - 1
<1>1. Split(s) = [k \in 1..Cardinality(D) + 1 |-> SubSeq(s, Cut(k - 1) + 1, Cut(k) - 1)]
  BY DEF Split
<1>2. /\ Cardinality(D) = 2
      /\ (CHOOSE i \in D : Cardinality({j \in D : j < i}) = 1 - 1) = p1
      /\ (CHOOSE i \in D : Cardinality({j \in D : j < i}) = 2 - 1) = p2
  BY CutsOfTwo
<1>3. Cut(0) = 0 /\ Cut(3) = Len(s) + 1
  BY <1>2
<1>4. Cut(1) = p1
  <2>1. ~(1 = 0) /\ ~(1 > Cardinality(D))
    BY <1>2
  <2>2. Cut(1) = CHOOSE i \in D : Cardinality({j \in D : j < i}) = 1 - 1
    BY <2>1, Zenon
  <2>3. QED
    BY <1>2, <2>2, Zenon
<1>5. Cut(2) = p2
  <2>1. ~(2 = 0) /\ ~(2 > Cardinality(D))
    BY <1>2
  <2>2. Cut(2) = CHOOSE i \in D : Cardinality({j \in D : j < i}) = 2 - 1
    BY <2>1, Zenon
  <2>3. QED
    BY <1>2, <2>2, Zenon
<1>6. Len(s) \in Nat
  BY LenProperties
<1> DEFINE Part(k) == SubSeq(s, Cut(k - 1) + 1, Cut(k) - 1)
<1> HIDE DEF Cut
<1>7. /\ Cut(1 - 1) + 1 = 1 /\ Cut(1) - 1 = p1 - 1
      /\ Cut(2 - 1) + 1 = p1 + 1 /\ Cut(2) - 1 = p2 - 1
      /\ Cut(3 - 1) + 1 = p2 + 1 /\ Cut(3) - 1 = Len(s)
  BY <1>3, <1>4, <1>5, <1>6
<1>8. /\ Part(1) = SubSeq(s, 1, p1 - 1)
      /\ Part(2) = SubSeq(s, p1 + 1, p2 - 1)
      /\ Part(3) = SubSeq(s, p2 + 1, Len(s))
  BY <1>7
<1> HIDE DEF Part
<1>9. [k \in 1..3 |-> Part(k)] = <<Part(1), Part(2), Part(3)>>
  OBVIOUS
<1>10. Split(s) = [k \in 1..3 |-> Part(k)]
  <2>1. Cardinality(D) + 1 = 3
    BY <1>2
  <2>2. QED
    BY <1>1, <2>1 DEF Part
<1>11. QED
  BY <1>8, <1>9, <1>10

USE ConstantsAssumption DEF ConstantsAssumption

\* A function on 1..n, such as the bytes rand.Read or Seal fill, is a
\* sequence of length n.
LEMMA FunctionIsSeq ==
    ASSUME NEW S, NEW T, S \subseteq T
    PROVE  \A n \in Nat : \A f \in [1..n -> S] : f \in Seq(T) /\ Len(f) = n
<1> SUFFICES ASSUME NEW n \in Nat, NEW f \in [1..n -> S]
             PROVE  f \in Seq(T) /\ Len(f) = n
  OBVIOUS
<1>1. f \in [1..n -> T]
  OBVIOUS
<1>2. f \in UNION {[1..k -> T] : k \in Nat}
  BY <1>1
<1>3. QED
  BY <1>2, SeqDef

\* hex.EncodeToString writes two hex digits per byte.
LEMMA HexEncodeType ==
    ASSUME NEW bs \in Seq(0..255)
    PROVE  /\ HexEncode(bs) \in Seq(HexChars)
           /\ Len(HexEncode(bs)) = 2 * Len(bs)
<1>1. \A d \in 0..15 : LowerHex[d + 1] \in HexChars
  BY DEF LowerHex, HexChars
<1>2. \A i \in 1..2 * Len(bs) : (i + 1) \div 2 \in 1..Len(bs)
  OBVIOUS
<1>3. \A b \in 0..255 : b \div 16 \in 0..15 /\ b % 16 \in 0..15
  OBVIOUS
<1>4. \A i \in 1..2 * Len(bs) : HexEncode(bs)[i] \in HexChars
  <2> SUFFICES ASSUME NEW i \in 1..2 * Len(bs)
               PROVE  HexEncode(bs)[i] \in HexChars
    OBVIOUS
  <2>1. bs[(i + 1) \div 2] \in 0..255
    BY <1>2, ElementOfSeq
  <2>2. HexEncode(bs)[i] = IF i % 2 = 1 THEN LowerHex[bs[(i + 1) \div 2] \div 16 + 1]
                           ELSE LowerHex[(bs[(i + 1) \div 2] % 16) + 1]
    BY DEF HexEncode
  <2>3. QED
    BY <1>1, <1>3, <2>1, <2>2
<1>5. QED
  BY <1>4 DEF HexEncode

\* The envelope Encrypt stores is a string of hex digits and two dashes.
LEMMA EnvelopeType ==
    ASSUME NEW salt \in Seq(0..255), NEW iv \in Seq(0..255), NEW data \in Seq(0..255)
    PROVE  EncodeEnvelope(salt, iv, data) \in Seq(Char)
<1>1. HexChars \subseteq Char /\ <<"-">> \in Seq(Char)
  BY DEF Char
<1>2. /\ HexEncode(salt) \in Seq(Char)
      /\ HexEncode(iv) \in Seq(Char)
      /\ HexEncode(data) \in Seq(Char)
  BY <1>1, HexEncodeType, SeqMonotonic
<1>3. QED
  BY <1>1, <1>2, ConcatProperties DEF EncodeEnvelope

\* Decrypt returns a byte string, given a table of well-formed sealings.
LEMMA DecryptOutcome ==
    ASSUME NEW p, NEW s, sealed \subseteq Sealing
    PROVE  DecryptOf(p, s) \in Outcome
<1>1. \A key, iv, ct : Open(key, iv, ct) \in Outcome
  BY DEF Open, Returned, Panicked, Outcome, Sealing
<1>2. \A arr : Unseal(p, arr) \in Outcome
  BY <1>1 DEF Unseal, Returned, Panicked, Outcome
<1>3. QED
  BY <1>2 DEF DecryptOf, Returned, Outcome

\* aesgcm.Seal yields Len(pt) + TagSize bytes: a fresh ciphertext has that
\* length, and a reused one is that of an earlier sealing of the same text.
LEMMA SealOutputsType ==
    ASSUME sealed \subseteq {e \in Sealing : Len(e.ct) = Len(e.pt) + TagSize},
           NEW key, NEW iv, NEW m \in Seq(0..255),
           NEW ct \in SealOutputs(key, iv, m)
    PROVE  ct \in Seq(0..255) /\ Len(ct) = Len(m) + TagSize
<1> DEFINE old == {e \in sealed : e.key = key /\ e.iv = iv}
<1>1. CASE \E e \in old : e.pt = m
  <2>1. PICK x \in old : x.pt = m /\ ct = x.ct
    BY <1>1 DEF SealOutputs
  <2>2. QED
    BY <2>1 DEF Sealing
<1>2. CASE ~\E e \in old : e.pt = m
  <2>1. ct \in [1..Len(m) + TagSize -> Byte]
    BY <1>2 DEF SealOutputs
  <2>2. Len(m) + TagSize \in Nat
    BY LenProperties
  <2>3. ct \in Seq(0..255)
    <3>1. Byte \subseteq 0..255
      OBVIOUS
    <3>2. \A n \in Nat : \A f \in [1..n -> Byte] : f \in Seq(0..255)
      BY <3>1, FunctionIsSeq
    <3>3. QED
      BY <2>1, <2>2, <3>2
  <2>4. Len(ct) = Len(m) + TagSize
    BY <2>1, <2>2
  <2>5. QED
    BY <2>3, <2>4
<1>3. QED
  BY <1>1, <1>2

\* A corrupted row is still a string over the characters rows may hold.
LEMMA TamperType ==
    ASSUME NEW x \in Seq(Char), NEW c \in Char
    PROVE  /\ \A i \in 1..Len(x) : [x EXCEPT ![i] = c] \in Seq(Char)
           /\ \A i \in 1..Len(x) :
                 SubSeq(x, 1, i - 1) \o SubSeq(x, i + 1, Len(x)) \in Seq(Char)
           /\ \A i \in 1..Len(x) + 1 :
                 SubSeq(x, 1, i - 1) \o <<c>> \o SubSeq(x, i, Len(x)) \in Seq(Char)
<1>1. \A i \in 1..Len(x) : [x EXCEPT ![i] = c] \in Seq(Char)
  BY ExceptSeq
<1>2. \A i, j \in 1..Len(x) + 1 : SubSeq(x, i, j - 1) \in Seq(Char)
  <2> SUFFICES ASSUME NEW i \in 1..Len(x) + 1, NEW j \in 1..Len(x) + 1
               PROVE  SubSeq(x, i, j - 1) \in Seq(Char)
    OBVIOUS
  <2>1. \A k \in i..j - 1 : x[k] \in Char
    BY LenProperties, ElementOfSeq
  <2>2. QED
    BY <2>1, SubSeqProperties
<1>3. \A i \in 1..Len(x) :
        SubSeq(x, 1, i - 1) \o SubSeq(x, i + 1, Len(x)) \in Seq(Char)
  <2> SUFFICES ASSUME NEW i \in 1..Len(x)
               PROVE  SubSeq(x, 1, i - 1) \o SubSeq(x, i + 1, Len(x)) \in Seq(Char)
    OBVIOUS
  <2>1. SubSeq(x, 1, i - 1) \in Seq(Char) /\ SubSeq(x, i + 1, Len(x)) \in Seq(Char)
    BY <1>2, LenProperties
  <2>2. QED
    BY <2>1, ConcatProperties
<1>4. \A i \in 1..Len(x) + 1 :
        SubSeq(x, 1, i - 1) \o <<c>> \o SubSeq(x, i, Len(x)) \in Seq(Char)
  <2> SUFFICES ASSUME NEW i \in 1..Len(x) + 1
               PROVE  SubSeq(x, 1, i - 1) \o <<c>> \o SubSeq(x, i, Len(x)) \in Seq(Char)
    OBVIOUS
  <2>1. SubSeq(x, 1, i - 1) \in Seq(Char) /\ SubSeq(x, i, Len(x)) \in Seq(Char)
    BY <1>2, LenProperties
  <2>2. <<c>> \in Seq(Char)
    OBVIOUS
  <2>3. QED
    BY <2>1, <2>2, ConcatProperties
<1>5. QED
  BY <1>1, <1>3, <1>4

\* The nonce rand.Read fills is a byte string of NonceSize bytes.
LEMMA NonceType ==
    ASSUME NEW iv \in [1..NonceSize -> Byte]
    PROVE  iv \in Seq(0..255) /\ Len(iv) = NonceSize
<1>1. Byte \subseteq 0..255
  OBVIOUS
<1>2. \A n \in Nat : \A f \in [1..n -> Byte] : f \in Seq(0..255) /\ Len(f) = n
  BY <1>1, FunctionIsSeq
<1>3. QED
  BY <1>2

\* NewEncryption's state (the store empty, nothing sealed) is well typed
\* and satisfies the invariants of the table.
LEMMA InitIInv == Init => IInv
<1> SUFFICES ASSUME Init PROVE IInv
  OBVIOUS
<1>1. <<>> \in Seq(Char)
  OBVIOUS
<1>2. TypeOK
  BY <1>1 DEF Init, TypeOK, NoCall, Returned, Outcome
<1>3. QED
  BY <1>2 DEF Init, IInv, SealedShape, SealedFunctional

\* aesgcm.Seal under a key and nonce never gives a ciphertext that already
\* opens to another plaintext under them: it reuses the sealing of the
\* same plaintext, or draws a ciphertext no sealing under them has.
LEMMA SealFresh ==
    ASSUME SealedFunctional, NEW key, NEW iv, NEW m,
           NEW ct \in SealOutputs(key, iv, m)
    PROVE  \A e \in sealed : e.key = key /\ e.iv = iv /\ e.ct = ct => e.pt = m
<1> DEFINE old == {e \in sealed : e.key = key /\ e.iv = iv}
<1>1. CASE \E e \in old : e.pt = m
  <2>1. PICK x \in old : x.pt = m /\ ct = x.ct
    BY <1>1 DEF SealOutputs
  <2>2. QED
    BY <2>1 DEF SealedFunctional
<1>2. CASE ~\E e \in old : e.pt = m
  <2>1. \A e \in old : e.ct # ct
    BY <1>2 DEF SealOutputs
  <2>2. QED
    BY <2>1
<1>3. QED
  BY <1>1, <1>2

\* An Encrypt call keeps the table and the store well formed.
LEMMA EncryptIInv ==
    ASSUME IInv, NEW s \in Slots, NEW p \in Passphrases, NEW m \in Plaintexts,
           Encrypt(s, p, m)
    PROVE  IInv'
<1> DEFINE key == DeriveKey(p, <<>>)
<1>1. PICK iv \in [1..NonceSize -> Byte] :
             \E ct \in SealOutputs(key, iv, m) :
               /\ sealed' = sealed \cup {[key |-> key, iv |-> iv, pt |-> m, ct |-> ct, by |-> p]}
               /\ store' = [store EXCEPT ![s] = EncodeEnvelope(<<>>, iv, ct)]
               /\ UNCHANGED <<last, tampers>>
  BY DEF Encrypt
<1>2. PICK ct \in SealOutputs(key, iv, m) :
               /\ sealed' = sealed \cup {[key |-> key, iv |-> iv, pt |-> m, ct |-> ct, by |-> p]}
               /\ store' = [store EXCEPT ![s] = EncodeEnvelope(<<>>, iv, ct)]
               /\ UNCHANGED <<last, tampers>>
  BY <1>1
<1> DEFINE new == [key |-> key, iv |-> iv, pt |-> m, ct |-> ct, by |-> p]
<1>3. m \in Seq(0..255)
  OBVIOUS
<1>4. iv \in Seq(0..255) /\ Len(iv) = NonceSize
  BY NonceType
<1>5. ct \in Seq(0..255) /\ Len(ct) = Len(m) + TagSize
  BY <1>3, SealOutputsType DEF IInv, TypeOK
<1>6. TypeOK'
  <2>1. store' \in [Slots -> Seq(Char)]
    <3>0. <<>> \in Seq(0..255)
      OBVIOUS
    <3>1. EncodeEnvelope(<<>>, iv, ct) \in Seq(Char)
      BY <1>4, <1>5, <3>0, EnvelopeType
    <3>2. QED
      BY <1>2, <3>1 DEF IInv, TypeOK
  <2>2. new \in Sealing /\ Len(new.ct) = Len(new.pt) + TagSize
    BY <1>3, <1>4, <1>5 DEF Sealing, DeriveKey
  <2>3. sealed' \subseteq {e \in Sealing : Len(e.ct) = Len(e.pt) + TagSize}
    BY <1>2, <2>2 DEF IInv, TypeOK
  <2>4. encrypts' \in 0..MaxEncrypt
    BY DEF Encrypt, IInv, TypeOK
  <2>5. QED
    BY <1>2, <2>1, <2>3, <2>4 DEF IInv, TypeOK
<1>7. SealedShape'
  BY <1>2, <1>4 DEF IInv, SealedShape
<1>8. SealedFunctional'
  <2> SUFFICES ASSUME NEW e1 \in sealed', NEW e2 \in sealed',
                      e1.key = e2.key, e1.iv = e2.iv, e1.ct = e2.ct
               PROVE  e1.pt = e2.pt
    BY DEF SealedFunctional
  <2>1. \A e \in sealed : e.key = key /\ e.iv = iv /\ e.ct = ct => e.pt = m
    BY SealFresh DEF IInv
  <2>2. QED
    BY <1>2, <2>1 DEF IInv, SealedFunctional
<1>9. QED
  BY <1>6, <1>7, <1>8 DEF IInv

\* A corruption step replaces one row by a string over Char.
LEMMA TamperIInv ==
    ASSUME IInv, NEW s \in Slots, NEW new \in Seq(Char), Tamper(s, new)
    PROVE  IInv'
<1>1. TypeOK'
  BY DEF Tamper, IInv, TypeOK
<1>2. QED
  BY <1>1 DEF Tamper, IInv, SealedShape, SealedFunctional

\* Every step of the model keeps the inductive invariant.
LEMMA IInvStep == IInv /\ [Next]_vars => IInv'
<1> SUFFICES ASSUME IInv, [Next]_vars PROVE IInv'
  OBVIOUS
<1>0. \A c \in TamperChars : c \in Char
  BY DEF Char
<1>1. ASSUME NEW s \in Slots, NEW p \in Passphrases, NEW m \in Plaintexts,
             Encrypt(s, p, m)
      PROVE  IInv'
  BY <1>1, EncryptIInv
<1>2. ASSUME NEW s \in Slots, NEW p \in Passphrases, Decrypt(s, p)
      PROVE  IInv'
  <2>1. DecryptOf(p, store[s]) \in Outcome
    BY DecryptOutcome DEF IInv, TypeOK
  <2>2. TypeOK'
    BY <1>2, <2>1 DEF Decrypt, IInv, TypeOK
  <2>3. QED
    BY <1>2, <2>2 DEF Decrypt, IInv, SealedShape, SealedFunctional
<1>3. ASSUME NEW s \in Slots, NEW c \in TamperChars, NEW i \in 1..Len(store[s]),
             ReplaceChar(s, i, c)
      PROVE  IInv'
  <2>1. [store[s] EXCEPT ![i] = c] \in Seq(Char)
    BY <1>0, TamperType DEF IInv, TypeOK
  <2>2. QED
    BY <1>3, <2>1, TamperIInv DEF ReplaceChar
<1>4. ASSUME NEW s \in Slots, NEW i \in 1..Len(store[s]), DeleteChar(s, i)
      PROVE  IInv'
  <2>1. SubSeq(store[s], 1, i - 1) \o SubSeq(store[s], i + 1, Len(store[s])) \in Seq(Char)
    BY TamperType, <1>0 DEF IInv, TypeOK, Char
  <2>2. QED
    BY <1>4, <2>1, TamperIInv DEF DeleteChar
<1>5. ASSUME NEW s \in Slots, NEW c \in TamperChars, NEW i \in 1..Len(store[s]) + 1,
             InsertChar(s, i, c)
      PROVE  IInv'
  <2>1. SubSeq(store[s], 1, i - 1) \o <<c>> \o SubSeq(store[s], i, Len(store[s]))
          \in Seq(Char)
    BY <1>0, TamperType DEF IInv, TypeOK
  <2>2. QED
    BY <1>5, <2>1, TamperIInv DEF InsertChar
<1>6. ASSUME NEW s \in Slots, NEW t \in Slots, CopyRow(s, t)
      PROVE  IInv'
  <2>1. store[s] \in Seq(Char)
    BY DEF IInv, TypeOK
  <2>2. QED
    BY <1>6, <2>1, TamperIInv DEF CopyRow
<1>7. CASE UNCHANGED vars
  BY <1>7 DEF vars, IInv, TypeOK, SealedShape, SealedFunctional
<1>8. QED
  BY <1>1, <1>2, <1>3, <1>4, <1>5, <1>6, <1>7 DEF Next

\* The store, the table of sealings, the last Decrypt outcome and the
\* counters keep their types in every reachable state.
THEOREM TypeCorrect == Spec => []TypeOK
<1>1. IInv => TypeOK
  BY DEF IInv
<1>2. QED
  BY <1>1, InitIInv, IInvStep, PTL DEF Spec

\* Decrypt does not panic on any string at all, not only on the rows the
\* store can hold: when strings.Split gives other than three parts Decrypt
\* returns "" (encrypt.go:42) before arr is indexed, and a nonce of the
\* wrong length returns "" (encrypt.go:54) before aesgcm.Open sees it.
LEMMA DecryptNeverPanics ==
    ASSUME NEW p, NEW s
    PROVE  ~DecryptOf(p, s).panic
<1> DEFINE arr == Split(s)
<1>1. CASE Len(arr) # 3
  BY <1>1 DEF DecryptOf, Returned
<1>2. CASE Len(arr) = 3
  <2> DEFINE salt == HexDecode(arr[1])
             iv == HexDecode(arr[2])
             data == HexDecode(arr[3])
  <2>1. DecryptOf(p, s) = Unseal(p, arr)
    BY <1>2 DEF DecryptOf
  <2>2. ~(Len(arr) < 3)
    BY <1>2
  <2>3. CASE salt.err \/ iv.err \/ Len(iv.bytes) # NonceSize \/ data.err
    BY <2>1, <2>2, <2>3 DEF Unseal, Returned
  <2>4. CASE ~(salt.err \/ iv.err) /\ Len(iv.bytes) = NonceSize /\ ~data.err
    <3>1. Unseal(p, arr) = Open(DeriveKey(p, salt.bytes), iv.bytes, data.bytes)
      BY <2>2, <2>4 DEF Unseal
    <3>2. ~Open(DeriveKey(p, salt.bytes), iv.bytes, data.bytes).panic
      BY <2>4 DEF Open, Returned
    <3>3. QED
      BY <2>1, <3>1, <3>2
  <2>5. QED
    BY <2>3, <2>4
<1>3. QED
  BY <1>1, <1>2

\* Decrypt never panics on a stored row, in every reachable state: the
\* FuzzDecrypt goal, for every instance of the constants.
THEOREM NeverPanicsHolds == Spec => []NeverPanics
<1>1. NeverPanics
  BY DecryptNeverPanics DEF NeverPanics
<1>2. QED
  BY <1>1, PTL DEF Spec

\* Decrypt authenticates, on any string whatever: a non-empty result is
\* the plaintext of a sealing under the key pbkdf2 derives from the
\* passphrase Decrypt was given, and every such sealing was made by an
\* Encrypt with that passphrase.
LEMMA DecryptAuthentic ==
    ASSUME SealedShape, NEW p, NEW s, DecryptOf(p, s).val # <<>>
    PROVE  \E e \in sealed : e.by = p /\ e.pt = DecryptOf(p, s).val
<1> DEFINE arr == Split(s)
           salt == HexDecode(arr[1])
           iv == HexDecode(arr[2])
           data == HexDecode(arr[3])
           key == DeriveKey(p, salt.bytes)
           Match(e) == e.key = key /\ e.iv = iv.bytes /\ e.ct = data.bytes
<1>1. Len(arr) = 3
  BY DEF DecryptOf, Returned
<1>2. ~(salt.err \/ iv.err) /\ Len(iv.bytes) = NonceSize /\ ~data.err
  BY <1>1 DEF DecryptOf, Unseal, Returned
<1>3. DecryptOf(p, s) = Open(key, iv.bytes, data.bytes)
  BY <1>1, <1>2 DEF DecryptOf, Unseal
<1>4. \E e \in sealed : Match(e)
  BY <1>2, <1>3 DEF Open, Returned
<1> DEFINE c == CHOOSE e \in sealed : Match(e)
<1>5. c \in sealed /\ Match(c)
  BY <1>4
<1>6. DecryptOf(p, s).val = c.pt
  BY <1>2, <1>3, <1>4 DEF Open, Returned
<1>7. c.by = p
  <2>1. c.key.pass = p
    BY <1>5 DEF DeriveKey
  <2>2. c.key = DeriveKey(c.by, <<>>)
    BY <1>5 DEF SealedShape
  <2>3. QED
    BY <2>1, <2>2 DEF DeriveKey
<1>8. QED
  BY <1>5, <1>6, <1>7

\* No Decrypt yields a plaintext that was not sealed under its passphrase,
\* in every reachable state and for every instance of the constants.
THEOREM NoForgeryHolds == Spec => []NoForgery
<1>1. IInv => NoForgery
  BY DecryptAuthentic DEF IInv, NoForgery
<1>2. QED
  BY <1>1, InitIInv, IInvStep, PTL DEF Spec

\* hex.DecodeString reads back the digit hex.EncodeToString wrote.
LEMMA HexValLower ==
    ASSUME NEW d \in 0..15
    PROVE  HexVal(LowerHex[d + 1]) = d
<1>0. 0..15 = {0, 1, 2, 3, 4, 5, 6, 7, 8, 9, 10, 11, 12, 13, 14, 15}
  OBVIOUS
<1>1. \A i, j \in 0..15 :
        LowerHex[i + 1] = LowerHex[j + 1] \/ UpperHex[i + 1] = LowerHex[j + 1] => i = j
  BY <1>0, SMTT(60) DEF LowerHex, UpperHex
<1>2. QED
  BY <1>1 DEF HexVal

\* hex.DecodeString inverts hex.EncodeToString.
LEMMA HexRoundTrip ==
    ASSUME NEW bs \in Seq(0..255)
    PROVE  HexDecode(HexEncode(bs)) = [err |-> FALSE, bytes |-> bs]
<1> DEFINE h == HexEncode(bs)
           n == Len(bs)
<1>1. n \in Nat /\ h \in Seq(HexChars) /\ Len(h) = 2 * n
  BY HexEncodeType, LenProperties
<1>2. Len(h) % 2 = 0 /\ \A i \in 1..Len(h) : h[i] \in HexChars
  BY <1>1, ElementOfSeq
<1>3. \A j \in 1..n : 16 * HexVal(h[2 * j - 1]) + HexVal(h[2 * j]) = bs[j]
  <2> SUFFICES ASSUME NEW j \in 1..n
               PROVE  16 * HexVal(h[2 * j - 1]) + HexVal(h[2 * j]) = bs[j]
    OBVIOUS
  <2>1. bs[j] \in 0..255
    BY ElementOfSeq
  <2>2. /\ bs[j] \div 16 \in 0..15 /\ bs[j] % 16 \in 0..15
        /\ 16 * (bs[j] \div 16) + (bs[j] % 16) = bs[j]
    <3>1. \A b \in 0..255 : /\ b \div 16 \in 0..15 /\ b % 16 \in 0..15
                            /\ 16 * (b \div 16) + (b % 16) = b
      OBVIOUS
    <3>2. QED
      BY <2>1, <3>1
  <2>3. h[2 * j - 1] = LowerHex[bs[j] \div 16 + 1]
    <3>1. (2 * j - 1 + 1) \div 2 = j /\ (2 * j - 1) % 2 = 1 /\ 2 * j - 1 \in 1..2 * n
      OBVIOUS
    <3>2. QED
      BY <3>1 DEF HexEncode
  <2>4. h[2 * j] = LowerHex[(bs[j] % 16) + 1]
    <3>1. (2 * j + 1) \div 2 = j /\ (2 * j) % 2 = 0 /\ 2 * j \in 1..2 * n
      OBVIOUS
    <3>2. QED
      BY <3>1 DEF HexEncode
  <2>5. HexVal(h[2 * j - 1]) = bs[j] \div 16
    BY <2>2, <2>3, HexValLower
  <2>6. HexVal(h[2 * j]) = bs[j] % 16
    BY <2>2, <2>4, HexValLower
  <2>7. QED
    BY <2>2, <2>5, <2>6
<1>4. [j \in 1..Len(h) \div 2 |-> 16 * HexVal(h[2 * j - 1]) + HexVal(h[2 * j])] = bs
  <2>1. Len(h) \div 2 = n
    BY <1>1
  <2>2. bs = [j \in 1..n |-> bs[j]]
    BY LenProperties
  <2>3. QED
    BY <1>3, <2>1, <2>2
<1>5. QED
  BY <1>2, <1>4 DEF HexDecode

\* The characters of an envelope: the three hex strings, each followed
\* (but the last) by a dash.
LEMMA EnvelopeAt ==
    ASSUME NEW a \in Seq(HexChars), NEW b \in Seq(HexChars), NEW c \in Seq(HexChars)
    PROVE  LET s == a \o <<"-">> \o b \o <<"-">> \o c
           IN  /\ s \in Seq(Char)
               /\ Len(s) = Len(a) + Len(b) + Len(c) + 2
               /\ \A i \in 1..Len(a) : s[i] = a[i]
               /\ s[Len(a) + 1] = "-"
               /\ \A i \in 1..Len(b) : s[Len(a) + 1 + i] = b[i]
               /\ s[Len(a) + Len(b) + 2] = "-"
               /\ \A i \in 1..Len(c) : s[Len(a) + Len(b) + 2 + i] = c[i]
<1> DEFINE s1 == a \o <<"-">>
           s2 == s1 \o b
           s3 == s2 \o <<"-">>
           s == s3 \o c
<1>1. HexChars \subseteq Char /\ <<"-">> \in Seq(Char)
  BY DEF Char
<1>2. a \in Seq(Char) /\ b \in Seq(Char) /\ c \in Seq(Char)
  BY <1>1, SeqMonotonic
<1>3. Len(a) \in Nat /\ Len(b) \in Nat /\ Len(c) \in Nat
  BY LenProperties
<1>4. /\ s1 \in Seq(Char) /\ Len(s1) = Len(a) + 1
      /\ \A i \in 1..Len(a) : s1[i] = a[i]
      /\ s1[Len(a) + 1] = "-"
  BY <1>1, <1>2, <1>3, ConcatProperties
<1>5. /\ s2 \in Seq(Char) /\ Len(s2) = Len(a) + 1 + Len(b)
      /\ \A i \in 1..Len(a) + 1 : s2[i] = s1[i]
      /\ \A i \in 1..Len(b) : s2[Len(a) + 1 + i] = b[i]
  BY <1>2, <1>3, <1>4, ConcatProperties
<1>6. /\ s3 \in Seq(Char) /\ Len(s3) = Len(a) + Len(b) + 2
      /\ \A i \in 1..Len(a) + 1 + Len(b) : s3[i] = s2[i]
      /\ s3[Len(a) + Len(b) + 2] = "-"
  BY <1>1, <1>3, <1>5, ConcatProperties
<1>7. /\ s \in Seq(Char) /\ Len(s) = Len(a) + Len(b) + Len(c) + 2
      /\ \A i \in 1..Len(a) + Len(b) + 2 : s[i] = s3[i]
      /\ \A i \in 1..Len(c) : s[Len(a) + Len(b) + 2 + i] = c[i]
  BY <1>2, <1>3, <1>6, ConcatProperties
<1>8. QED
  BY <1>3, <1>4, <1>5, <1>6, <1>7


\* strings.Split(envelope, "-") gives back the three hex strings: the only
\* dashes are the two separators, since hex digits are never dashes.
LEMMA SplitEnvelope ==
    ASSUME NEW a \in Seq(HexChars), NEW b \in Seq(HexChars), NEW c \in Seq(HexChars)
    PROVE  Split(a \o <<"-">> \o b \o <<"-">> \o c) = <<a, b, c>>
<1> DEFINE s == a \o <<"-">> \o b \o <<"-">> \o c
           p1 == Len(a) + 1
           p2 == Len(a) + Len(b) + 2
<1>1. /\ s \in Seq(Char)
      /\ Len(s) = Len(a) + Len(b) + Len(c) + 2
      /\ \A i \in 1..Len(a) : s[i] = a[i]
      /\ s[p1] = "-"
      /\ \A i \in 1..Len(b) : s[p1 + i] = b[i]
      /\ s[p2] = "-"
      /\ \A i \in 1..Len(c) : s[p2 + i] = c[i]
  BY EnvelopeAt
<1>2. Len(a) \in Nat /\ Len(b) \in Nat /\ Len(c) \in Nat
  BY LenProperties
<1>3. "-" \notin HexChars
  BY DEF HexChars, LowerHex, UpperHex
<1>4. {i \in 1..Len(s) : s[i] = "-"} = {p1, p2}
  <2>1. \A i \in 1..Len(a) : a[i] \in HexChars
    BY ElementOfSeq
  <2>2. \A i \in 1..Len(b) : b[i] \in HexChars
    BY ElementOfSeq
  <2>3. \A i \in 1..Len(c) : c[i] \in HexChars
    BY ElementOfSeq
  <2>4. \A i \in 1..Len(s) : i \notin {p1, p2} =>
          \/ i \in 1..Len(a) /\ s[i] = a[i]
          \/ i - p1 \in 1..Len(b) /\ s[i] = b[i - p1]
          \/ i - p2 \in 1..Len(c) /\ s[i] = c[i - p2]
    <3> SUFFICES ASSUME NEW i \in 1..Len(s), i \notin {p1, p2}
                 PROVE  \/ i \in 1..Len(a) /\ s[i] = a[i]
                        \/ i - p1 \in 1..Len(b) /\ s[i] = b[i - p1]
                        \/ i - p2 \in 1..Len(c) /\ s[i] = c[i - p2]
      OBVIOUS
    <3>1. CASE i <= Len(a)
      BY <1>1, <3>1
    <3>2. CASE p1 < i /\ i < p2
      <4>1. i - p1 \in 1..Len(b) /\ i = p1 + (i - p1)
        BY <1>1, <1>2, <3>2
      <4>2. QED
        BY <1>1, <4>1
    <3>3. CASE p2 < i
      <4>1. i - p2 \in 1..Len(c) /\ i = p2 + (i - p2)
        BY <1>1, <1>2, <3>3
      <4>2. QED
        BY <1>1, <4>1
    <3>4. QED
      BY <1>2, <3>1, <3>2, <3>3
  <2>5. p1 \in 1..Len(s) /\ p2 \in 1..Len(s)
    BY <1>1, <1>2
  <2>6. QED
    BY <1>1, <1>3, <2>1, <2>2, <2>3, <2>4, <2>5
<1>5. Split(s) = <<SubSeq(s, 1, p1 - 1), SubSeq(s, p1 + 1, p2 - 1),
                   SubSeq(s, p2 + 1, Len(s))>>
  <2>1. p1 \in Nat /\ p2 \in Nat /\ p1 < p2
    BY <1>2
  <2>2. QED
    BY <1>1, <1>4, <2>1, SplitTwoDashes
<1>6. SubSeq(s, 1, p1 - 1) = a
  BY <1>1, <1>2
<1>7. SubSeq(s, p1 + 1, p2 - 1) = b
  BY <1>1, <1>2
<1>8. SubSeq(s, p2 + 1, Len(s)) = c
  BY <1>1, <1>2
<1>9. QED
  BY <1>5, <1>6, <1>7, <1>8

\* Decrypt of the envelope Encrypt produced for a sealing, under the
\* passphrase it was produced with, returns the sealed plaintext: Split
\* gives back the three hex strings, hex decoding inverts the encoding,
\* the nonce has the length encrypt.go:54 checks, the key derived from the
\* passphrase and the nil salt is the one Seal used, and the table opens
\* the ciphertext to that plaintext alone.
LEMMA DecryptEnvelope ==
    ASSUME IInv, NEW e \in sealed
    PROVE  DecryptOf(e.by, EnvelopeOf(e)) = Returned(e.pt)
<1> DEFINE salt == HexEncode(<<>>)
           ivh == HexEncode(e.iv)
           cth == HexEncode(e.ct)
           arr == Split(EnvelopeOf(e))
           key == DeriveKey(e.by, <<>>)
<1>1. /\ e \in Sealing
      /\ e.key = key /\ Len(e.iv) = NonceSize
  BY DEF IInv, TypeOK, SealedShape
<1>2. <<>> \in Seq(0..255) /\ e.iv \in Seq(0..255) /\ e.ct \in Seq(0..255)
  BY <1>1 DEF Sealing
<1>3. salt \in Seq(HexChars) /\ ivh \in Seq(HexChars) /\ cth \in Seq(HexChars)
  BY <1>2, HexEncodeType
<1>4. arr = <<salt, ivh, cth>>
  BY <1>3, SplitEnvelope DEF EnvelopeOf, EncodeEnvelope
<1>5. /\ HexDecode(salt) = [err |-> FALSE, bytes |-> <<>>]
      /\ HexDecode(ivh) = [err |-> FALSE, bytes |-> e.iv]
      /\ HexDecode(cth) = [err |-> FALSE, bytes |-> e.ct]
  BY <1>2, HexRoundTrip
<1>6. DecryptOf(e.by, EnvelopeOf(e)) = Open(key, e.iv, e.ct)
  <2>1. Len(arr) = 3 /\ arr[1] = salt /\ arr[2] = ivh /\ arr[3] = cth
    BY <1>4
  <2>2. DecryptOf(e.by, EnvelopeOf(e)) = Unseal(e.by, arr)
    BY <2>1 DEF DecryptOf
  <2>3. QED
    BY <1>1, <1>5, <2>1, <2>2 DEF Unseal
<1>7. Open(key, e.iv, e.ct) = Returned(e.pt)
  <2> DEFINE Match(x) == x.key = key /\ x.iv = e.iv /\ x.ct = e.ct
  <2>1. Match(e)
    BY <1>1
  <2> DEFINE c == CHOOSE x \in sealed : Match(x)
  <2>2. c \in sealed /\ Match(c)
    BY <2>1
  <2>3. c.pt = e.pt
    BY <1>1, <2>2 DEF IInv, SealedFunctional
  <2>4. QED
    BY <1>1, <2>1, <2>3 DEF Open
<1>8. QED
  BY <1>6, <1>7

\* Every row holding an envelope exactly as Encrypt produced it decrypts,
\* under the passphrase it was produced with, to the plaintext sealed, in
\* every reachable state and for every instance of the constants.
THEOREM RoundTripHolds == Spec => []RoundTrip
<1>1. IInv => RoundTrip
  BY DecryptEnvelope DEF RoundTrip
<1>2. QED
  BY <1>1, InitIInv, IInvStep, PTL DEF Spec

=============================================================================
