-------------------------- MODULE SpvWalletProofs ---------------------------
(***************************************************************************)
(* Proofs about the spvwallet helpers, for every set of paymails and every *)
(* integer and float width.                                                *)
(***************************************************************************)
EXTENDS SpvWallet, TLAPS


\* The fields of the outcomes of a type assertion.  Citing these, rather
\* than expanding Panic and Ok where they meet unexpanded operator
\* applications, keeps the SMT encoding of those obligations typable.
LEMMA OutcomeFields ==
    /\ Panic.panic = TRUE /\ Panic.s = ""
    /\ \A x : Ok(x).panic = FALSE /\ Ok(x).s = x
  BY DEF Panic, Ok

\* Reading a key of the metadata map (if Metadata[key] != nil { ... =
\* Metadata[key].(string) }): a panic exactly on a value that is neither
\* nil nor a string, and otherwise the string, "" for nil.
LEMMA FromKeyLeaf ==
    ASSUME NEW v \in Leaf
    PROVE  FromKey(v) = IF BadLeaf(v) THEN Panic
                        ELSE Ok(IF NonEmpty(v) THEN v.s ELSE "")
<1>1. CASE v = NilV
  BY <1>1 DEF FromKey, BadLeaf, NonEmpty, NilV, Ok
<1>2. CASE v = NumV
  BY <1>2 DEF FromKey, AsString, BadLeaf, NilV, NumV
<1>3. CASE \E x \in Str : v = StrV(x)
  <2>1. PICK x \in Str : v = StrV(x)
    BY <1>3
  <2>2. v # NilV /\ v.t = "str" /\ v.s = x
    BY <2>1 DEF NilV, StrV
  <2>3. FromKey(v) = Ok(x)
    BY <2>2 DEF FromKey, AsString
  <2>4. ~BadLeaf(v) /\ (NonEmpty(v) <=> x # "")
    BY <2>2 DEF BadLeaf, NonEmpty
  <2>5. QED
    BY <2>2, <2>3, <2>4
<1>4. QED
  BY <1>1, <1>2, <1>3 DEF Leaf

\* The values a metadata map holds under its three keys.
LEMMA MetadataFields ==
    ASSUME NEW m \in Metadata
    PROVE  m.sender \in Leaf /\ m.receiver \in Leaf /\ m.p2p \in P2PValue
<1>1. NilV \in Leaf /\ Leaf \subseteq P2PValue
  BY DEF Leaf, P2PValue
<1>2. CASE m = NilMap
  BY <1>1, <1>2 DEF NilMap
<1>3. CASE m \in [present : {TRUE}, sender : Leaf, receiver : Leaf, p2p : P2PValue]
  BY <1>3
<1>4. QED
  BY <1>2, <1>3 DEF Metadata

\* The shapes of a p2p_tx_metadata value.
LEMMA P2PShapes ==
    ASSUME NEW w \in P2PValue
    PROVE  \/ w = NilV /\ w.t = "nil"
           \/ w # NilV /\ w.t \notin {"nil", "map"}
           \/ w # NilV /\ w.t = "map" /\ w.sender \in Leaf
<1>1. CASE w = NilV
  BY <1>1 DEF NilV
<1>2. CASE w = NumV
  BY <1>2 DEF NilV, NumV
<1>3. CASE \E x \in Str : w = StrV(x)
  <2>1. PICK x \in Str : w = StrV(x)
    BY <1>3
  <2>2. w.t = "str"
    BY <2>1 DEF StrV
  <2>3. w # NilV
    <3>1. NilV.t = "nil"
      BY DEF NilV
    <3>2. QED
      BY <2>2, <3>1
  <2>4. QED
    BY <2>2, <2>3
<1>4. CASE \E v \in Leaf : w = MapV(v)
  <2>1. PICK v \in Leaf : w = MapV(v)
    BY <1>4
  <2>2. w.t = "map" /\ w.sender \in Leaf
    BY <2>1 DEF MapV
  <2>3. w # NilV
    <3>1. NilV.t = "nil"
      BY DEF NilV
    <3>2. QED
      BY <2>2, <3>1
  <2>4. QED
    BY <2>2, <2>3
<1>5. QED
  BY <1>1, <1>2, <1>3, <1>4 DEF P2PValue, Leaf

\* A closed form of GetPaymailsFromMetadata, by cases on the shape of the
\* metadata rather than in the order of the reads: the sender is the first
\* non-empty paymail under "sender", then under p2p_tx_metadata's "sender";
\* the fallback fills the caller's own side; a value of the wrong type
\* among those the search inspects makes the call panic.
RefSender(m, dir, fb) ==
    IF NonEmpty(m.sender) THEN m.sender.s
    ELSE IF m.p2p.t = "map" /\ NonEmpty(m.p2p.sender) THEN m.p2p.sender.s
    ELSE IF dir = "outgoing" THEN fb ELSE ""
RefReceiver(m, dir, fb) ==
    IF NonEmpty(m.receiver) THEN m.receiver.s
    ELSE IF dir = "incoming" THEN fb ELSE ""
RefPanics(m) ==
    \/ BadLeaf(m.sender) \/ BadLeaf(m.receiver)
    \/ /\ ~NonEmpty(m.sender)
       /\ \/ m.p2p.t \notin {"nil", "map"}
          \/ m.p2p.t = "map" /\ BadLeaf(m.p2p.sender)
Reference(tx, fb) ==
    IF tx.isNil THEN [panic |-> FALSE, pair |-> <<"", "">>]
    ELSE IF RefPanics(tx.metadata) THEN [panic |-> TRUE, pair |-> <<"", "">>]
    ELSE [panic |-> FALSE,
          pair |-> <<RefSender(tx.metadata, tx.direction, fb),
                     RefReceiver(tx.metadata, tx.direction, fb)>>]

\* GetPaymailsFromMetadata equals its closed form on a nil transaction
\* and on every metadata shape.
LEMMA PaymailsMatchReference ==
    ASSUME NEW tx \in Transactions, NEW fb \in Str
    PROVE  GetPaymailsFromMetadata(tx, fb) = Reference(tx, fb)
<1>1. CASE tx = NilTx
  BY <1>1 DEF GetPaymailsFromMetadata, Reference, NilTx
<1>2. CASE tx \in [isNil : {FALSE}, metadata : Metadata, direction : Directions]
  <2> DEFINE m == tx.metadata
             dir == tx.direction
             S == IF NonEmpty(m.sender) THEN m.sender.s ELSE ""
             R == IF NonEmpty(m.receiver) THEN m.receiver.s ELSE ""
  <2>1. ~tx.isNil /\ m \in Metadata
    BY OutcomeFields, <1>2
  <2>2. m.sender \in Leaf /\ m.receiver \in Leaf /\ m.p2p \in P2PValue
    BY OutcomeFields, <2>1, MetadataFields
  <2>3. /\ FromKey(m.sender) = IF BadLeaf(m.sender) THEN Panic ELSE Ok(S)
        /\ FromKey(m.receiver) = IF BadLeaf(m.receiver) THEN Panic ELSE Ok(R)
    BY OutcomeFields, <2>2, FromKeyLeaf
  <2>4. /\ NonEmpty(m.sender) => S # ""
        /\ (R = "") <=> ~NonEmpty(m.receiver)
    BY OutcomeFields DEF NonEmpty
  <2>5. CASE BadLeaf(m.sender) \/ BadLeaf(m.receiver)
    BY OutcomeFields, <2>1, <2>3, <2>5 DEF GetPaymailsFromMetadata, Reference, RefPanics
  <2>6. CASE ~BadLeaf(m.sender) /\ ~BadLeaf(m.receiver) /\ NonEmpty(m.sender)
    <3>1. P2PSender(m, Ok(S)) = Ok(S)
      BY OutcomeFields, <2>4, <2>6 DEF P2PSender
    <3>2. GetPaymailsFromMetadata(tx, fb) = [panic |-> FALSE, pair |-> Fill(dir, S, R, fb)]
      BY OutcomeFields, <2>1, <2>3, <2>6, <3>1 DEF GetPaymailsFromMetadata
    <3>3. Reference(tx, fb) = [panic |-> FALSE,
                               pair |-> <<RefSender(m, dir, fb), RefReceiver(m, dir, fb)>>]
      BY OutcomeFields, <2>1, <2>6 DEF Reference, RefPanics
    <3>4. Fill(dir, S, R, fb) = <<RefSender(m, dir, fb), RefReceiver(m, dir, fb)>>
      BY <2>4, <2>6 DEF Fill, RefSender, RefReceiver
    <3>5. QED
      BY <3>2, <3>3, <3>4
  <2>7. CASE ~BadLeaf(m.sender) /\ ~BadLeaf(m.receiver) /\ ~NonEmpty(m.sender)
    <3>1. S = ""
      BY OutcomeFields, <2>7
    <3>2. CASE m.p2p = NilV /\ m.p2p.t = "nil"
      <4>1. P2PSender(m, Ok("")) = Ok("")
        BY OutcomeFields, <3>2 DEF P2PSender
      <4>2. GetPaymailsFromMetadata(tx, fb) = [panic |-> FALSE, pair |-> Fill(dir, "", R, fb)]
        BY OutcomeFields, <2>1, <2>3, <2>7, <3>1, <4>1 DEF GetPaymailsFromMetadata
      <4>3. Reference(tx, fb) = [panic |-> FALSE,
                                 pair |-> <<RefSender(m, dir, fb), RefReceiver(m, dir, fb)>>]
        BY OutcomeFields, <2>1, <2>7, <3>2 DEF Reference, RefPanics
      <4>4. Fill(dir, "", R, fb) = <<RefSender(m, dir, fb), RefReceiver(m, dir, fb)>>
        BY <2>4, <2>7, <3>2 DEF Fill, RefSender, RefReceiver
      <4>5. QED
        BY <4>2, <4>3, <4>4
    <3>3. CASE m.p2p # NilV /\ m.p2p.t \notin {"nil", "map"}
      <4>1. P2PSender(m, Ok("")) = Panic
        BY OutcomeFields, <3>3 DEF P2PSender
      <4>2. GetPaymailsFromMetadata(tx, fb) = [panic |-> TRUE, pair |-> <<"", "">>]
        BY OutcomeFields, <2>1, <2>3, <2>7, <3>1, <4>1 DEF GetPaymailsFromMetadata
      <4>3. QED
        BY OutcomeFields, <2>1, <2>7, <3>3, <4>2 DEF Reference, RefPanics
    <3>4. CASE m.p2p # NilV /\ m.p2p.t = "map" /\ m.p2p.sender \in Leaf
      <4> DEFINE ps == m.p2p.sender
                 P == IF NonEmpty(ps) THEN ps.s ELSE ""
      <4>1. P2PSender(m, Ok("")) = FromKey(ps)
        BY OutcomeFields, <3>4 DEF P2PSender, FromKey
      <4>2. FromKey(ps) = IF BadLeaf(ps) THEN Panic ELSE Ok(P)
        BY OutcomeFields, <3>4, FromKeyLeaf
      <4>3. CASE BadLeaf(ps)
        <5>1. GetPaymailsFromMetadata(tx, fb) = [panic |-> TRUE, pair |-> <<"", "">>]
          BY OutcomeFields, <2>1, <2>3, <2>7, <3>1, <4>1, <4>2, <4>3 DEF GetPaymailsFromMetadata
        <5>2. QED
          BY OutcomeFields, <2>1, <2>7, <3>4, <4>3, <5>1 DEF Reference, RefPanics
      <4>4. CASE ~BadLeaf(ps)
        <5>1. GetPaymailsFromMetadata(tx, fb) = [panic |-> FALSE, pair |-> Fill(dir, P, R, fb)]
          BY OutcomeFields, <2>1, <2>3, <2>7, <3>1, <4>1, <4>2, <4>4 DEF GetPaymailsFromMetadata
        <5>2. Reference(tx, fb) = [panic |-> FALSE,
                                   pair |-> <<RefSender(m, dir, fb), RefReceiver(m, dir, fb)>>]
          BY OutcomeFields, <2>1, <2>7, <3>4, <4>4 DEF Reference, RefPanics
        <5>3. (P = "") <=> ~NonEmpty(ps)
          BY OutcomeFields DEF NonEmpty
        <5>4. Fill(dir, P, R, fb) = <<RefSender(m, dir, fb), RefReceiver(m, dir, fb)>>
          BY <2>4, <2>7, <3>4, <5>3 DEF Fill, RefSender, RefReceiver
        <5>5. QED
          BY <5>1, <5>2, <5>4
      <4>5. QED
        BY OutcomeFields, <4>3, <4>4
    <3>5. QED
      BY OutcomeFields, <2>2, <3>2, <3>3, <3>4, P2PShapes
  <2>8. QED
    BY OutcomeFields, <2>5, <2>6, <2>7
<1>3. QED
  BY <1>1, <1>2 DEF Transactions
\* The doc comment's contract on the pair a call returns: each side holds
\* the paymail found for it, or "" or the fallback when none is found.
PairKept(pair, m, fb) ==
    \A i \in 1..2 :
        IF Found(m)[i] # "" THEN pair[i] = Found(m)[i] ELSE pair[i] \in {"", fb}

\* The closed form keeps found paymails, and panics only on metadata that
\* is not well typed.
LEMMA ReferenceContract ==
    ASSUME NEW tx \in Transactions, NEW fb \in Str
    PROVE  /\ WellTyped(tx.metadata) => ~Reference(tx, fb).panic
           /\ ~Reference(tx, fb).panic => PairKept(Reference(tx, fb).pair, tx.metadata, fb)
<1>1. CASE tx = NilTx
  <2>1. tx.metadata = NilMap /\ Reference(tx, fb) = [panic |-> FALSE, pair |-> <<"", "">>]
    BY <1>1 DEF Reference, NilTx
  <2>2. Found(NilMap) = <<"", "">>
    BY DEF Found, SenderFound, ReceiverFound, NonEmpty, NilMap, NilV
  <2>3. PairKept(<<"", "">>, NilMap, fb)
    BY <2>2 DEF PairKept
  <2>4. ~Reference(tx, fb).panic /\ Reference(tx, fb).pair = <<"", "">>
    BY <1>1 DEF Reference, NilTx
  <2>5. QED
    BY <2>1, <2>3, <2>4, Zenon
<1>2. CASE tx \in [isNil : {FALSE}, metadata : Metadata, direction : Directions]
  <2> DEFINE m == tx.metadata
             dir == tx.direction
  <2>1. ~tx.isNil
    BY <1>2
  <2>2. WellTyped(m) => ~RefPanics(m)
    BY DEF WellTyped, RefPanics
  <2>3. RefPanics(m) => Reference(tx, fb).panic
    BY <2>1 DEF Reference
  <2>4. ~RefPanics(m) =>
          Reference(tx, fb) = [panic |-> FALSE,
                               pair |-> <<RefSender(m, dir, fb), RefReceiver(m, dir, fb)>>]
    BY <2>1 DEF Reference
  <2>5. RefSender(m, dir, fb) = IF SenderFound(m) # "" THEN SenderFound(m)
                                ELSE IF dir = "outgoing" THEN fb ELSE ""
    BY DEF RefSender, SenderFound, NonEmpty
  <2>6. RefReceiver(m, dir, fb) = IF ReceiverFound(m) # "" THEN ReceiverFound(m)
                                  ELSE IF dir = "incoming" THEN fb ELSE ""
    BY DEF RefReceiver, ReceiverFound, NonEmpty
  <2>7. PairKept(<<RefSender(m, dir, fb), RefReceiver(m, dir, fb)>>, m, fb)
    <3> SUFFICES ASSUME NEW i \in 1..2
                 PROVE  LET pair == <<RefSender(m, dir, fb), RefReceiver(m, dir, fb)>>
                        IN  IF Found(m)[i] # "" THEN pair[i] = Found(m)[i]
                            ELSE pair[i] \in {"", fb}
      BY DEF PairKept
    <3>1. i = 1 \/ i = 2
      OBVIOUS
    <3>2. Found(m)[1] = SenderFound(m) /\ Found(m)[2] = ReceiverFound(m)
      BY DEF Found
    <3> DEFINE pair == <<RefSender(m, dir, fb), RefReceiver(m, dir, fb)>>
    <3>3. pair[1] = RefSender(m, dir, fb) /\ pair[2] = RefReceiver(m, dir, fb)
      OBVIOUS
    <3>4. IF SenderFound(m) # "" THEN RefSender(m, dir, fb) = SenderFound(m)
          ELSE RefSender(m, dir, fb) \in {"", fb}
      BY <2>5
    <3>5. IF ReceiverFound(m) # "" THEN RefReceiver(m, dir, fb) = ReceiverFound(m)
          ELSE RefReceiver(m, dir, fb) \in {"", fb}
      BY <2>6
    <3>6. CASE i = 1
      BY <3>6, <3>2, <3>3, <3>4, Zenon
    <3>7. CASE i = 2
      BY <3>7, <3>2, <3>3, <3>5, Zenon
    <3>8. QED
      BY <3>1, <3>6, <3>7
  <2>8. ~RefPanics(m) => /\ ~Reference(tx, fb).panic
                         /\ Reference(tx, fb).pair = <<RefSender(m, dir, fb), RefReceiver(m, dir, fb)>>
    <3> HAVE ~RefPanics(m)
    <3>1. ~Reference(tx, fb).panic
      BY <2>1 DEF Reference
    <3>2. Reference(tx, fb).pair = <<RefSender(m, dir, fb), RefReceiver(m, dir, fb)>>
      BY <2>1, Zenon DEF Reference
    <3>3. QED
      BY <3>1, <3>2
  <2>9. QED
    BY <2>2, <2>3, <2>7, <2>8, Zenon
<1>3. QED
  BY <1>1, <1>2 DEF Transactions

\* What a call of GetPaymailsFromMetadata records: its inputs and the
\* closed form's outcome.
LEMMA CallRecords ==
    ASSUME NEW tx \in Transactions, NEW fb \in Str, CallGetPaymails(tx, fb)
    PROVE  /\ last'.fn = "paymails" /\ last'.tx = tx /\ last'.fb = fb
           /\ last'.out = Reference(tx, fb)
<1>1. GetPaymailsFromMetadata(tx, fb) = Reference(tx, fb)
  BY PaymailsMatchReference
<1>2. QED
  BY <1>1 DEF CallGetPaymails

\* The first invariant the paymails run checks, for every set of paymails:
\* whenever GetPaymailsFromMetadata returns, it returns the paymails found
\* in the metadata, the fallback filling only a side where none was found.
THEOREM MetadataPaymailsKeptHolds == Spec => []MetadataPaymailsKept
<1>1. Init => MetadataPaymailsKept
  <2>1. Init => last.fn # "paymails"
    BY DEF Init, NoCall
  <2>2. QED
    BY <2>1 DEF MetadataPaymailsKept
<1>2. MetadataPaymailsKept /\ [Next]_last => MetadataPaymailsKept'
  <2> SUFFICES ASSUME MetadataPaymailsKept, [Next]_last
               PROVE  MetadataPaymailsKept'
    OBVIOUS
  <2>1. CASE \E tx \in Transactions, fb \in Str : CallGetPaymails(tx, fb)
    <3>1. PICK tx \in Transactions, fb \in Str : CallGetPaymails(tx, fb)
      BY <2>1
    <3>2. ~Reference(tx, fb).panic => PairKept(Reference(tx, fb).pair, tx.metadata, fb)
      BY ReferenceContract
    <3>3. QED
      BY <3>1, <3>2, CallRecords DEF MetadataPaymailsKept, PairKept
  <2>2. CASE \E v \in Int64 : CallGetAbsoluteValue(v)
    <3>1. last'.fn # "paymails"
      BY <2>2 DEF CallGetAbsoluteValue
    <3>2. QED
      BY <3>1 DEF MetadataPaymailsKept
  <2>3. CASE UNCHANGED last
    BY <2>3 DEF MetadataPaymailsKept
  <2>4. QED
    BY <2>1, <2>2, <2>3 DEF Next
<1>3. QED
  BY <1>1, <1>2, PTL DEF Spec

\* The second invariant the paymails run checks, for every set of paymails:
\* the unchecked type assertions never panic on well-typed metadata.
THEOREM WellTypedNeverPanicsHolds == Spec => []WellTypedNeverPanics
<1>1. Init => WellTypedNeverPanics
  <2>1. Init => last.fn # "paymails"
    BY DEF Init, NoCall
  <2>2. QED
    BY <2>1 DEF WellTypedNeverPanics
<1>2. WellTypedNeverPanics /\ [Next]_last => WellTypedNeverPanics'
  <2> SUFFICES ASSUME WellTypedNeverPanics, [Next]_last
               PROVE  WellTypedNeverPanics'
    OBVIOUS
  <2>1. CASE \E tx \in Transactions, fb \in Str : CallGetPaymails(tx, fb)
    <3>1. PICK tx \in Transactions, fb \in Str : CallGetPaymails(tx, fb)
      BY <2>1
    <3>2. WellTyped(tx.metadata) => ~Reference(tx, fb).panic
      BY ReferenceContract
    <3>3. QED
      BY <3>1, <3>2, CallRecords DEF WellTypedNeverPanics
  <2>2. CASE \E v \in Int64 : CallGetAbsoluteValue(v)
    <3>1. last'.fn # "paymails"
      BY <2>2 DEF CallGetAbsoluteValue
    <3>2. QED
      BY <3>1 DEF WellTypedNeverPanics
  <2>3. CASE UNCHANGED last
    BY <2>3 DEF WellTypedNeverPanics
  <2>4. QED
    BY <2>1, <2>2, <2>3 DEF Next
<1>3. QED
  BY <1>1, <1>2, PTL DEF Spec

-----------------------------------------------------------------------------
(* getAbsoluteValue                                                        *)

\* The rounding step of RoundToFloat: for any positive unit u, rounding a
\* to a multiple of u, up when the remainder is above half a unit or
\* exactly half with an odd quotient, lands within half a unit of a.
LEMMA RoundWithinHalfUnit ==
    ASSUME NEW a \in Nat, NEW u \in Nat \ {0}
    PROVE  LET q == a \div u
               r == a % u
               f == IF 2 * r > u \/ (2 * r = u /\ q % 2 = 1) THEN (q + 1) * u ELSE q * u
           IN  f \in Nat /\ 2 * Abs(f - a) <= u
<1> DEFINE q == a \div u
           r == a % u
<1>1. a = q * u + r /\ r \in 0 .. u - 1 /\ q \in Nat
  OBVIOUS
<1>2. CASE 2 * r > u \/ (2 * r = u /\ q % 2 = 1)
  <2>1. (q + 1) * u - a = u - r /\ 2 * (u - r) <= u /\ (q + 1) * u \in Nat
    BY <1>1, <1>2
  <2>2. QED
    BY <1>2, <2>1 DEF Abs
<1>3. CASE ~(2 * r > u \/ (2 * r = u /\ q % 2 = 1))
  <2>1. a - q * u = r /\ 2 * r <= u /\ q * u \in Nat
    BY <1>1, <1>3
  <2>2. QED
    BY <1>3, <2>1 DEF Abs
<1>4. QED
  BY <1>2, <1>3

\* float64(a) for a non-negative amount is within half a unit in the last
\* place of a, provided that unit is a positive integer.
LEMMA RoundToFloatWithinHalfUlp ==
    ASSUME NEW a \in Nat, Ulp(a) \in Nat \ {0}
    PROVE  RoundToFloat(a) \in Nat /\ 2 * Abs(RoundToFloat(a) - a) <= Ulp(a)
<1>1. CASE a < 2^Mantissa
  BY <1>1 DEF RoundToFloat, Abs
<1>2. CASE ~(a < 2^Mantissa)
  <2> DEFINE u == 2^(Log2Floor(a) - Mantissa + 1)
  <2>1. u \in Nat \ {0} /\ Ulp(a) = u
    BY <1>2 DEF Ulp
  <2>2. RoundToFloat(a) =
          LET q == a \div u
              r == a % u
          IN  IF 2 * r > u \/ (2 * r = u /\ q % 2 = 1) THEN (q + 1) * u ELSE q * u
    BY <1>2 DEF RoundToFloat
  <2>3. QED
    BY <2>1, <2>2, RoundWithinHalfUnit
<1>3. QED
  BY <1>1, <1>2

\* uint64(math.Abs(float64(value))) is float64(|value|): the conversion
\* rounds a negative amount to the negation of its magnitude's rounding.
LEMMA AbsoluteValueIsRounded ==
    ASSUME NEW v \in Int, Ulp(Abs(v)) \in Nat \ {0}
    PROVE  getAbsoluteValue(v) = RoundToFloat(Abs(v))
<1>1. Abs(v) \in Nat
  BY DEF Abs
<1>2. RoundToFloat(Abs(v)) \in Nat
  BY <1>1, RoundToFloatWithinHalfUlp
<1>3. CASE v < 0
  BY <1>2, <1>3 DEF getAbsoluteValue, Abs
<1>4. CASE ~(v < 0)
  BY <1>2, <1>4 DEF getAbsoluteValue, Abs
<1>5. QED
  BY <1>3, <1>4

\* The invariant the abs run checks: the last call of getAbsoluteValue
\* returned |value| correctly rounded, within half a unit in the last place,
\* for every integer and float width for which UlpIntegral holds.
THEOREM AbsCorrectlyRoundedHolds ==
    ASSUME UlpIntegral
    PROVE  Spec => []AbsCorrectlyRounded
<1>1. Init => AbsCorrectlyRounded
  BY DEF Init, NoCall, AbsCorrectlyRounded
<1>2. AbsCorrectlyRounded /\ [Next]_last => AbsCorrectlyRounded'
  <2> SUFFICES ASSUME AbsCorrectlyRounded, [Next]_last
               PROVE  AbsCorrectlyRounded'
    OBVIOUS
  <2>1. CASE \E tx \in Transactions, fb \in Str : CallGetPaymails(tx, fb)
    BY <2>1 DEF CallGetPaymails, AbsCorrectlyRounded
  <2>2. CASE \E v \in Int64 : CallGetAbsoluteValue(v)
    <3>1. PICK v \in Int64 : CallGetAbsoluteValue(v)
      BY <2>2
    <3>2. v \in Int
      BY DEF Int64
    <3>3. Ulp(Abs(v)) \in Nat \ {0}
      BY DEF UlpIntegral
    <3>4. getAbsoluteValue(v) = RoundToFloat(Abs(v))
      BY <3>2, <3>3, AbsoluteValueIsRounded
    <3>5. 2 * Abs(RoundToFloat(Abs(v)) - Abs(v)) <= Ulp(Abs(v))
      <4>1. Abs(v) \in Nat
        BY <3>2 DEF Abs
      <4>2. QED
        BY <3>3, <4>1, RoundToFloatWithinHalfUlp
    <3>6. last'.fn = "abs" /\ last'.v = v /\ last'.out = RoundToFloat(Abs(v))
      BY <3>1, <3>4 DEF CallGetAbsoluteValue
    <3>7. QED
      BY <3>5, <3>6 DEF AbsCorrectlyRounded
  <2>3. CASE UNCHANGED last
    BY <2>3 DEF AbsCorrectlyRounded
  <2>4. QED
    BY <2>1, <2>2, <2>3 DEF Next
<1>3. QED
  BY <1>1, <1>2, PTL DEF Spec

=============================================================================
