------------------------------ MODULE SpvWallet ------------------------------
(***************************************************************************)
(* Model of the spvwallet helpers (src/unnamed/part_003):                  *)
(* GetPaymailsFromMetadata, which reads the sender and receiver paymails   *)
(* of a wallet transaction from its JSON metadata, and getAbsoluteValue,   *)
(* which takes an int64 amount through float64 to a uint64.                *)
(*                                                                         *)
(* A metadata value (interface{} decoded from JSON) is a record tagged by  *)
(* its dynamic type: nil, a string, a non-string (a number, a bool, an     *)
(* array) or, for p2p_tx_metadata, a nested map holding a sender value.    *)
(* A type assertion .(string) or .(map[string]interface{}) on a value of   *)
(* another type panics, as in Go.                                          *)
(*                                                                         *)
(* Integers are scaled down: int64 is an IntWidth-bit two's-complement     *)
(* integer and float64 keeps Mantissa significant bits (53 in Go), so the  *)
(* rounding of the int-to-float conversion happens within TLC's range.     *)
(*                                                                         *)
(* The functions are pure; the state machine is a caller that calls either *)
(* with any input and records the last call and its outcome.               *)
(***************************************************************************)
EXTENDS Integers

CONSTANTS
    Paymails,   \* non-empty paymail strings metadata and callers may hold
    IntWidth,   \* bits of the signed amount (64 in Go)
    Mantissa    \* significant bits of the float (53 in Go)

ASSUME SpvWalletAssumption ==
    /\ Paymails # {} /\ "" \notin Paymails
    /\ IntWidth \in Nat \ {0}
    /\ Mantissa \in 1..IntWidth

VARIABLE last  \* the last call: its input and its outcome

-----------------------------------------------------------------------------
(* Metadata values and transactions                                        *)

Str == Paymails \cup {""}

NilV == [t |-> "nil"]
StrV(s) == [t |-> "str", s |-> s]
NumV == [t |-> "num"]
MapV(v) == [t |-> "map", sender |-> v]

\* A value a JSON map may hold under "sender" or "receiver".
Leaf == {NilV, NumV} \cup {StrV(s) : s \in Str}
\* A value under "p2p_tx_metadata": any leaf, or a map with a sender.
P2PValue == Leaf \cup {MapV(v) : v \in Leaf}

\* transaction.Metadata: a nil map reads nil under every key.
NilMap == [present |-> FALSE, sender |-> NilV, receiver |-> NilV, p2p |-> NilV]
Metadata == {NilMap} \cup
            [present : {TRUE}, sender : Leaf, receiver : Leaf, p2p : P2PValue]

Directions == {"incoming", "outgoing", "other"}

NilTx == [isNil |-> TRUE, metadata |-> NilMap, direction |-> "other"]
Transactions == {NilTx} \cup
                [isNil : {FALSE}, metadata : Metadata, direction : Directions]

\* The result of a type assertion, or of a whole call: a panic or a value.
Panic == [panic |-> TRUE, s |-> ""]
Ok(s) == [panic |-> FALSE, s |-> s]

\* v.(string)
AsString(v) == IF v.t = "str" THEN Ok(v.s) ELSE Panic

-----------------------------------------------------------------------------
(* GetPaymailsFromMetadata                                                 *)

\* Mutant: the nil check before the type assertion left out.
FromKeyNoNilCheck(v) == AsString(v)

\* if Metadata[key] != nil { paymail = Metadata[key].(string) }
FromKey(v) == IF v # NilV THEN AsString(v) ELSE Ok("")

\* Mutant: p2p_tx_metadata consulted even when the sender key gave a paymail.
P2PSenderAlways(m, snd) ==
    IF snd.panic THEN snd
    ELSE IF m.p2p = NilV THEN snd
    ELSE IF m.p2p.t # "map" THEN Panic
    ELSE IF m.p2p.sender # NilV THEN AsString(m.p2p.sender)
    ELSE snd

\* if senderPaymail == "" and p2p_tx_metadata != nil: assert it is a map
\* and take its sender, if it has one.
P2PSender(m, snd) ==
    IF snd.panic \/ snd.s # "" THEN snd
    ELSE IF m.p2p = NilV THEN snd
    ELSE IF m.p2p.t # "map" THEN Panic
    ELSE IF m.p2p.sender # NilV THEN AsString(m.p2p.sender)
    ELSE snd

\* The fallback paymail fills the caller's own side when metadata left it
\* empty: the receiver of an incoming, the sender of an outgoing payment.
Fill(dir, snd, rcv, fb) ==
    IF dir = "incoming" /\ rcv = "" THEN <<snd, fb>>
    ELSE IF dir = "outgoing" /\ snd = "" THEN <<fb, rcv>>
    ELSE <<snd, rcv>>

\* GetPaymailsFromMetadata(transaction, fallbackPaymail): a panic, or the
\* pair <<sender, receiver>>.  The keys are read in the code's order, so
\* the first failing assertion is the one that panics.
GetPaymailsFromMetadata(tx, fb) ==
    IF tx.isNil THEN [panic |-> FALSE, pair |-> <<"", "">>]
    ELSE LET m == tx.metadata
             snd1 == FromKey(m.sender)
             rcv == IF snd1.panic THEN Panic ELSE FromKey(m.receiver)
             snd == IF rcv.panic THEN Panic ELSE P2PSender(m, snd1)
         IN  IF snd.panic THEN [panic |-> TRUE, pair |-> <<"", "">>]
             ELSE [panic |-> FALSE, pair |-> Fill(tx.direction, snd.s, rcv.s, fb)]

-----------------------------------------------------------------------------
(* getAbsoluteValue                                                        *)

Int64 == -(2^(IntWidth - 1)) .. 2^(IntWidth - 1) - 1

\* The exponent of the leading bit of a positive integer below 2^IntWidth.
Log2Floor(a) == CHOOSE e \in 0..IntWidth : 2^e <= a /\ a < 2^(e + 1)

\* float64(a) for a >= 0: exact below 2^Mantissa, otherwise rounded to the
\* nearest multiple of the unit in the last place, ties to even (the
\* hardware conversion Go emits uses the default rounding mode).
RoundToFloat(a) ==
    IF a < 2^Mantissa THEN a
    ELSE LET u == 2^(Log2Floor(a) - Mantissa + 1)
             q == a \div u
             r == a % u
         IN  IF 2 * r > u \/ (2 * r = u /\ q % 2 = 1) THEN (q + 1) * u ELSE q * u

\* Mutant: math.Abs left out; uint64 of a negative float wraps.
getAbsoluteValueNoAbs(v) ==
    LET f == IF v < 0 THEN -RoundToFloat(-v) ELSE RoundToFloat(v)
    IN  f % 2^IntWidth

\* uint64(math.Abs(float64(value))): the conversion rounds symmetrically,
\* math.Abs drops the sign, and the integral float converts back exactly.
getAbsoluteValue(v) ==
    LET f == IF v < 0 THEN -RoundToFloat(-v) ELSE RoundToFloat(v)
    IN  IF f < 0 THEN -f ELSE f

-----------------------------------------------------------------------------
(* The caller                                                              *)

NoCall == [fn |-> "none"]

Init == last = NoCall

CallGetPaymails(tx, fb) ==
    last' = [fn |-> "paymails", tx |-> tx, fb |-> fb,
             out |-> GetPaymailsFromMetadata(tx, fb)]

CallGetAbsoluteValue(v) ==
    last' = [fn |-> "abs", v |-> v, out |-> getAbsoluteValue(v)]

Next ==
    \/ \E tx \in Transactions, fb \in Str : CallGetPaymails(tx, fb)
    \/ \E v \in Int64 : CallGetAbsoluteValue(v)

Spec == Init /\ [][Next]_last

-----------------------------------------------------------------------------
(* Properties                                                              *)

TypeOK ==
    \/ last = NoCall
    \/ /\ last.fn = "paymails"
       /\ last.tx \in Transactions /\ last.fb \in Str
       /\ last.out \in [panic : BOOLEAN, pair : Str \X Str]
    \/ /\ last.fn = "abs"
       /\ last.v \in Int64 /\ last.out \in 0..2^IntWidth - 1

NonEmpty(v) == v.t = "str" /\ v.s # ""
BadLeaf(v) == v.t \notin {"nil", "str"}

\* The paymails the metadata holds, where the code looks for them: the
\* sender under "sender" or else under p2p_tx_metadata's "sender", the
\* receiver under "receiver"; "" where none is found.
SenderFound(m) ==
    IF NonEmpty(m.sender) THEN m.sender.s
    ELSE IF m.p2p.t = "map" /\ NonEmpty(m.p2p.sender) THEN m.p2p.sender.s
    ELSE ""
ReceiverFound(m) == IF NonEmpty(m.receiver) THEN m.receiver.s ELSE ""
Found(m) == <<SenderFound(m), ReceiverFound(m)>>

\* The doc comment's first sentence: GetPaymailsFromMetadata returns the
\* sender and receiver paymails from metadata.  Whenever it returns, each
\* side holds the paymail found for it, and a side with none found holds ""
\* or the fallback: the fallback never overwrites a found paymail, and the
\* p2p_tx_metadata sender never overrides the "sender" key.
MetadataPaymailsKept ==
    last.fn = "paymails" /\ ~last.out.panic =>
        \A i \in 1..2 :
            LET found == Found(last.tx.metadata)[i]
            IN  IF found # "" THEN last.out.pair[i] = found
                ELSE last.out.pair[i] \in {"", last.fb}

\* Metadata as SPV Wallet writes it: nil or a string under each key, a map
\* (or nothing) under p2p_tx_metadata.
WellTyped(m) ==
    /\ ~BadLeaf(m.sender) /\ ~BadLeaf(m.receiver)
    /\ m.p2p.t \in {"nil", "map"}
    /\ m.p2p.t = "map" => ~BadLeaf(m.p2p.sender)

\* The unchecked type assertions (lines 22, 25, 31, 33) panic only on a
\* value of the wrong dynamic type: on well-typed metadata, a nil key
\* included, GetPaymailsFromMetadata always returns.
WellTypedNeverPanics ==
    last.fn = "paymails" /\ WellTyped(last.tx.metadata) => ~last.out.panic

\* The doc comment's second sentence, for a transaction (the nil one
\* returns early by an explicit guard): "If no paymail was found in
\* metadata, fallback paymail is returned."
FallbackWhenNoneFound ==
    (/\ last.fn = "paymails" /\ ~last.out.panic /\ ~last.tx.isNil
     /\ Found(last.tx.metadata) = <<"", "">> /\ last.fb # "")
        => last.fb \in {last.out.pair[1], last.out.pair[2]}

Abs(v) == IF v < 0 THEN -v ELSE v

\* The unit in the last place of a float of magnitude a.
Ulp(a) == IF a < 2^Mantissa THEN 1 ELSE 2^(Log2Floor(a) - Mantissa + 1)

\* The unit in the last place of the magnitude of every int64 amount is a
\* positive integer: a fact about 2^e and the exponent Log2Floor chooses,
\* which the proofs take as a hypothesis and TLC evaluates.
UlpIntegral == \A v \in Int64 : Ulp(Abs(v)) \in Nat \ {0}

\* getAbsoluteValue is |value| correctly rounded to the float: within half
\* a unit in the last place of |value|, so exact up to 2^53 in Go, negative
\* amounts included.
AbsCorrectlyRounded ==
    last.fn = "abs" => 2 * Abs(last.out - Abs(last.v)) <= Ulp(Abs(last.v))

\* The name's promise: getAbsoluteValue returns |value| for every int64.
AbsExact == last.fn = "abs" => last.out = Abs(last.v)

=============================================================================
