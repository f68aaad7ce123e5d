----------------------------- MODULE MCSpvWallet -----------------------------
EXTENDS SpvWallet

\* Two paymails besides "": a paymail found under one key can be told from
\* one found under another and from the fallback.
MCPaymails == {"alice@bsv", "bob@bsv"}

\* The hypothesis of AbsCorrectlyRoundedHolds, evaluated for the widths of
\* every run: each magnitude's unit in the last place is a positive integer.
ASSUME UlpIntegralChecked == UlpIntegral
=============================================================================
