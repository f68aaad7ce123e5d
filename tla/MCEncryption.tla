---------------------------- MODULE MCEncryption ----------------------------
(* Small instance of Encryption for TLC: one-byte nonces and tags, bytes    *)
(* 0x0a and 0xab so that envelopes contain hex letters.                     *)
EXTENDS Encryption

MCPlaintexts == {<<>>, <<104>>}
MCByte == {10, 171}
=============================================================================
