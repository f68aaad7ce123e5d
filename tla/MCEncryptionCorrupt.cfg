CONSTANTS
    Passphrases = {p1, p2}
    Plaintexts <- MCPlaintexts
    Slots = {s1}
    Byte <- MCByte
    NonceSize = 1
    TagSize = 1
    TamperChars = {"0", "-", "g"}
    MaxTamper = 2
    MaxEncrypt = 1
SPECIFICATION Spec
INVARIANTS
    NeverPanics
    NoForgery
