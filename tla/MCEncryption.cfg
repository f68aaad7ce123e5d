CONSTANTS
    Passphrases = {p1, p2}
    Plaintexts <- MCPlaintexts
    Slots = {s1, s2}
    Byte <- MCByte
    NonceSize = 1
    TagSize = 1
    TamperChars = {"0", "-", "g"}
    MaxTamper = 1
    MaxEncrypt = 2
SPECIFICATION Spec
INVARIANTS
    TypeOK
    NeverPanics
    RoundTrip
    NoForgery
    TamperDetected
