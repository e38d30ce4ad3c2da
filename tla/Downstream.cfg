CONSTANTS
    r1 = r1
    r2 = r2
    r3 = r3
    idn = idn
    utf8 = utf8
    ascii = ascii
    NoAddr = NoAddr
    Schemes <- MCSchemes
    Rcpts = {r1, r2, r3, idn, utf8}
    NonASCII = {idn, utf8}
    Ascii <- MCAscii
    Confs <- MCConfs
    MaxTries = 2
SPECIFICATION Spec
INVARIANT ToldIsHeld
INVARIANT NoNeedlessCopy
INVARIANT TLSRequired
CHECK_DEADLOCK FALSE
