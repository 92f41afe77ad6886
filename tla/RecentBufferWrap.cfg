CONSTANTS
    z = z  a = a  b = b  c = c  d = d  e = e
    Nonces <- MCNonces
    Hashes <- MCNonces
    Crc <- InjectiveCrc
    ZeroHash = z
    CacheSize = 4
    CacheDiscount = 1
    MaxInt = 7
SPECIFICATION Spec

PROPERTY JustSeenRemembered
