CONSTANTS
    z = z  a = a  b = b  c = c  d = d  e = e
    Nonces <- MCNonces
    Hashes <- MCNonces
    Crc <- CollidingCrc
    ZeroHash = z
    CacheSize = 4
    CacheDiscount = 1
    MaxInt = 7
SPECIFICATION Spec

PROPERTY FreshNotFiltered
