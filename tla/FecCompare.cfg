\* Two-byte addresses of bytes {0, 1, 255} (255 makes the byte order and
\* the sign of memcmp matter), prefix lengths 8 and 16, two pw types/ids.
CONSTANTS
  Byte = {0, 1, 255}
  AddrLen = 2
  V6Len = 2
  PrefixLen = {8, 16}
  PwType = {4, 5}
  PwId = {1, 2}
SPECIFICATION Spec
INVARIANT CompareMatchesRef
