\* Byte values 0 .. 2 with head byte 2: any bytes at first, then all frames of a
\* neighbourhood of four lamps with isolated losses.
CONSTANTS
    ByteSize = 3
    HeadByte = 2
    IdLen = 2
    Gap = 16
    Frames <- CleanFrames
SPECIFICATION StreamSpec
INVARIANTS
    StreamTypeOK
    Resynchronises
PROPERTIES
    NoPhantomPacket
    CollectsFrames
