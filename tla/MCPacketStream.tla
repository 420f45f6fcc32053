--------------------------- MODULE MCPacketStream ---------------------------
(***************************************************************************)
(* Instances of PacketStream for TLC.                                      *)
(***************************************************************************)
EXTENDS PacketStream

Composed(ids, data) ==
    {Compose(id, d) : id \in ids, d \in data}

Bits == {0, 1}

\* All frames of bits whose checksum is not the head byte 2.
CleanFrames ==
    {f \in Composed([1 .. IdLen -> Bits], [1 .. DataLen -> Bits]) : f[FrameLen - 1] # 2}

=============================================================================
