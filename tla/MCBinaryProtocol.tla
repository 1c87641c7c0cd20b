-------------------------- MODULE MCBinaryProtocol --------------------------
(* BinaryProtocol with a stderr pipe smaller than what one slice prints.    *)
EXTENDS BinaryProtocol

MCPipeCap == 2
MCMaxNoise == 3

=============================================================================
