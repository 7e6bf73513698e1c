---------------------------- MODULE MCMpqSectors ----------------------------
(* Instances of MpqSectors for TLC.                                        *)
EXTENDS MpqSectors

MCMasks == {{}, {"Deflated"}, {"Huffman", "ImaAdpcmMono"}, {"Imploded"}}
MCChains == {<<>>, <<"Deflated">>, <<"ImaAdpcmMono", "Huffman">>, <<"Imploded">>}
=============================================================================
