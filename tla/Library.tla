------------------------------ MODULE Library -------------------------------
(***************************************************************************)
(* The parts that the processes are built from, one at a time: a behaviour *)
(* is a behaviour of one of the machines below, and the other machines     *)
(* stay in their initial state.                                            *)
(***************************************************************************)
EXTENDS Trees, Fibers, CoroBackends, Imsg, Ibuf, Endpoint, Compress, Boot, Utils, Dtls, Wire

VARIABLE machine

Machines == {"trees", "fibers", "threads", "context", "imsg", "ibuf", "endpoint",
             "compress", "boot", "utils", "dtls", "wire"}

\* Each machine with the variables of the others.
Others(m) ==
    /\ UNCHANGED machine
    /\ (m = "trees" \/ UNCHANGED treesVars)
    /\ (m = "fibers" \/ UNCHANGED fibersVars)
    /\ (m = "threads" \/ UNCHANGED coroThreadVars)
    /\ (m = "context" \/ UNCHANGED contextVars)
    /\ (m = "imsg" \/ UNCHANGED imsgVars)
    /\ (m = "ibuf" \/ UNCHANGED ibufVars)
    /\ (m = "endpoint" \/ UNCHANGED endpointVars)
    /\ (m = "compress" \/ UNCHANGED compressVars)
    /\ (m = "boot" \/ UNCHANGED bootVars)
    /\ (m = "utils" \/ UNCHANGED utilsVars)
    /\ (m = "dtls" \/ UNCHANGED dtlsVars)
    /\ (m = "wire" \/ UNCHANGED wireVars)

LibraryInit ==
    /\ machine \in Machines
    /\ TreesInit /\ (machine = "trees" \/ kind = "RB")
    /\ ContextInit /\ (machine = "context" \/ backend = "amd64")
    /\ FibersInit /\ CoroThreadInit /\ ImsgInit /\ IbufInit /\ EndpointInit /\ CompressInit
    /\ BootInit /\ UtilsInit /\ DtlsInit
    /\ WireInit /\ (machine = "wire" \/ order = [sender |-> "little", receiver |-> "little"])

LibraryNext ==
    \/ machine = "trees" /\ TreesNext /\ Others("trees")
    \/ machine = "fibers" /\ FibersNext /\ Others("fibers")
    \/ machine = "threads" /\ CoroThreadNext /\ Others("threads")
    \/ machine = "context" /\ ContextNext /\ Others("context")
    \/ machine = "imsg" /\ ImsgNext /\ Others("imsg")
    \/ machine = "ibuf" /\ IbufNext /\ Others("ibuf")
    \/ machine = "endpoint" /\ EndpointNext /\ Others("endpoint")
    \/ machine = "compress" /\ CompressNext /\ Others("compress")
    \/ machine = "boot" /\ BootNext /\ Others("boot")
    \/ machine = "utils" /\ UtilsNext /\ Others("utils")
    \/ machine = "dtls" /\ DtlsNext /\ Others("dtls")
    \/ machine = "wire" /\ WireNext /\ Others("wire")

libraryVars == <<machine, treesVars, fibersVars, coroThreadVars, contextVars, imsgVars,
                 ibufVars, endpointVars, compressVars, bootVars, utilsVars, dtlsVars, wireVars>>

LibrarySpec == LibraryInit /\ [][LibraryNext]_libraryVars /\ FibersFairness
                                                         /\ CoroThreadFairness

\* The types of all machines.
LibraryTypeOK ==
    /\ machine \in Machines
    /\ TreesTypeOK /\ FibersTypeOK /\ CoroThreadTypeOK /\ ContextTypeOK /\ ImsgTypeOK
    /\ IbufTypeOK /\ EndpointTypeOK /\ CompressTypeOK /\ BootTypeOK /\ UtilsTypeOK
    /\ DtlsTypeOK /\ WireTypeOK

\* The buffers of imsg.c and imsg-buffer.c never run over, lose or repeat what
\* is in them, nor the descriptors beside it.
BuffersSound ==
    /\ DescriptorsInOrder /\ DescriptorArrivesFirst /\ ReadHasRoom
    /\ BufferHoldsContent /\ WrittenOnceInOrder /\ LeftIsRoom

\* What endpoint.c, compress.c, hexdump.c, winstrtonum.c, winstrndup.c and
\* frame.c compute is what a definition without their buffers, sizes and byte
\* orders says.
FunctionsMatchReference ==
    /\ HoldsAddress /\ ComparesAddresses /\ NamesTellApart
    /\ DeflateHasRoom /\ CompressFailsOnShort /\ SizedRoundTrip
    /\ DumpShowsEveryByte /\ StrtonumInBounds /\ StrndupIsText /\ CksumOfEveryByte
    /\ PacketIsDefined /\ FrameSurvivesWire

=============================================================================
