------------------------------- MODULE MCHelpers -------------------------------
(***************************************************************************)
(* Instances of Filenames, AddressLog and OwnedMemory for TLC, in one      *)
(* process that runs one of them at a time.                                *)
(***************************************************************************)
EXTENDS Filenames, AddressLog, OwnedMemory

\* Every name, up to two characters longer than a saved name can be.
MCRawNames == UNION {[1 .. n -> Char] : n \in 0 .. MAX_FILENAME + 2}

--------------------------------------------------------------------------------
\* The masks of networks: ones, then zeros.
Mask(width, prefix) == [i \in 1 .. width |-> IF i <= prefix THEN 1 ELSE 0]
Bytes(bits) ==
    [b \in 1 .. V6Bytes |-> [k \in 1 .. ByteBits |-> bits[(b - 1) * ByteBits + k]]]

V4(ip, prefix) == [family |-> "v4", ip |-> ip, mask |-> Mask(V4Bits, prefix)]
V6(ip, prefix) ==
    [family |-> "v6", ip |-> Bytes(ip), mask |-> Bytes(Mask(V6Bytes * ByteBits, prefix))]
NoAddress == [family |-> "none"]

V4Interfaces == {V4(ip, prefix) : ip \in Address.v4, prefix \in 0 .. V4Bits}
V6Interfaces ==
    {V6(ip, prefix) : ip \in {<<0, 0, 0, 0>>, <<0, 1, 1, 0>>, <<0, 1, 1, 1>>, <<0, 1, 0, 0>>},
                      prefix \in 0 .. V6Bytes * ByteBits}

\* Two addresses of one network, a part of it, another family, no address.
SomeInterfaces ==
    {V4(<<0, 1, 0>>, 1), V4(<<0, 0, 1>>, 1), V4(<<0, 0, 1>>, 2), V6(<<0, 1, 1, 0>>, 3), NoAddress}

Lists(n, S) == [1 .. n -> S]
MCInterfaceLists ==
    {<<>>} \cup Lists(2, V4Interfaces) \cup Lists(2, V6Interfaces) \cup Lists(3, SomeInterfaces)

--------------------------------------------------------------------------------
Init == FilenamesInit /\ AddressInit /\ MemoryInit

\* A helper that has begun finishes before another begins.
Next ==
    \/ /\ lookup = "idle" /\ fetch = "idle"
       /\ FilenamesNext
       /\ UNCHANGED <<addressVars, memoryVars>>
    \/ /\ step = "idle" /\ fetch = "idle"
       /\ AddressNext
       /\ UNCHANGED <<filenameVars, memoryVars>>
    \/ /\ step = "idle" /\ lookup = "idle"
       /\ MemoryNext
       /\ UNCHANGED <<filenameVars, addressVars>>

Spec == Init /\ [][Next]_<<filenameVars, addressVars, memoryVars>>

--------------------------------------------------------------------------------
\* Whatever fails and wherever it fails, what the address thread, the repositories and
\* database_open are given by the libraries is given back, once; the struct of a single
\* row, which its documented release leaves behind, is all that is lost.
HeapReturned == LookupReturnsAll /\ CallReturnsAll
================================================================================
