------------------------------- MODULE AddressLog -------------------------------
(***************************************************************************)
(* log_addresses_worker (Server.c): the host's addresses, one per subnet   *)
(* (get_server_ip_addresses), then the public one from the router          *)
(* (get_public_ip_upnp) or from a service (get_public_ip_http).            *)
(*                                                                         *)
(* An IPv4 address is V4Bits bits, an IPv6 address V6Bytes bytes of        *)
(* ByteBits bits, the highest first; a text stands for what it spells: a   *)
(* subnet, or an address and its prefix.  What the worker borrows from the *)
(* C library and from libcurl and miniupnpc is in held until it is freed.  *)
(***************************************************************************)
EXTENDS Integers, Sequences, FiniteSets

CONSTANTS
    V4Bits,          \* 32
    V6Bytes,         \* 16
    ByteBits,        \* 8
    ListCapacity,    \* of a list's first allocation: 8
    InterfaceLists   \* what getifaddrs may return

Bit == {0, 1}
Byte == [1 .. ByteBits -> Bit]
Address == [v4 |-> [1 .. V4Bits -> Bit], v6 |-> [1 .. V6Bytes -> Byte]]

\* family "none": the node has no address, no mask, or another family.
Addressable(f) == f.family \in {"v4", "v6"}
IsInterface(f) ==
    Addressable(f) => f.ip \in Address[f.family] /\ f.mask \in Address[f.family]

\* An IPv4 mask as systems have them: no one behind a zero.
Contiguous(mask) == \A m, n \in DOMAIN mask : m <= n => mask[n] <= mask[m]

ASSUME AddressLogAssumption ==
    /\ V4Bits \in Nat \ {0} /\ V6Bytes \in Nat \ {0} /\ ByteBits \in Nat \ {0}
    /\ ListCapacity \in Nat \ {0}
    /\ \A list \in InterfaceLists :
          /\ Len(list) \in Nat /\ DOMAIN list = 1 .. Len(list)
          /\ \A i \in DOMAIN list :
                IsInterface(list[i]) /\ (list[i].family = "v4" => Contiguous(list[i].mask))

VARIABLES
    lookup,       \* where the worker is, "idle" before and after it
    interfaces,   \* the list of getifaddrs
    ifa,          \* the node the scan is at
    seen,         \* the keys of the subnets met
    result,       \* the entries to be printed
    dropped,      \* the subnets for which an allocation failed (a history variable)
    held,         \* what has been allocated and not freed
    overfreed     \* something was freed that was not held

scanVars == <<interfaces, ifa, seen, result, dropped>>
addressVars == <<lookup, scanVars, held, overfreed>>

\* A NULL array; push_ip's array, its capacity and its strings are one value.
NoList == [capacity |-> 0, items |-> <<>>]
InList(list, text) == \E i \in DOMAIN list.items : list.items[i] = text

\* What push_ip may return: the longer list, or the one it was given if the array could
\* not grow or the text not be copied, grown for nothing in the second case.
PushOutcomes(list, text) ==
    LET full == Len(list.items) >= list.capacity
        room == IF ~ full THEN list.capacity
                ELSE IF list.capacity = 0 THEN ListCapacity ELSE list.capacity * 2
    IN  {[capacity |-> room, items |-> Append(list.items, text)],
         [list EXCEPT !.capacity = room],
         list}

Took(before, after) == Len(after.items) > Len(before.items)

Goes(label) == lookup' = label

\* What is freed must be held.
Trade(freed, got) ==
    /\ held' = (held \ freed) \cup got
    /\ overfreed' = (overfreed \/ ~ freed \subseteq held)

--------------------------------------------------------------------------------
LeadingOnes(bits) == Cardinality({i \in DOMAIN bits : \A j \in 1 .. i : bits[j] = 1})

\* The bits are shifted out at the top for as long as they are ones.
PrefixFromMaskV4(mask) == LeadingOnes(mask)

\* Whole bytes of ones, then the ones that lead the next byte; the loop ends there.
PrefixFromMaskV6(mask) ==
    LET Full(b) == \A k \in 1 .. ByteBits : mask[b][k] = 1
        whole == Cardinality({b \in 1 .. V6Bytes : \A c \in 1 .. b : Full(c)})
    IN  whole * ByteBits + (IF whole < V6Bytes THEN LeadingOnes(mask[whole + 1]) ELSE 0)

\* bits with all but the first n cleared, an AND with ones shifted left.
Keep(bits, n) == [i \in DOMAIN bits |-> IF i <= n THEN bits[i] ELSE 0]

SubnetKeyV4(ip, prefix) == <<Keep(ip, prefix), prefix>>

\* Mutant: the byte the prefix ends in is cleared with the others.
SubnetKeyV6WholeBytes(ip, prefix) ==
    <<[b \in 1 .. V6Bytes |-> IF b <= prefix \div ByteBits THEN ip[b] ELSE Keep(ip[b], 0)],
      prefix>>

\* Whole bytes are kept, the byte the prefix ends in is masked, the rest is cleared.
SubnetKeyV6(ip, prefix) ==
    LET fullBytes == prefix \div ByteBits
        remBits == prefix % ByteBits
    IN  <<[b \in 1 .. V6Bytes |->
              IF b <= fullBytes THEN ip[b]
              ELSE Keep(ip[b], IF b = fullBytes + 1 THEN remBits ELSE 0)],
          prefix>>

PrefixOf(f) == IF f.family = "v4" THEN PrefixFromMaskV4(f.mask) ELSE PrefixFromMaskV6(f.mask)

KeyOf(f) ==
    <<f.family, IF f.family = "v4" THEN SubnetKeyV4(f.ip, PrefixOf(f))
                                   ELSE SubnetKeyV6(f.ip, PrefixOf(f))>>

EntryOf(f) == <<f.family, f.ip, PrefixOf(f)>>

(***************************************************************************)
(* The subnet of an address as the head of get_server_ip_addresses.c has   *)
(* it: IPv4 ip & mask and popcount(mask); IPv6 all bits beyond the prefix  *)
(* zeroed, the prefix being the number of leading ones of the mask.        *)
(***************************************************************************)
FlatV6(address) ==
    [i \in 1 .. V6Bytes * ByteBits |->
        address[((i - 1) \div ByteBits) + 1][((i - 1) % ByteBits) + 1]]

PopCount(bits) == Cardinality({i \in DOMAIN bits : bits[i] = 1})

SubnetOf(f) ==
    IF f.family = "v4"
    THEN <<"v4", [i \in 1 .. V4Bits |-> f.ip[i] * f.mask[i]], PopCount(f.mask)>>
    ELSE LET prefix == LeadingOnes(FlatV6(f.mask))
         IN  <<"v6", Keep(FlatV6(f.ip), prefix), prefix>>

--------------------------------------------------------------------------------
AddressInit ==
    /\ lookup = "idle"
    /\ interfaces = <<>> /\ ifa = 1
    /\ seen = NoList /\ result = NoList /\ dropped = {}
    /\ held = {} /\ overfreed = FALSE

\* getifaddrs succeeds, or there are no local addresses to print.
GetInterfaces ==
    /\ lookup = "idle"
    /\ \/ /\ interfaces' \in InterfaceLists
          /\ Trade({}, {"ifaddrs"})
          /\ Goes("scan")
       \/ /\ Goes("router")
          /\ UNCHANGED <<interfaces, held, overfreed>>
    /\ UNCHANGED <<ifa, seen, result, dropped>>

\* One round of enumerate's loop: a node that is none of its business, a subnet it has
\* met, or a new one, remembered and listed, each if memory allows.
ScanInterface ==
    /\ lookup = "scan" /\ ifa <= Len(interfaces)
    /\ LET f == interfaces[ifa]
           skipped == Addressable(f) => InList(seen, KeyOf(f))
       IN  \/ /\ skipped
              /\ UNCHANGED <<seen, result, dropped>>
           \/ /\ ~ skipped
              /\ seen' \in PushOutcomes(seen, KeyOf(f))
              /\ result' \in PushOutcomes(result, EntryOf(f))
              /\ dropped' = IF Took(seen, seen') /\ Took(result, result')
                            THEN dropped ELSE dropped \cup {SubnetOf(f)}
    /\ ifa' = ifa + 1
    /\ UNCHANGED <<lookup, interfaces, held, overfreed>>

\* Behind the loop the nodes and the keys are freed, and the result returned.
EndScan ==
    /\ lookup = "scan" /\ ifa > Len(interfaces)
    /\ Trade({"ifaddrs"}, {})
    /\ seen' = NoList
    /\ Goes("print")
    /\ UNCHANGED <<interfaces, ifa, result, dropped>>

FreeAddresses == result' = NoList

\* The entries are printed and freed; a NULL result prints that there are none.
PrintLocal ==
    /\ lookup = "print"
    /\ FreeAddresses
    /\ Goes("router")
    /\ UNCHANGED <<interfaces, ifa, seen, dropped, held, overfreed>>

\* upnpDiscover: nobody answers, or there is a list of devices.
Discover ==
    /\ lookup = "router"
    /\ \/ Goes("service") /\ Trade({}, {})
       \/ Goes("gateway") /\ Trade({}, {"devlist"})
    /\ UNCHANGED scanVars

\* UPNP_GetValidIGD: none of them is a gateway, or one is.
FindGateway ==
    /\ lookup = "gateway"
    /\ \/ Goes("service") /\ Trade({"devlist"}, {})
       \/ Goes("external") /\ Trade({}, {"urls"})
    /\ UNCHANGED scanVars

\* UPNP_GetExternalIPAddress and strdup: an address, or an error, an empty one, no memory.
AskGateway ==
    /\ lookup = "external"
    /\ \/ Goes("service") /\ Trade({"urls", "devlist"}, {})
       \/ Goes("public") /\ Trade({"urls", "devlist"}, {"address"})
    /\ UNCHANGED scanVars

\* A handle and a buffer; no handle; or no buffer, and the handle is cleaned up again.
InitCurl ==
    /\ lookup = "service"
    /\ \/ Goes("transfer") /\ Trade({}, {"curl", "address"})
       \/ Goes("done") /\ Trade({}, {})
    /\ UNCHANGED scanVars

\* curl_easy_perform, whose callback extends the buffer or stops the transfer for want of
\* memory: an address; or an error or a blank body, and the buffer is freed.
Transfer ==
    /\ lookup = "transfer"
    /\ \/ Goes("public") /\ Trade({"curl"}, {})
       \/ Goes("done") /\ Trade({"curl", "address"}, {})
    /\ UNCHANGED scanVars

\* The public address is printed and freed.
PrintPublic ==
    /\ lookup = "public"
    /\ Goes("done")
    /\ Trade({"address"}, {})
    /\ UNCHANGED scanVars

\* The thread ends.
EndLookup ==
    /\ lookup = "done"
    /\ Goes("idle")
    /\ interfaces' = <<>> /\ ifa' = 1 /\ dropped' = {}
    /\ UNCHANGED <<seen, result, held, overfreed>>

AddressNext ==
    \/ GetInterfaces
    \/ ScanInterface
    \/ EndScan
    \/ PrintLocal
    \/ Discover
    \/ FindGateway
    \/ AskGateway
    \/ InitCurl
    \/ Transfer
    \/ PrintPublic
    \/ EndLookup

--------------------------------------------------------------------------------
\* "Enumerates every distinct subnet attached to the host and returns one IP address per
\* subnet" (get_server_ip_addresses.c:21-36): of the addresses in one subnet, as the
\* comment defines it bit by bit, the first is printed, with its prefix, and no other;
\* unless memory ran out at that subnet, which costs no other subnet its entry.
OneAddressPerSubnet ==
    lookup = "print" =>
        \A i \in DOMAIN interfaces :
            Addressable(interfaces[i]) /\ SubnetOf(interfaces[i]) \notin dropped =>
                LET subnet == SubnetOf(interfaces[i])
                    members == {j \in DOMAIN interfaces :
                                   Addressable(interfaces[j]) /\ SubnetOf(interfaces[j]) = subnet}
                    first == interfaces[CHOOSE j \in members : \A k \in members : j <= k]
                    Text(f) == <<f.family, f.ip, subnet[3]>>
                    listed == {k \in DOMAIN result.items :
                                  \E j \in members : result.items[k] = Text(interfaces[j])}
                IN  \E k \in listed : listed = {k} /\ result.items[k] = Text(first)

\* When the thread ends it has freed what it was given, once, by whichever of its returns.
LookupReturnsAll == ~ overfreed /\ (lookup = "done" => held = {} /\ seen = NoList /\ result = NoList)
================================================================================
