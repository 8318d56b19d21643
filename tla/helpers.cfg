SPECIFICATION Spec
CONSTANTS
    MAX_FILENAME = 5
    RawNames <- MCRawNames
    V4Bits = 3
    V6Bytes = 2
    ByteBits = 2
    ListCapacity = 1
    InterfaceLists <- MCInterfaceLists
    ArrayCapacity = 1
    MaxRows = 3
INVARIANTS SavedNameSafe ClientNameKept OneAddressPerSubnet HeapReturned
