SPECIFICATION Spec
CONSTANTS
    Base = 4
    U16 = 2
    U32 = 2
    IDENT_LEN = 1
    FIXED_HEADER_SIZE = 9
    MAX_MSG_TYPE_LEN = 3
    MAX_ADDRESS_LEN = 4
    MAX_PAYLOAD_LEN = 2
    Colon = 2
    AddressChars <- MCAddressChars
    NotUtf8 <- MCNotUtf8
    Inputs <- MCInputs
    ClientAddresses <- MCClientAddresses
    Tails <- MCTails
INVARIANTS
    TypeOK
    NeverPanics
    RoundTrip
    CutIsIncomplete
    DecodedIsValid
    CanonicalFrame
CHECK_DEADLOCK FALSE
