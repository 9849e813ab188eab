------------------------------- MODULE Protocol -------------------------------
(***************************************************************************)
(* The wire format (protocol/mod.rs): Message::new builds a message,       *)
(* request() of BrokerClient and Publisher may turn it into a request,     *)
(* encode writes it into a buffer, and decode reads a buffer that holds    *)
(* the whole frame and perhaps more, a part of it, or a damaged one.       *)
(*                                                                         *)
(* Bytes are numbers below Base (256 in the code); the widths and limits   *)
(* are constants, so that a small instance meets every boundary. The       *)
(* fields that nothing looks at (priority, session_token, message_id,      *)
(* sub_message_id, ttl) are one field of IDENT_LEN bytes.                  *)
(***************************************************************************)
EXTENDS Integers, Sequences

CONSTANTS
    Base,               \* how many values a byte has
    U16, U32,           \* how many bytes a u16 and a u32 have
    IDENT_LEN,
    FIXED_HEADER_SIZE,
    MAX_MSG_TYPE_LEN, MAX_ADDRESS_LEN, MAX_PAYLOAD_LEN,
    Colon,              \* the byte ':'
    AddressChars,       \* the bytes a-z A-Z 0-9 - _
    NotUtf8,            \* bytes that make a string invalid UTF-8
    Inputs,             \* the arguments Message::new is called with
    ClientAddresses,    \* the client_address of the requesting client
    Tails               \* what may follow a frame in the buffer

ASSUME WidthAssumption ==
    /\ Base \in Nat \ {0, 1} /\ {U16, U32} \subseteq 1..4 /\ IDENT_LEN \in Nat
    /\ FIXED_HEADER_SIZE = U16 + 1 + IDENT_LEN + 1 + U16 + U32

\* How many numbers fit into width bytes: Base ^ width, for the widths of one
\* to four bytes.
Pow(width) ==
    <<Base, Base * Base, Base * (Base * Base), Base * (Base * (Base * Base))>>[width]

ASSUME LimitAssumption ==
    /\ MAX_MSG_TYPE_LEN = Base - 1      \* as in the code: a u8 cannot exceed it
    /\ MAX_ADDRESS_LEN \in 1..(Pow(U16) - 1)
    /\ MAX_PAYLOAD_LEN \in 1..(Pow(U32) - 1)

Byte == 0..(Base - 1)

ASSUME BytesAssumption ==
    /\ {Colon} \cup AddressChars \cup NotUtf8 \subseteq Byte
    /\ ({Colon} \cup AddressChars) \cap NotUtf8 = {} /\ Colon \notin AddressChars
ASSUME InputsAssumption ==
    /\ \A in \in Inputs : /\ in.mode \in {0, 1} /\ in.ident \in [1..IDENT_LEN -> Byte]
                          /\ {in.msg_type, in.address, in.reply_to, in.payload} \subseteq Seq(Byte)
    /\ ClientAddresses \cup Tails \subseteq Seq(Byte)

VARIABLES
    at,         \* what is done next
    msg,        \* the message that was built
    frame,      \* the buffer given to decode
    origin,     \* how the buffer relates to msg: "whole", "cut" or "damaged"
    pos,        \* how many bytes of it decode has read
    got,        \* the message being decoded
    error       \* why decode refused

vars == <<at, msg, frame, origin, pos, got, error>>

-----------------------------------------------------------------------------
(* Little-endian numbers *)

Shift(n) == n \div Base

\* put_u16_le, put_u32_le: width bytes, the lowest first; higher digits are lost.
PutLe(n, width) ==
    SubSeq(<<n % Base, Shift(n) % Base, Shift(Shift(n)) % Base, Shift(Shift(Shift(n))) % Base>>,
           1, width)

\* get_u16_le, get_u32_le
GetLe(s) ==
    LET digit(i) == IF i \in DOMAIN s THEN s[i] ELSE 0
    IN  digit(1) + Base * (digit(2) + Base * (digit(3) + Base * digit(4)))

-----------------------------------------------------------------------------
(* Transfer modes and addresses *)

InOnly == 0
InOut == 1

\* from_flags: bit 0 only; the other bits are not looked at.
ModeOf(flags) == flags % 2

IsUtf8(s) == \A i \in DOMAIN s : s[i] \notin NotUtf8

\* validate_address
ValidateAddress(s) ==
    /\ s # <<>>
    /\ s[1] # Colon /\ s[Len(s)] # Colon
    /\ \A i \in 1..(Len(s) - 1) : ~(s[i] = Colon /\ s[i + 1] = Colon)
    /\ \A i \in DOMAIN s : s[i] \in AddressChars \cup {Colon}

-----------------------------------------------------------------------------
(* Building a message *)

\* Message::new and FixedHeader::new. The payload's length is cast to u32
\* before it is compared; the message type is not checked to be UTF-8.
NewAccepts(in) ==
    /\ in.mode = InOut <=> in.reply_to # <<>>
    /\ IsUtf8(in.address) /\ ValidateAddress(in.address)
    /\ in.reply_to # <<>> => IsUtf8(in.reply_to) /\ ValidateAddress(in.reply_to)
    /\ Len(in.msg_type) <= MAX_MSG_TYPE_LEN
    /\ Len(in.address) <= MAX_ADDRESS_LEN
    /\ Len(in.reply_to) <= MAX_ADDRESS_LEN
    /\ Len(in.payload) % Pow(U32) <= MAX_PAYLOAD_LEN

NewMessage(in) ==
    [version |-> 1, flags |-> in.mode, ident |-> in.ident,
     msg_type_len |-> Len(in.msg_type) % Base,
     address_len |-> Len(in.address) % Pow(U16),
     payload_len |-> Len(in.payload) % Pow(U32),
     msg_type |-> in.msg_type, address |-> in.address,
     reply_to |-> in.reply_to, payload |-> in.payload]

\* Mutant: the mode bit is added instead of set.
ForceInOutAdding(m, client) ==
    [m EXCEPT !.flags = @ + InOut, !.reply_to = client]

\* request(): the mode bit is forced to InOut and reply_to to the client's own
\* address, whatever the caller put there.
ForceInOut(m, client) ==
    [m EXCEPT !.flags = @ - ModeOf(@) + InOut, !.reply_to = client]

-----------------------------------------------------------------------------
(* encode, size *)

EncodeHeader(m) ==
    PutLe(m.version, U16) \o <<m.flags>> \o m.ident \o <<m.msg_type_len>>
        \o PutLe(m.address_len, U16) \o PutLe(m.payload_len, U32)

EncodeReplyTo(m) ==
    IF ModeOf(m.flags) = InOut
    THEN PutLe(Len(m.reply_to) % Pow(U16), U16) \o m.reply_to
    ELSE <<>>

Encode(m) == EncodeHeader(m) \o m.msg_type \o m.address \o EncodeReplyTo(m) \o m.payload

\* Mutant: the length in front of reply_to is not counted.
VariableHeaderSizeShort(m) ==
    m.msg_type_len + m.address_len + (IF ModeOf(m.flags) = InOut THEN Len(m.reply_to) ELSE 0)

VariableHeaderSize(m) ==
    m.msg_type_len + m.address_len + (IF ModeOf(m.flags) = InOut THEN U16 + Len(m.reply_to) ELSE 0)

Size(m) == FIXED_HEADER_SIZE + VariableHeaderSize(m) + m.payload_len

-----------------------------------------------------------------------------
(* Building, encoding, and the way of the bytes to a reader *)

NoMessage ==
    [version |-> 0, flags |-> 0, ident |-> <<>>, msg_type_len |-> 0, address_len |-> 0,
     payload_len |-> 0, msg_type |-> <<>>, address |-> <<>>, reply_to |-> <<>>, payload |-> <<>>]

Init ==
    /\ at = "new" /\ msg = NoMessage
    /\ frame = <<>> /\ origin = "none" /\ pos = 0
    /\ got = NoMessage /\ error = "none"

New(in) ==
    /\ at = "new" /\ NewAccepts(in)
    /\ msg' = NewMessage(in)
    /\ at' = "built"
    /\ UNCHANGED <<frame, origin, pos, got, error>>

Request(client) ==
    /\ at = "built"
    /\ msg' = ForceInOut(msg, client)
    /\ at' = "requested"
    /\ UNCHANGED <<frame, origin, pos, got, error>>

\* decode gets the buffer buf.
Give(buf, how) ==
    /\ at \in {"built", "requested"}
    /\ frame' = buf /\ origin' = how
    /\ at' = "header"
    /\ UNCHANGED <<msg, pos, got, error>>

GiveWhole == \E tail \in Tails : Give(Encode(msg) \o tail, "whole")

GiveCut ==
    LET f == Encode(msg) IN \E n \in 0..(Len(f) - 1) : Give(SubSeq(f, 1, n), "cut")

GiveDamaged ==
    LET f == Encode(msg)
    IN  \E i \in DOMAIN f, b \in Byte : b # f[i] /\ Give([f EXCEPT ![i] = b], "damaged")

-----------------------------------------------------------------------------
(* decode. The reads of the buffer (get_*, copy_to_slice, copy_to_bytes)   *)
(* panic if it holds less than they ask for.                               *)

Remaining == Len(frame) - pos
Peek(from, n) == SubSeq(frame, pos + from + 1, pos + from + n)

\* Return an error, n bytes further on. Of ProtocolError, UnknownTransferMode
\* and MsgTypeTooLong cannot happen here: one bit has two values, and a u8 is
\* at most MAX_MSG_TYPE_LEN.
Refuse(e, n) ==
    /\ at' = "refused" /\ error' = e
    /\ pos' = pos + n
    /\ UNCHANGED <<msg, frame, origin, got>>

\* Read n bytes, which make m out of got, and go on.
Read(n, m, next) ==
    /\ IF Remaining < n
       THEN at' = "panicked" /\ UNCHANGED <<pos, got>>
       ELSE at' = next /\ pos' = pos + n /\ got' = m
    /\ UNCHANGED <<msg, frame, origin, error>>

\* The fixed header that the next bytes make.
Header ==
    LET lens == U16 + 1 + IDENT_LEN
    IN  [NoMessage EXCEPT
            !.version = GetLe(Peek(0, U16)),
            !.flags = Peek(U16, 1)[1],
            !.ident = Peek(U16 + 1, IDENT_LEN),
            !.msg_type_len = Peek(lens, 1)[1],
            !.address_len = GetLe(Peek(lens + 1, U16)),
            !.payload_len = GetLe(Peek(lens + 1 + U16, U32))]

DecodeHeader ==
    /\ at = "header"
    /\ \/ /\ Remaining < FIXED_HEADER_SIZE
          /\ Refuse("IncompleteHeader", 0)
       \/ /\ Remaining >= FIXED_HEADER_SIZE
          /\ Header.version # 1
          /\ Refuse("UnsupportedVersion", U16)
       \/ /\ Remaining >= FIXED_HEADER_SIZE
          /\ Header.version = 1
          /\ Header.address_len > MAX_ADDRESS_LEN \/ Header.payload_len > MAX_PAYLOAD_LEN
          /\ Refuse("TooLong", FIXED_HEADER_SIZE)
       \/ /\ Remaining >= FIXED_HEADER_SIZE
          /\ Header.version = 1
          /\ Header.address_len <= MAX_ADDRESS_LEN /\ Header.payload_len <= MAX_PAYLOAD_LEN
          /\ Read(FIXED_HEADER_SIZE, Header, "msg_type")

DecodeMsgType ==
    LET n == got.msg_type_len
    IN  /\ at = "msg_type"
        /\ \/ Remaining < n /\ Refuse("IncompleteMsgType", 0)
           \/ Remaining >= n /\ ~IsUtf8(Peek(0, n)) /\ Refuse("InvalidMsgTypeUtf8", n)
           \/ /\ Remaining >= n /\ IsUtf8(Peek(0, n))
              /\ Read(n, [got EXCEPT !.msg_type = Peek(0, n)], "address")

AfterAddress(m) == IF ModeOf(m.flags) = InOut THEN "reply_to" ELSE "payload"

\* Mutant: the address that was read is not validated.
DecodeAddressUnvalidated ==
    LET n == got.address_len
    IN  /\ at = "address"
        /\ \/ Remaining < n /\ Refuse("IncompleteAddress", 0)
           \/ /\ Remaining >= n
              /\ Read(n, [got EXCEPT !.address = Peek(0, n)], AfterAddress(got))

DecodeAddress ==
    LET n == got.address_len
        ok == IsUtf8(Peek(0, n)) /\ ValidateAddress(Peek(0, n))
    IN  /\ at = "address"
        /\ \/ Remaining < n /\ Refuse("IncompleteAddress", 0)
           \/ Remaining >= n /\ ~ok /\ Refuse("InvalidAddress", n)
           \/ Remaining >= n /\ ok /\ Read(n, [got EXCEPT !.address = Peek(0, n)], AfterAddress(got))

\* Mutant: the length of reply_to is read without looking whether it is there.
DecodeReplyToUnguarded ==
    LET n == GetLe(Peek(0, U16))
        ok == IsUtf8(Peek(U16, n)) /\ ValidateAddress(Peek(U16, n))
    IN  /\ at = "reply_to"
        /\ \/ Remaining < U16 /\ Read(U16, got, "reply_to")
           \/ Remaining >= U16 /\ n = 0 /\ Refuse("MissingReplyToForInOut", U16)
           \/ Remaining >= U16 /\ n > MAX_ADDRESS_LEN /\ Refuse("ReplyToTooLong", U16)
           \/ /\ Remaining >= U16 /\ n \in 1..MAX_ADDRESS_LEN
              /\ \/ Remaining < U16 + n /\ Refuse("IncompleteReplyTo", U16)
                 \/ Remaining >= U16 + n /\ ~ok /\ Refuse("InvalidReplyTo", U16 + n)
                 \/ /\ Remaining >= U16 + n /\ ok
                    /\ Read(U16 + n, [got EXCEPT !.reply_to = Peek(U16, n)], "payload")

\* InOut only: a u16 length and the address.
DecodeReplyTo ==
    LET n == GetLe(Peek(0, U16))
        ok == IsUtf8(Peek(U16, n)) /\ ValidateAddress(Peek(U16, n))
    IN  /\ at = "reply_to"
        /\ \/ Remaining < U16 /\ Refuse("IncompleteReplyTo", 0)
           \/ Remaining >= U16 /\ n = 0 /\ Refuse("MissingReplyToForInOut", U16)
           \/ Remaining >= U16 /\ n > MAX_ADDRESS_LEN /\ Refuse("ReplyToTooLong", U16)
           \/ /\ Remaining >= U16 /\ n \in 1..MAX_ADDRESS_LEN
              /\ \/ Remaining < U16 + n /\ Refuse("IncompleteReplyTo", U16)
                 \/ Remaining >= U16 + n /\ ~ok /\ Refuse("InvalidReplyTo", U16 + n)
                 \/ /\ Remaining >= U16 + n /\ ok
                    /\ Read(U16 + n, [got EXCEPT !.reply_to = Peek(U16, n)], "payload")

\* Mutant: what is there of the payload is taken for all of it.
DecodePayloadShort ==
    LET n == IF Remaining < got.payload_len THEN Remaining ELSE got.payload_len
    IN  /\ at = "payload"
        /\ Read(n, [got EXCEPT !.payload = Peek(0, n)], "done")

\* Mutant: the position moves on before the payload is known to be there.
DecodePayloadAdvancing ==
    LET n == got.payload_len
    IN  /\ at = "payload"
        /\ \/ Remaining < n /\ Refuse("IncompletePayload", n)
           \/ Remaining >= n /\ Read(n, [got EXCEPT !.payload = Peek(0, n)], "done")

DecodePayload ==
    LET n == got.payload_len
    IN  /\ at = "payload"
        /\ \/ Remaining < n /\ Refuse("IncompletePayload", 0)
           \/ Remaining >= n /\ Read(n, [got EXCEPT !.payload = Peek(0, n)], "done")

Next ==
    \/ \E in \in Inputs : New(in)
    \/ \E client \in ClientAddresses : Request(client)
    \/ GiveWhole \/ GiveCut \/ GiveDamaged
    \/ DecodeHeader \/ DecodeMsgType \/ DecodeAddress \/ DecodeReplyTo \/ DecodePayload

Spec == Init /\ [][Next]_vars

-----------------------------------------------------------------------------
(* Properties *)

Incomplete == {"IncompleteHeader", "IncompleteMsgType", "IncompleteAddress",
               "IncompleteReplyTo", "IncompletePayload"}

Message ==
    [version : 0..(Pow(U16) - 1), flags : Byte, ident : Seq(Byte),
     msg_type_len : Byte, address_len : 0..(Pow(U16) - 1), payload_len : 0..(Pow(U32) - 1),
     msg_type : Seq(Byte), address : Seq(Byte), reply_to : Seq(Byte), payload : Seq(Byte)]

\* Type correctness of the message, the buffer and the decoder.
TypeOK ==
    /\ at \in {"new", "built", "requested", "header", "msg_type", "address", "reply_to",
               "payload", "done", "refused", "panicked"}
    /\ msg \in Message /\ got \in Message
    /\ frame \in Seq(Byte) /\ pos \in 0..Len(frame)
    /\ origin \in {"none", "whole", "cut", "damaged"}
    /\ error \in Incomplete \cup
          {"none", "UnsupportedVersion", "TooLong", "InvalidMsgTypeUtf8", "InvalidAddress",
           "MissingReplyToForInOut", "ReplyToTooLong", "InvalidReplyTo"}

\* decode never reads past the buffer, whatever the lengths in it say: no
\* buffer, cut or damaged anywhere, makes a get_* or copy_to_bytes panic.
NeverPanics == at # "panicked"

\* What survives the wire: besides what Message::new checks, the type has to
\* be UTF-8, the payload's length has to fit its u32, and a client_address
\* that request() put into reply_to has to be a valid address.
Survives(m) ==
    /\ IsUtf8(m.msg_type)
    /\ Len(m.payload) < Pow(U32)
    /\ ModeOf(m.flags) = InOut =>
          Len(m.reply_to) <= MAX_ADDRESS_LEN /\ ValidateAddress(m.reply_to)

\* Round trip: decode returns exactly the message that was encoded and stops
\* exactly at the end of its frame, if and only if the message survives.
RoundTrip ==
    origin = "whole" /\ at \in {"done", "refused"} =>
        (Survives(msg) <=> at = "done" /\ got = msg /\ pos = Len(Encode(msg)))

\* A frame cut short anywhere is refused, and as incomplete, never as
\* malformed or as a shorter message: a reader can tell it has to wait.
CutIsIncomplete ==
    origin = "cut" /\ Survives(msg) =>
        at # "done" /\ (at = "refused" => error \in Incomplete)

\* decode validates what Message::new does: a message that comes out of any
\* buffer, damaged ones included, is within the limits, has a valid address,
\* and a reply_to exactly if its mode is InOut. (ReservedBitsClear is about the
\* bits of flags besides the mode, which Message::new never sets.)
DecodedIsValid ==
    at = "done" =>
        NewAccepts([mode |-> ModeOf(got.flags), msg_type |-> got.msg_type, address |-> got.address,
                    reply_to |-> got.reply_to, payload |-> got.payload])

\* A message of the current protocol version has no reserved bit set in flags:
\* decode lets no other through.
ReservedBitsClear == at = "done" => got.flags \in {InOnly, InOut}

\* The format is canonical: a decoded message encodes to the very bytes it was
\* read from, as many as size() says, so that it can be forwarded.
CanonicalFrame ==
    at = "done" => Encode(got) = SubSeq(frame, 1, pos) /\ Size(got) = pos
=============================================================================
