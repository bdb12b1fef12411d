---------------------------- MODULE ShengdaCodec ----------------------------
(***************************************************************************)
(* The Shengda V1.6 frames and the three JavaScript codecs that read them: *)
(* the platform's (services/platform-api/internal/codecjs), the one of the *)
(* ChirpStack device profile (apps/shengda-water/chirpstack) and the       *)
(* console's own copy (apps/console/src/lib/shengdaDecode.ts).  A meter    *)
(* writes a frame item by item, or encodeDownlink writes one; ChirpStack   *)
(* hands it over in base64 or the archive in hexadecimal.  Bytes are       *)
(* numbers; labels are left out.                                           *)
(***************************************************************************)
EXTENDS Integers, Sequences, SequencesExt, TLC

CONSTANTS
    Item,       \* what a meter may write: records [type, value, form]
    MaxItems

VARIABLES
    header,     \* the frame's first byte, 0 for a frame without a header
    frame,      \* the bytes of its items
    written,    \* what the frame says, by type
    items,      \* how many items it has
    legible     \* no item of an unknown type without a length was written

codecVars == <<header, frame, written, items, legible>>

\* Mutant: the header of the commands is missing.
HeadersUp == {\h24, \h25}

Headers == {\h24, \h25, \h26}
Nothing == << >>

\* The length of the value of a type written without one; -1 if unknown.
TypeLength(type) ==
    CASE type \in {\h05, \h09, \h0f, \h10, \h11, \h12, \h14, \h15, \h17, \h19, \h1b, \h1f,
                   \h20, \h23, \h24, \h2b, \h2e, \h37} -> 1
      [] type \in {\h0a, \h1a, \h2c, \h2d, \h33, \h36} -> 2
      [] type \in {\h06, \h07, \h08, \h1d} -> 3
      [] type \in \h01..\h04 \cup \h0b..\h0e \cup \h25..\h2a \cup {\h13, \h16, \h21, \h38} -> 4
      [] type = \h1c -> 6
      [] type \in {\h1e, \h34} -> 8
      [] type = \h35 -> 16
      [] OTHER -> -1

Byte(bytes, i) == IF i <= Len(bytes) THEN bytes[i] ELSE 0

\* A tag's type takes one byte or, with the bit 0x40, two.
ParseType(bytes, i) ==
    IF (bytes[i] \div 64) % 2 = 1
    THEN [type |-> (bytes[i] % 64) * 256 + Byte(bytes, i + 1), size |-> 2]
    ELSE [type |-> bytes[i] % 64, size |-> 1]

\* The item whose tag is at byte i: with its length before the value, if that is
\* given, and the byte at which the value starts.
ItemAt(bytes, i) ==
    LET tag == ParseType(bytes, i)
        given == bytes[i] >= 128
        at == i + tag.size + IF given THEN 1 ELSE 0
    IN  [type |-> tag.type, given |-> given, at |-> at,
         length |-> IF given THEN Byte(bytes, at - 1) ELSE TypeLength(tag.type)]

\* Reading stops at an item that is cut or of unknown length.  A value may reach
\* beyond `end`.
Stops(bytes, i, end) ==
    \/ i > end
    \/ LET item == ItemAt(bytes, i)
       IN  \/ item.given /\ item.at - 1 > end
           \/ item.length = -1 \/ item.at + item.length > Len(bytes) + 1

Single(type, value) == [t \in {type} |-> value]

\* Of two values of a type the later one counts.
Over(later, earlier) ==
    [t \in DOMAIN later \cup DOMAIN earlier |->
        IF t \in DOMAIN later THEN later[t] ELSE earlier[t]]

\* The items from byte `first` to byte `end`, the last of each type.
ReadItems(bytes, first, end) ==
    LET from[i \in 1..(Len(bytes) + 1)] ==
        IF Stops(bytes, i, end) THEN Nothing
        ELSE LET item == ItemAt(bytes, i)
                 next == item.at + item.length
             IN  Over(from[next], Single(item.type, SubSeq(bytes, item.at, next - 1)))
    IN  from[first]

Checksum(bytes) == FoldLeft(LAMBDA sum, byte: sum + byte, 0, bytes) % 256

BuildDownlink(bytes) == Append(bytes, Checksum(bytes))

\* u32be: the last four bytes count, a 32-bit number keeps no more.
Number(value) ==
    FoldLeft(LAMBDA n, byte: n * 256 + byte, 0,
             SubSeq(value, IF Len(value) > 4 THEN Len(value) - 3 ELSE 1, Len(value)))

\* PULSE_LITERS; a constant of 0, or an unknown one, counts as one litre.
LitersPerPulse(constant) == CASE constant = 2 -> 10 [] constant = 3 -> 100
                              [] constant = 4 -> 1000 [] OTHER -> 1

Bit(byte, mask) == (byte \div mask) % 2 = 1

If(condition, field, value) == IF condition THEN field :> value ELSE Nothing

\* The fields all three codecs give.
CommonFields(read) ==
    LET has(type) == type \in DOMAIN read
        word(type) == has(type) /\ Len(read[type]) >= 2
        status(mask) == Bit(read[\h33][1], mask)
        constant == IF has(\h14) THEN read[\h14][1] ELSE 1
    IN  If(has(\h19), "packetSequence", read[\h19][1])
        @@ If(has(\h16), "meterNumber", Number(read[\h16]))
        @@ If(has(\h0b), "pulseCount", Number(read[\h0b]))
        @@ If(has(\h14), "pulseConstant", constant)
        @@ If(word(\h1a), "batteryCentivolts", (2000 * Number(read[\h1a]) + 164) \div 328)
        @@ If(word(\h33), "status", [fault |-> status(128), batteryLow |-> status(64),
                                     attack |-> status(32), open |-> ~status(4)])
        @@ If(has(\h23), "triggerSource", read[\h23][1])
        @@ If(has(\h0b), "indexLiters", Number(read[\h0b]) * LitersPerPulse(constant))

\* What the platform's codec adds: the kinds of meter, and more of the status.
PlatformFields(read) ==
    LET has(type) == type \in DOMAIN read
        status(i, mask) == Bit(read[\h33][i], mask)
    IN  CommonFields(read)
        @@ If(has(\h1b), "meterType", read[\h1b][1])
        @@ If(has(\h12), "meteringMode", read[\h12][1])
        @@ If(has(\h09), "lorawanClass", read[\h09][1])
        @@ If(has(\h17), "valveType", read[\h17][1])
        @@ If(has(\h33) /\ Len(read[\h33]) >= 2, "alarms",
              [removed |-> status(1, 16), metering |-> status(1, 2), remote |-> status(1, 1),
               inlet |-> status(2, 128), return |-> status(2, 64), flow |-> status(2, 32),
               past |-> status(2, 2), meter |-> (read[\h33][2] \div 4) % 8])

ChirpStackFields(read) ==
    CommonFields(read)
    @@ If(\h1b \in DOMAIN read, "meterType", read[\h1b][1])
    @@ If(\h12 \in DOMAIN read, "meteringMode", read[\h12][1])

\* A first byte that is a header takes the last one for the checksum.
DecodeBytes(bytes) ==
    LET framed == bytes # << >> /\ bytes[1] \in Headers
    IN  [header |-> IF framed THEN bytes[1] ELSE 0,
         checksumOk |-> framed /\ Len(bytes) > 1 /\ Checksum(Front(bytes)) = Last(bytes),
         read |-> IF bytes = << >> THEN Nothing
                  ELSE IF framed THEN ReadItems(bytes, 2, Len(bytes) - 1)
                  ELSE ReadItems(bytes, 1, Len(bytes))]

PlatformDecode(bytes) == PlatformFields(DecodeBytes(bytes).read)
ChirpStackDecode(bytes) == ChirpStackFields(DecodeBytes(bytes).read)
ConsoleDecode(bytes) == CommonFields(DecodeBytes(bytes).read)

ValveCode == [open |-> 0, close |-> 1, dredge |-> 2, dredge_on |-> 3, dredge_off |-> 4]

EncodeDownlink(action) ==
    IF action = "read" THEN BuildDownlink(<<\h26, \h20, 1>>)
    ELSE BuildDownlink(<<\h26, \h1f, ValveCode[action]>>)

\* The letters of a base64 text that are also hexadecimal digits.
HexDigit(sextet) == CASE sextet \in 0..5 -> 10 + sextet [] sextet \in 26..31 -> sextet - 16
                      [] sextet \in 52..61 -> sextet - 52 [] OTHER -> -1

Sextets(bytes) ==
    [i \in 1..((Len(bytes) \div 3) * 4) |->
        LET at == 3 * ((i - 1) \div 4)
            byte(k) == bytes[at + k]
        IN  CASE i % 4 = 1 -> byte(1) \div 4
              [] i % 4 = 2 -> (byte(1) % 4) * 16 + byte(2) \div 16
              [] i % 4 = 3 -> (byte(2) % 16) * 4 + byte(3) \div 64
              [] i % 4 = 0 -> byte(3) % 64]

LooksHex(bytes) ==
    Len(bytes) % 3 = 0 /\ \A i \in DOMAIN Sextets(bytes) : HexDigit(Sextets(bytes)[i]) # -1

\* The bytes of a payload handed over in hexadecimal or in base64: a text all
\* of whose letters are hexadecimal digits is never taken for base64.
Normalize(format, bytes) ==
    IF format = "base64" /\ LooksHex(bytes)
    THEN [i \in 1..(Len(Sextets(bytes)) \div 2) |->
             16 * HexDigit(Sextets(bytes)[2 * i - 1]) + HexDigit(Sextets(bytes)[2 * i])]
    ELSE bytes

\* What the page of messages shows: what the platform decoded, else what the
\* console's own codec makes of the payload, whatever sent it; the script of
\* the tenant's decoder is never used.
DecodeMessageRow(decoded, format, bytes) ==
    IF decoded # Nothing THEN decoded ELSE ConsoleDecode(Normalize(format, bytes))

-----------------------------------------------------------------------------

\* The frame as it goes out: with a header, the checksum follows.
Sent == IF header = 0 THEN frame ELSE BuildDownlink(<<header>> \o frame)

CodecInit ==
    /\ header \in Headers \cup {0}
    /\ frame = << >> /\ written = Nothing /\ items = 0 /\ legible = TRUE

\* The bytes of an item: plain, with its length, or with a type of two bytes.
BytesOf(item) ==
    CASE item.form = "plain" -> <<item.type>> \o item.value
      [] item.form = "long" -> <<128 + item.type, Len(item.value)>> \o item.value
      [] item.form = "wide" -> <<192 + item.type \div 256, item.type % 256, Len(item.value)>>
                               \o item.value

\* The meter writes one more item.
Write(item) ==
    /\ items < MaxItems /\ items' = items + 1
    /\ frame' = frame \o BytesOf(item)
    /\ legible' = (legible /\ (item.form # "plain" \/ TypeLength(item.type) = Len(item.value)))
    /\ written' = IF legible' THEN Over(Single(item.type, item.value), written) ELSE written
    /\ UNCHANGED header

\* encodeDownlink writes a whole command frame.
Command(action) ==
    /\ items = 0 /\ items' = MaxItems
    /\ header' = EncodeDownlink(action)[1]
    /\ frame' = Tail(Front(EncodeDownlink(action)))
    /\ written' = IF action = "read" THEN Single(\h20, <<1>>) ELSE Single(\h1f, <<ValveCode[action]>>)
    /\ UNCHANGED legible

CodecNext ==
    \/ \E item \in Item : Write(item)
    \/ \E action \in DOMAIN ValveCode \cup {"read"} : Command(action)

-----------------------------------------------------------------------------
(* Property *)

\* What is read is what was written, the last value of each type, up to the
\* first item of an unknown type without a length; the three codecs agree on
\* what they share, in hexadecimal and in base64.  A frame without a header is
\* misread if its first tag looks like one, or if its base64 looks like
\* hexadecimal.
FramesReadBack ==
    items > 0 /\ (header = 0 => frame[1] \notin Headers) =>
        /\ DecodeBytes(Sent).read = written
        /\ header # 0 => DecodeBytes(Sent).checksumOk
        /\ PlatformDecode(Sent) = PlatformFields(written)
        /\ ChirpStackDecode(Sent) = ChirpStackFields(written)
        /\ \A format \in {"hex", "base64"} :
              \/ DecodeMessageRow(Nothing, format, Sent) = CommonFields(written)
              \/ format = "base64" /\ header = 0 /\ LooksHex(Sent)
=============================================================================
