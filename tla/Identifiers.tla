----------------------------- MODULE Identifiers -----------------------------
(***************************************************************************)
(* The identifiers people and other programs get to see: of a gateway, of  *)
(* a device and of a device manager, and the fingerprint of a certificate. *)
(* One is made, becomes a text, perhaps somebody mistypes it, and the text *)
(* is parsed.                                                              *)
(*                                                                         *)
(* A device has 64 bits, which are the eight bytes of a sequence here.     *)
(***************************************************************************)
EXTENDS Integers, Sequences

CONSTANTS GatewayNumbers,  \* the 14 digits of the data of a gateway
          DeviceNumbers,   \* 64 bits
          Idents,          \* of device managers, a byte
          Certificates     \* their bytes

VARIABLES id,      \* [kind, value]; kind is "none" before
          text,    \* its digits
          damage,  \* "none", or what has been done to the text
          parsed   \* the set of what has been parsed, Unread before

identifierVars == <<id, text, damage, parsed>>

Unread == {<<>>}

IdentifiersInit ==
  id = [kind |-> "none", value |-> <<>>] /\ text = <<>> /\ damage = "none" /\ parsed = Unread

Table ==
  << <<0, 3, 1, 7, 5, 9, 8, 6, 4, 2>>, <<7, 0, 9, 2, 1, 5, 4, 8, 6, 3>>,
     <<4, 2, 0, 6, 8, 7, 1, 3, 5, 9>>, <<1, 7, 5, 0, 9, 8, 3, 4, 2, 6>>,
     <<6, 1, 2, 3, 0, 4, 5, 9, 7, 8>>, <<3, 6, 7, 4, 2, 0, 9, 5, 8, 1>>,
     <<5, 8, 6, 9, 7, 2, 0, 1, 3, 4>>, <<8, 9, 4, 5, 3, 6, 2, 0, 1, 7>>,
     <<9, 4, 3, 8, 6, 1, 7, 2, 0, 5>>, <<2, 5, 8, 1, 4, 3, 6, 7, 9, 0>> >>

(* DAMM::compute() *)
Compute(digits) ==
  LET index[k \in 0..Len(digits)] == IF k = 0 THEN 0 ELSE Table[index[k - 1] + 1][digits[k] + 1]
  IN  index[Len(digits)]

(* GatewayID(version, data) *)
GatewayDigits(version, data) == <<version>> \o data \o <<Compute(<<version>> \o data)>>
TextLength == 16

ParseGateway(digits) ==
  IF /\ Len(digits) = TextLength /\ digits[1] # 0
     /\ digits[TextLength] = Compute(SubSeq(digits, 1, TextLength - 1))
  THEN {GatewayDigits(digits[1], SubSeq(digits, 2, TextLength - 1))} ELSE {}

First(places) == CHOOSE i \in places : \A j \in places : i <= j

(* The digits of hexadecimal numbers, without leading zeros.               *)
Hex(bytes) ==
  LET digits == [i \in 1..(2 * Len(bytes)) |->
                   IF i % 2 = 1 THEN bytes[(i + 1) \div 2] \div 16 ELSE bytes[i \div 2] % 16]
      places == {i \in DOMAIN digits : digits[i] # 0}
  IN  IF places = {} THEN <<0>> ELSE SubSeq(digits, First(places), Len(digits))

FromHex(digits, bytes) ==
  LET missing == 2 * bytes - Len(digits)
      At(i) == IF i > missing THEN digits[i - missing] ELSE 0
  IN  [i \in 1..bytes |-> 16 * At(2 * i - 1) + At(2 * i)]

DevicePrefix == {0, 9} \cup 161..169  \* the values of DevicePrefix

(* DeviceID: one of 32 bits has its prefix in the fourth byte from below.  *)
Is32bit(bytes) == SubSeq(bytes, 1, 4) = <<0, 0, 0, 0>>
PrefixByte(bytes) == IF Is32bit(bytes) THEN bytes[5] ELSE bytes[1]
DeviceID(bytes) == IF PrefixByte(bytes) = 0 THEN {} ELSE {bytes}
DeviceText(bytes) == Hex(IF Is32bit(bytes) THEN SubSeq(bytes, 5, 8) ELSE bytes)
ParseDevice(digits) == IF Len(digits) > 16 THEN {} ELSE DeviceID(FromHex(digits, 8))

(* DeviceManagerID: a prefix and an ident; a known prefix, not "Invalid".  *)
ManagerID(bytes) == IF bytes[1] \in DevicePrefix \ {0} THEN {bytes} ELSE {}
ParseManager(digits) == IF Len(digits) > 4 THEN {} ELSE ManagerID(FromHex(digits, 2))

(***************************************************************************)
(* X509Fingerprint: the certificate is saved as a text, the text is cut    *)
(* into tokens, and what is between header and footer is digested.  Of the *)
(* characters of the text, the 64 of base64 are their values; a marker is  *)
(* one character.                                                          *)
(***************************************************************************)
Pad == 64
NewLine == 65
Dashes == 66   \* "-----"
Header == 67   \* "BEGIN CERTIFICATE-----" and the end of its line
Footer == 68   \* "END CERTIFICATE-----"

LineLength == 4  \* bound: of the 64 characters of a line

IsBase64(c) == c < Pad

(* Three bytes are four characters. *)
Weight64 == <<262144, 4096, 64, 1>>
Weight256 == <<65536, 256, 1>>

Encode(bytes) ==
  LET At(i) == IF i \in DOMAIN bytes THEN bytes[i] ELSE 0
      Bits(group) == 65536 * At(3 * group + 1) + 256 * At(3 * group + 2) + At(3 * group + 3)
  IN  [i \in 1..(4 * ((Len(bytes) + 2) \div 3)) |->
         LET group == (i - 1) \div 4
             place == (i - 1) % 4
         IN  IF 3 * group + place > Len(bytes) THEN Pad ELSE (Bits(group) \div Weight64[place + 1]) % 64]

(* The last four have one pad or two. *)
Pads(characters) ==
  LET length == Len(characters)
  IN  CASE characters[length - 1] = Pad -> 2
        [] characters[length - 1] # Pad /\ characters[length] = Pad -> 1
        [] OTHER -> 0

Decode(characters) ==
  LET At(i) == IF characters[i] = Pad THEN 0 ELSE characters[i]
      Bits(group) == 262144 * At(4 * group + 1) + 4096 * At(4 * group + 2) + 64 * At(4 * group + 3) + At(4 * group + 4)
  IN  [i \in 1..(3 * (Len(characters) \div 4) - Pads(characters)) |->
         LET group == (i - 1) \div 3
             place == (i - 1) % 3
         IN  (Bits(group) \div Weight256[place + 1]) % 256]

(* Every line ends with a new line, the last one, too. *)
Lines(characters) ==
  LET length == Len(characters) + (Len(characters) + LineLength - 1) \div LineLength
  IN  [i \in 1..length |-> IF i % (LineLength + 1) = 0 \/ i = length THEN NewLine
                           ELSE characters[i - i \div (LineLength + 1)]]

SaveCertificate(bytes) ==
  <<Dashes, Header>> \o Lines(Encode(bytes)) \o <<Dashes, Footer, NewLine>>

(* A token, and the text behind it. *)
Token(class, value, rest) == [class |-> class, value |-> value, rest |-> rest]

PEMMarkerStartToken(stream) == Token("start", <<>>, Tail(stream))
PEMMarkerToken(stream) == Token("marker", <<stream[1]>>, Tail(stream))

(* Ends of lines are left out. *)
Added(characters, c) == IF c = NewLine THEN characters ELSE Append(characters, c)
Unwrapped(stream, length) ==
  LET value[k \in 0..length] == IF k = 0 THEN <<>> ELSE Added(value[k - 1], stream[k])
  IN  value[length]

(* A text may end with pads. *)
Base64Token(stream) ==
  LET stops == {i \in DOMAIN stream : ~IsBase64(stream[i]) /\ stream[i] \notin {Pad, NewLine}}
      length == IF stops = {} THEN Len(stream) ELSE First(stops) - 1
  IN  Token("content", Unwrapped(stream, length), SubSeq(stream, length + 1, Len(stream)))

(* White space between tokens is passed over. *)
Dark(stream) ==
  LET places == {i \in DOMAIN stream : stream[i] # NewLine}
  IN  IF places = {} THEN <<>> ELSE SubSeq(stream, First(places), Len(stream))

TokenOf(stream) ==
  CASE stream = <<>> -> Token("end", <<>>, <<>>)
    [] stream # <<>> /\ stream[1] = Dashes -> PEMMarkerStartToken(stream)
    [] stream # <<>> /\ stream[1] \in {Header, Footer} -> PEMMarkerToken(stream)
    [] Len(stream) > 1 /\ IsBase64(stream[1]) /\ IsBase64(stream[2]) -> Base64Token(stream)
    [] OTHER -> Token("invalid", <<>>, Tail(stream))

NextToken(stream) == TokenOf(Dark(stream))

(* The bytes that are digested, or none when the text is refused. *)
PerformDigest(pem) ==
  LET start == NextToken(pem)
      header == NextToken(start.rest)
      content == NextToken(header.rest)
      end == NextToken(content.rest)
      footer == NextToken(end.rest)
  IN  IF /\ start.class = "start" /\ header.class = "marker" /\ header.value = <<Header>>
         /\ content.class = "content"
         /\ end.class = "start" /\ footer.class = "marker" /\ footer.value = <<Footer>>
      THEN {Decode(content.value)} ELSE {}

Make(kind, value, digits) ==
  /\ id.kind = "none" /\ id' = [kind |-> kind, value |-> value] /\ text' = digits
  /\ UNCHANGED <<damage, parsed>>

MakeGateway ==
  \E version \in 1..9, data \in GatewayNumbers :
    Make("gateway", GatewayDigits(version, data), GatewayDigits(version, data))

MakeDevice ==
  \E bytes \in DeviceNumbers : DeviceID(bytes) # {} /\ Make("device", bytes, DeviceText(bytes))

MakeManager ==
  \E prefix \in DevicePrefix \ {0}, ident \in Idents :
    Make("manager", <<prefix, ident>>, Hex(<<prefix, ident>>))

MakeCertificate ==
  \E bytes \in Certificates : Make("certificate", bytes, SaveCertificate(bytes))

(* Somebody types the identifier of a gateway from its label. *)
Mistype ==
  /\ id.kind = "gateway" /\ damage = "none" /\ parsed = Unread
  /\ \/ \E i \in DOMAIN text, digit \in 0..9 :
          /\ digit # text[i]
          /\ text' = [text EXCEPT ![i] = digit] /\ damage' = "digit"
     \/ \E i \in 1..(Len(text) - 1) :
          /\ text[i] # text[i + 1]
          /\ text' = [text EXCEPT ![i] = text[i + 1], ![i + 1] = text[i]] /\ damage' = "swapped"
     \/ text' = SubSeq(text, 1, Len(text) - 1) /\ damage' = "cut"
  /\ UNCHANGED <<id, parsed>>

Parse ==
  /\ id.kind # "none" /\ parsed = Unread
  /\ parsed' = CASE id.kind = "gateway" -> ParseGateway(text)
                 [] id.kind = "device" -> ParseDevice(text)
                 [] id.kind = "manager" -> ParseManager(text)
                 [] id.kind = "certificate" -> PerformDigest(text)
  /\ UNCHANGED <<id, text, damage>>

IdentifiersNext == MakeGateway \/ MakeDevice \/ MakeManager \/ MakeCertificate \/ Mistype \/ Parse

(* What has been written is parsed as the same identifier; the check digit *)
(* of a gateway catches every single digit that is wrong and every two     *)
(* neighbours that are swapped, in the version and in the check digit, too. *)
(* The fingerprint of a certificate is that of all its bytes, no more.     *)
IdentifiersReadBack ==
  parsed # Unread => parsed = IF damage = "none" THEN {id.value} ELSE {}
=============================================================================
