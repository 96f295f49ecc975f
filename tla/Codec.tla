-------------------------------- MODULE Codec --------------------------------
(***************************************************************************)
(* sku/codec.cpp: what a file of options is, which texts are accepted, and  *)
(* the padding around the cipher.  A file is a sequence of units, each a    *)
(* tuple whose first element tells its kind, and sizes count units:         *)
(*   <<key, caps, value>>      a line of text; caps: key not in lower case  *)
(*   <<"nul">>                 a padding byte                               *)
(*   <<"header", n, i>>        byte i of the signature header of file n     *)
(*   <<"cipher", prefix, i>>   byte i of the last block of what CBC makes   *)
(*                             of the plaintext prefix                      *)
(* The key of a comment or an empty line is "comment", that of a line that  *)
(* is wrong in itself (no =, not ASCII, too long) "broken".  Number keys    *)
(* have the number as their value, Garbled when there is none; sku_type has *)
(* its place in the list of the known ones (10: in no place); the other     *)
(* keys have the length of their text.                                     *)
(***************************************************************************)
EXTENDS Integers, FiniteSets, Sequences, SequencesExt

CONSTANTS
    BlockSize, MaxSize, HeaderSize,     \* kBlockSize, kMaxSize, kSignedHeaderSize
    Garbled                             \* no decimal integer

ASSUME CodecAssumption ==
    /\ BlockSize \in Nat \ {0} /\ HeaderSize \in Nat \ {0}
    /\ MaxSize \in Nat /\ MaxSize % BlockSize = 0

Nul == <<"nul">>
IsLine(unit) == unit[1] \notin {"nul", "header", "cipher"}

NumberKeys == {"version", "ui_language", "audio_language", "default_language", "demo_mode"}
Known == NumberKeys \cup {"sku_type", "base_content_version", "signon_url",
                          "group_overrides", "application_password_signature"}
Required == {"version", "sku_type", "ui_language", "audio_language",
             "default_language", "base_content_version"}

--------------------------------------------------------------------------------
(* AES-CBC: a block depends on the plaintext up to its end.  A payload that *)
(* was not made from any text comes out as noise, here as nothing.         *)
Encrypt(plain) ==
    [i \in DOMAIN plain |->
        LET block == (i - 1) \div BlockSize
        IN  <<"cipher", SubSeq(plain, 1, (block + 1) * BlockSize), (i - 1) % BlockSize>>]

Decrypt(payload) ==
    LET plain == [i \in DOMAIN payload |-> Last(payload)[2][i]]
    IN  IF (\A i \in DOMAIN payload : payload[i][1] = "cipher") /\ payload = Encrypt(plain)
        THEN plain ELSE << >>

PaddedDown(text) ==     \* fault: the length is rounded down
    [i \in 1 .. (Len(text) \div BlockSize) * BlockSize |-> text[i]]

Padded(text) ==
    [i \in 1 .. ((Len(text) + BlockSize - 1) \div BlockSize) * BlockSize |->
        IF i <= Len(text) THEN text[i] ELSE Nul]

Stripped(plain) ==
    SubSeq(plain, 1, SelectLastInSeq(plain, LAMBDA unit : unit # Nul))

Rejected == [format |-> "rejected", text |-> << >>]

IsPlaintext(input) == input[1][1] = "version" /\ ~input[1][2]
IsSigned(input) == 1 \in DOMAIN input /\ input[1][1] = "header"
Payload(input) ==
    IF IsSigned(input) THEN SubSeq(input, HeaderSize + 1, Len(input)) ELSE input

Decode(input) ==
    IF input = << >> \/ Len(input) > MaxSize + HeaderSize THEN Rejected
    ELSE IF IsPlaintext(input) THEN [format |-> "plaintext", text |-> input]
    ELSE LET text == Stripped(Decrypt(Payload(input)))
         IN  IF \/ IsSigned(input) /\ Len(input) <= HeaderSize
                \/ Len(Payload(input)) % BlockSize # 0
                \/ text = << >>
                \/ \E i \in DOMAIN text : ~IsLine(text[i])
             THEN Rejected
             ELSE [format |-> IF IsSigned(input) THEN "signed" ELSE "encrypted",
                   text |-> text]

--------------------------------------------------------------------------------
(* validate, line by line and then option by option.                       *)
Lines(text, key) == {i \in DOMAIN text : text[i][1] = key}
EarlierAsSpelled(text, i) ==    \* fault: keys are compared before they are lowered
    {j \in Lines(text, text[i][1]) : j < i /\ text[j][2] = text[i][2]}

Earlier(text, i) == {j \in Lines(text, text[i][1]) : j < i}

LineAccepted(text, i) ==
    LET key == text[i][1]
        value == text[i][3]
    IN  \/ key = "comment"
        \/ /\ key \in Known
           /\ key \notin NumberKeys => value > 0
           /\ key = "signon_url" => Cardinality(Earlier(text, i)) < 2 /\ value <= 124
           /\ key # "signon_url" => Earlier(text, i) = {}

Option(text, key) == text[CHOOSE i \in Lines(text, key) : TRUE][3]
IfPresent(text, key, values) == Lines(text, key) # {} => Option(text, key) \in values

Includes(mask, language) == (mask \div 2^language) % 2 = 1

MasksAccepted(ui, audio, language) ==
    /\ ui \in 1 .. 8191
    /\ audio \in 1 .. 8191
    /\ language \in 0 .. 12
    /\ Includes(ui, language)
    /\ Includes(audio, language)

Validates(text) ==
    /\ Len(text) \in 1 .. MaxSize
    /\ text[1] = <<"version", FALSE, 2>>
    /\ \A i \in DOMAIN text : LineAccepted(text, i)
    /\ \A key \in Required : Lines(text, key) # {}
    /\ Option(text, "version") = 2
    /\ MasksAccepted(Option(text, "ui_language"), Option(text, "audio_language"),
                     Option(text, "default_language"))
    /\ Option(text, "sku_type") \in 1 .. 9
    /\ Option(text, "base_content_version") \in 1 .. 63
    /\ IfPresent(text, "group_overrides", 1 .. 255)
    /\ IfPresent(text, "demo_mode", {1})
    /\ IfPresent(text, "application_password_signature", {40})
================================================================================
