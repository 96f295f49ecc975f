------------------------------ MODULE MCSkuTool ------------------------------
(* SkuTool with three files, blocks of three bytes and texts of six to ten  *)
(* lines.                                                                  *)
EXTENDS SkuTool

CONSTANTS original, edited, built

Line(key, value) == <<key, FALSE, value>>
Caps(key, value) == <<key, TRUE, value>>

Languages(ui, audio, language) ==
    <<Line("version", 2), Line("sku_type", 1), Line("ui_language", ui),
      Line("audio_language", audio), Line("default_language", language),
      Line("base_content_version", 63)>>

RetailText == Languages(8191, 3, 1)

(* Masks and languages at and beyond their bounds.                         *)
MaskTexts ==
    {Languages(ui, audio, language) : ui \in {0, 1, 8191, 8192, Garbled},
                                      audio \in {1, 4096},
                                      language \in {-1, 0, 12, 13, Garbled}}

(* Optional lines at and beyond their bounds, repeated ones and wrong ones. *)
MoreLines ==
    {Line("comment", 0), Line("broken", 0), Line("unknown", 1),
     Line("version", 2), Caps("version", 2), Caps("ui_language", 1),
     Line("signon_url", 124), Line("signon_url", 125), Line("signon_url", 0),
     Line("group_overrides", 255), Line("group_overrides", 256),
     Line("demo_mode", 1), Line("demo_mode", 0),
     Line("application_password_signature", 40),
     Line("application_password_signature", 39)}

Urls == {Line("signon_url", 1), Caps("signon_url", 1)}
WithUrls == {RetailText \o urls : urls \in UNION {[1 .. n -> Urls] : n \in 2 .. 3}}

(* Lines at the place of a required one.                                   *)
Replaced ==
    {[RetailText EXCEPT ![i] = line] :
        i \in {1, 2, 6}, line \in {Line("comment", 0), Caps("version", 2), Line("version", 3),
                                   Line("sku_type", 10), Line("base_content_version", 64)}}

(* Texts of the largest size and beyond it.                                *)
Longest == {RetailText \o [i \in 1 .. n |-> Line("comment", 0)] : n \in 3 .. 6}

Texts ==
    {RetailText, Tail(RetailText)} \cup MaskTexts \cup Replaced \cup WithUrls \cup Longest
    \cup {Append(RetailText, line) : line \in MoreLines}

(* The vendor's file, and one with a block of padding more.                *)
Signed(n, plain) == [i \in 1 .. HeaderSize |-> <<"header", n, i>>] \o Encrypt(plain)
Retail == {Signed(1, Padded(RetailText)),
           Signed(2, Padded(RetailText) \o [i \in 1 .. BlockSize |-> Nul])}

(* One of the signed files, and any draft beside it.                       *)
SomeDisks ==
    {[p \in Paths |-> CASE p = original -> retail [] p = edited -> draft [] OTHER -> NoFile] :
        retail \in Retail, draft \in Texts \cup {NoFile}}

(* Edits at any time: back to the original text, a shorter language mask,   *)
(* and a file that appears where a command is about to save.               *)
SomeEdits ==
    {<<edited, RetailText>>, <<edited, Languages(8191, 2, 1)>>, <<built, RetailText>>}

Command(verb, in, out, template, force) ==
    [verb |-> verb, in |-> in, out |-> out, template |-> template, force |-> force]

SomeCommands ==
    {Command("check", in, in, NoPath, FALSE) : in \in Paths}
    \cup {Command("view", original, original, NoPath, FALSE)}
    \cup {Command("decode", in, out, NoPath, force) :
             in \in {original, built}, out \in {original, edited}, force \in BOOLEAN}
    \cup {Command("encode", edited, out, template, force) :
             out \in {built, edited}, template \in {NoPath, original, built},
             force \in BOOLEAN}
================================================================================
