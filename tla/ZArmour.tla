------------------------------ MODULE ZArmour ------------------------------
(***************************************************************************)
(* zarmour: octets written as text in base 64, 32 or 16, with or without   *)
(* padding and line breaks, and read back.  A character is the number of   *)
(* its place in the alphabet of the mode, or Pad or Break; the variants of *)
(* a base differ in their alphabets only.                                  *)
(***************************************************************************)
EXTENDS Integers, Sequences, SequencesExt, FiniteSetsExt

CONSTANTS
    Octets, MaxOctets,
    LineLengths,
    BreaksPadding   \* whether a line may end within the padding of the text

VARIABLES
    armour,         \* the settings of the zarmour
    data,           \* the octets of the application
    text,           \* what zarmour_encode returned, or NoText
    decoded         \* what zarmour_decode returned of it, or NoChunk

armourVars == <<armour, data, text, decoded>>

Modes == {"base64", "base32", "base16"}
Pad == -1
Break == -2
NoText == <<-3>>
NoChunk == [size |-> 0, bytes |-> <<>>]

zarmour_new == [mode |-> "base64", pad |-> TRUE, line_breaks |-> FALSE, line_length |-> 72]

ArmourInit ==
    /\ armour = zarmour_new
    /\ data \in UNION {[1 .. n -> Octets] : n \in 0 .. MaxOctets}
    /\ text = NoText /\ decoded = NoChunk

-----------------------------------------------------------------------------
(* Encoding.  Octets past the end of the data stand for no octet.            *)

\* The groups of n octets of the data, the last one with what is left.
Groups(s, n) ==
    [g \in 1 .. (Len(s) + n - 1) \div n |-> SubSeq(s, n * (g - 1) + 1, Min({n * g, Len(s)}))]

Padding(encoded, n) == [i \in 1 .. (n - (Len(encoded) % n)) % n |-> Pad]

Encode64(d) ==
    LET n == Len(d)
        D(i) == IF i <= n THEN d[i] ELSE 0
        all == << D(1) \div 4, ((D(1) * 16) % 64) + D(2) \div 16,
                  ((D(2) * 4) % 64) + D(3) \div 64, D(3) % 64 >>
    IN  SubSeq(all, 1, n + 1)

s_base64_encode(s, pad) ==
    LET encoded == FlattenSeq([g \in DOMAIN Groups(s, 3) |-> Encode64(Groups(s, 3)[g])])
    IN  IF pad THEN encoded \o Padding(encoded, 4) ELSE encoded

\* The characters that a last group of so many octets takes.
Chars32 == <<2, 4, 5, 7, 8>>

Encode32(d) ==
    LET n == Len(d)
        D(i) == IF i <= n THEN d[i] ELSE 0
        all == << D(1) \div 8, ((D(1) * 4) % 32) + D(2) \div 64, (D(2) \div 2) % 32,
                  ((D(2) * 16) % 32) + D(3) \div 16, ((D(3) * 2) % 32) + D(4) \div 128,
                  (D(4) \div 4) % 32, ((D(4) * 8) % 32) + D(5) \div 32, D(5) % 32 >>
    IN  SubSeq(all, 1, Chars32[n])

s_base32_encode(s, pad) ==
    LET encoded == FlattenSeq([g \in DOMAIN Groups(s, 5) |-> Encode32(Groups(s, 5)[g])])
    IN  IF pad THEN encoded \o Padding(encoded, 8) ELSE encoded

s_base16_encode(s) == FlattenSeq([i \in DOMAIN s |-> <<s[i] \div 16, s[i] % 16>>])

\* Lines of the length that was set; there is no line end after the last.
Broken(s, length) ==
    LET lines == Groups(s, length)
    IN  FlattenSeq([k \in DOMAIN lines |-> IF k < Len(lines) THEN lines[k] \o <<Break>> ELSE lines[k]])

GroupChars == [base64 |-> 4, base32 |-> 8, base16 |-> 2]

zarmour_encode ==
    LET encoded == CASE armour.mode = "base64" -> s_base64_encode(data, armour.pad)
                     [] armour.mode = "base32" -> s_base32_encode(data, armour.pad)
                     [] armour.mode = "base16" -> s_base16_encode(data)
        breaks == armour.line_breaks /\ armour.line_length > 0 /\ Len(encoded) > armour.line_length
    IN  /\ breaks /\ armour.pad /\ ~BreaksPadding
              => armour.line_length % GroupChars[armour.mode] = 0
        /\ text = NoText
        /\ text' = IF breaks THEN Broken(encoded, armour.line_length) ELSE encoded
        /\ UNCHANGED <<armour, data, decoded>>

-----------------------------------------------------------------------------
(* Decoding.                                                                 *)

IsLetter(c) == c >= 0

\* The text up to its last letter.
Trimmed(s) == SubSeq(s, 1, Max({0} \cup {i \in DOMAIN s : IsLetter(s[i])}))

\* The octet that is written if the characters it needs were there.
Octet(present, value) == IF present THEN <<value % 256>> ELSE <<>>

\* Groups of n letters, with what is not a letter skipped.
LetterGroups(s, n) == Groups(SelectSeq(s, IsLetter), n)

Decode64(c) ==
    LET n == Len(c)
    IN  Octet(n >= 2, c[1] * 4 + c[2] \div 16)
          \o Octet(n >= 3, c[2] * 16 + c[3] \div 4) \o Octet(n >= 4, c[3] * 64 + c[4])

s_base64_decode(s, linebreakchars) ==
    LET length == Len(Trimmed(s)) - linebreakchars
        groups == LetterGroups(s, 4)
    IN  [size |-> 3 * (length \div 4) + (IF length % 4 # 0 THEN (length % 4) - 1 ELSE 0) + 1,
         bytes |-> FlattenSeq([g \in DOMAIN groups |-> Decode64(groups[g])])]

Decode32(c) ==
    LET n == Len(c)
    IN  Octet(n >= 2, c[1] * 8 + c[2] \div 4)
          \o Octet(n >= 4, c[2] * 64 + c[3] * 2 + c[4] \div 16)
          \o Octet(n >= 5, c[4] * 16 + c[5] \div 2)
          \o Octet(n >= 7, c[5] * 128 + c[6] * 4 + c[7] \div 8)
          \o Octet(n >= 8, c[7] * 32 + c[8])

\* The octets of a last group of so many characters; other numbers are an error.
Bytes32 == [n \in {0, 2, 4, 5, 7} |-> CASE n = 0 -> 0 [] n = 2 -> 1 [] n = 4 -> 2 [] n = 5 -> 3 [] n = 7 -> 4]

s_base32_decode(s, linebreakchars) ==
    LET length == Len(Trimmed(s)) - linebreakchars
        groups == LetterGroups(s, 8)
    IN  [size |-> IF length % 8 \in DOMAIN Bytes32
                  THEN 5 * (length \div 8) + Bytes32[length % 8] + 1 ELSE -1,
         bytes |-> FlattenSeq([g \in DOMAIN groups |-> Decode32(groups[g])])]

s_base16_decode(s, linebreakchars) ==
    LET groups == LetterGroups(s, 2)
    IN  [size |-> (Len(s) - linebreakchars) \div 2 + 1,
         bytes |-> FlattenSeq([g \in DOMAIN groups |->
                        Octet(Len(groups[g]) = 2, groups[g][1] * 16 + groups[g][2])])]

LineBreakChars(s) == Len(SelectSeq(s, LAMBDA c : c = Break))

zarmour_decode ==
    /\ text # NoText
    /\ decoded' = CASE armour.mode = "base64" -> s_base64_decode(text, LineBreakChars(text))
                    [] armour.mode = "base32" -> s_base32_decode(text, LineBreakChars(text))
                    [] armour.mode = "base16" -> s_base16_decode(text, LineBreakChars(text))
    /\ UNCHANGED <<armour, data, text>>

-----------------------------------------------------------------------------
\* Another mode makes the text another text.
zarmour_set_mode(mode) ==
    /\ mode # armour.mode
    /\ armour' = [armour EXCEPT !.mode = mode]
    /\ text' = NoText /\ decoded' = NoChunk
    /\ UNCHANGED data

zarmour_set_pad(pad) ==
    /\ armour' = [armour EXCEPT !.pad = pad]
    /\ UNCHANGED <<data, text, decoded>>

zarmour_set_line_breaks(line_breaks) ==
    /\ armour' = [armour EXCEPT !.line_breaks = line_breaks]
    /\ UNCHANGED <<data, text, decoded>>

zarmour_set_line_length(line_length) ==
    /\ armour' = [armour EXCEPT !.line_length = line_length]
    /\ UNCHANGED <<data, text, decoded>>

ArmourNext ==
    \/ \E mode \in Modes : zarmour_set_mode(mode)
    \/ \E on \in BOOLEAN : zarmour_set_pad(on) \/ zarmour_set_line_breaks(on)
    \/ \E length \in LineLengths : zarmour_set_line_length(length)
    \/ zarmour_encode \/ zarmour_decode

ArmourSpec == ArmourInit /\ [][ArmourNext]_armourVars

-----------------------------------------------------------------------------
\* What zarmour_encode wrote, zarmour_decode reads back, octet for octet, in every base,
\* for every length of the last group and whatever was changed in between of the
\* settings that do not name the alphabet: padding, line breaks, line length.
ArmourRestores == decoded # NoChunk => decoded.bytes = data

\* The size that the decoders work out beforehand from the length of the text, without its
\* padding and its line ends, is that of the octets and the null that follows them:
\* neither too small for what is written nor larger than what was armoured.
SizeExact == decoded # NoChunk => decoded.size = Len(data) + 1
=============================================================================
