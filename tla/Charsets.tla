------------------------------ MODULE Charsets ------------------------------
(***************************************************************************)
(* The single-byte encodings (detail/single_byte_encodings.hpp).  Each has *)
(* two tables, written down separately in the code: one from a byte to a   *)
(* code point, an array, and one from a code point to a byte, a switch or  *)
(* a list that is searched.  Here too they are two: a table is a sequence  *)
(* of pairs, and what is in none of them stands for itself, if it may.     *)
(***************************************************************************)
EXTENDS Integers, FiniteSets, FiniteSetsExt, Sequences

Invalid == -1

(* What an encode function answers when it has no byte for a code point:   *)
(* any number above 255.                                                   *)
NoByte == 256

Lesser(a, b) == IF a < b THEN a ELSE b

Charsets == {"ascii", "iso_8859_1", "iso_8859_3", "iso_8859_15", "windows_1252"}

(* The second member of the pair that begins with x, or else.              *)
Find(pairs, x, else) ==
  IF \E p \in pairs : p[1] = x THEN (CHOOSE p \in pairs : p[1] = x)[2] ELSE else

-----------------------------------------------------------------------------
(* iso_8859_3: both tables begin at 0xA1.                                  *)
Decode3 ==
  {<<161, 294>>, <<162, 728>>, <<166, 292>>, <<169, 304>>, <<170, 350>>, <<171, 286>>,
   <<172, 308>>, <<175, 379>>, <<177, 295>>, <<182, 293>>, <<185, 305>>, <<186, 351>>,
   <<187, 287>>, <<188, 309>>, <<191, 380>>, <<197, 266>>, <<198, 264>>, <<213, 288>>,
   <<216, 284>>, <<221, 364>>, <<222, 348>>, <<229, 267>>, <<230, 265>>, <<245, 289>>,
   <<248, 285>>, <<253, 365>>, <<254, 349>>, <<255, 729>>}

Holes3 == {165, 174, 190, 195, 208, 227, 240}

Encode3 ==
  {<<264, 198>>, <<265, 230>>, <<266, 197>>, <<267, 229>>, <<284, 216>>, <<285, 248>>,
   <<286, 171>>, <<287, 187>>, <<288, 213>>, <<289, 245>>, <<292, 166>>, <<293, 182>>,
   <<294, 161>>, <<295, 177>>, <<304, 169>>, <<305, 185>>, <<308, 172>>, <<309, 188>>,
   <<348, 222>>, <<349, 254>>, <<350, 170>>, <<351, 186>>, <<364, 221>>, <<365, 253>>,
   <<379, 175>>, <<380, 191>>, <<728, 162>>, <<729, 255>>}

Missing3 ==
  {161, 162, 165, 166, 169, 170, 171, 172, 174, 175, 177, 182, 185, 186, 187, 188, 190, 191,
   195, 197, 198, 208, 213, 216, 221, 222, 227, 229, 230, 240, 245, 248, 253, 254, 255}

(* iso_8859_15: eight characters of iso_8859_1 are replaced.               *)
Decode15 ==
  {<<164, 8364>>, <<166, 352>>, <<168, 353>>, <<180, 381>>,
   <<184, 382>>, <<188, 338>>, <<189, 339>>, <<190, 376>>}

Encode15 ==
  {<<8364, 164>>, <<352, 166>>, <<353, 168>>, <<381, 180>>,
   <<382, 184>>, <<338, 188>>, <<339, 189>>, <<376, 190>>}

Missing15 == {164, 166, 168, 180, 184, 188, 189, 190}

(* windows_1252: the array for 0x80 to 0x9F, and the list.                 *)
Decode1252 ==
  <<8364, 129, 8218, 402, 8222, 8230, 8224, 8225, 710, 8240, 352, 8249, 338, 141, 381, 143,
    144, 8216, 8217, 8220, 8221, 8226, 8211, 8212, 732, 8482, 353, 8250, 339, 157, 382, 376>>

Encode1252 ==
  {<<129, 129>>, <<141, 141>>, <<143, 143>>, <<144, 144>>, <<157, 157>>,
   <<338, 140>>, <<339, 156>>, <<352, 138>>, <<353, 154>>, <<376, 159>>, <<381, 142>>,
   <<382, 158>>, <<402, 131>>, <<710, 136>>, <<732, 152>>, <<8211, 150>>, <<8212, 151>>,
   <<8216, 145>>, <<8217, 146>>, <<8218, 130>>, <<8220, 147>>, <<8221, 148>>, <<8222, 132>>,
   <<8224, 134>>, <<8225, 135>>, <<8226, 149>>, <<8230, 133>>, <<8240, 137>>, <<8249, 139>>,
   <<8250, 155>>, <<8364, 128>>, <<8482, 153>>}

-----------------------------------------------------------------------------
(* decode and encode of the five.                                          *)
DecodeChar(enc, b) ==
  CASE enc = "ascii"        -> IF b < 128 THEN b ELSE Invalid
    [] enc = "iso_8859_3"   -> IF b \in Holes3 THEN Invalid ELSE Find(Decode3, b, b)
    [] enc = "iso_8859_15"  -> Find(Decode15, b, b)
    [] enc = "windows_1252" -> IF b \in 128 .. 159 THEN Decode1252[b - 127] ELSE b
    [] OTHER                -> b

EncodeChar(enc, c) ==
  CASE enc = "ascii"        -> IF c < 128 THEN c ELSE NoByte
    [] enc = "iso_8859_3"   -> Find(Encode3, c, IF c \in (0 .. 255) \ Missing3 THEN c ELSE NoByte)
    [] enc = "iso_8859_15"  -> Find(Encode15, c, IF c \in (0 .. 255) \ Missing15 THEN c ELSE NoByte)
    [] enc = "windows_1252" -> Find(Encode1252, c,
                                    IF c \in 0 .. 127 \cup 160 .. 255 THEN c ELSE NoByte)
    [] OTHER                -> IF c < 256 THEN c ELSE NoByte

=============================================================================
