----------------------------- MODULE Transcoding -----------------------------
(***************************************************************************)
(* The transcoders of strf (detail/utf_encodings.hpp and                   *)
(* detail/single_byte_encodings.hpp), the functions that say beforehand    *)
(* how much they will write, and the choice among them                     *)
(* (detail/facets/encoding.hpp).                                           *)
(*                                                                         *)
(* Units and code points are numbers.  A job is a source in one encoding   *)
(* to be written in another; each step is one round of the transcoder's    *)
(* loop: it reads the units of one character, or of a piece of an invalid  *)
(* one, and writes the same character or a replacement.  How the units get *)
(* into the window of the outbuf is the matter of Transcode and Emit in    *)
(* module Outbuf.                                                          *)
(***************************************************************************)
EXTENDS Charsets, MiniBuffer, SequencesExt

CONSTANTS
  Sources(_), (* the sources in an encoding: a finite set of sequences of  *)
              (* its units                                                *)
  Targets,    (* the encodings to write in                                *)
  After       (* what may follow a source of UTF-16 in memory             *)

Encodings == {"utf8", "utf16", "utf32"} \cup Charsets

Bytes == 0 .. 255
Words == 0 .. 65535

Units(enc) ==
  CASE enc = "utf16" -> Words
    [] enc = "utf32" -> Nat
    [] OTHER         -> Bytes

ASSUME TranscodingAssumption ==
  /\ \A enc \in Encodings : Sources(enc) \subseteq Seq(Units(enc))
  /\ Targets \subseteq Encodings
  /\ After \subseteq Words

Replacement == 65533

(* How many of the numbers in S n has reached.                             *)
Reached(n, S) == Cardinality({t \in S : n >= t})

-----------------------------------------------------------------------------
(* UTF-8: how the units of a character are recognised.                     *)
Continuation(b) == b \div 64 = 2

SeqLength(b) == 1 + Reached(b, {192, 224, 240})

(* The first unit; the tests of most functions let every unit above 239    *)
(* begin four, that of utf8_sanitize only those up to 247.                 *)
LeadOK(b, top) == b < 128 \/ b \in 194 .. top

FirstTwoOf3(b, c) == (b % 16) * 64 + (c % 64)
FirstTwoOf4(b, c) == (b % 8) * 64 + (c % 64)

(* A mutant: surrogates are let through.                                   *)
SecondOKSurrogates(b, c, lax) ==
  /\ Continuation(c)
  /\ b = 224 => c >= 160
  /\ b >= 240 => FirstTwoOf4(b, c) \in 16 .. 271

SecondOK(b, c, lax) ==
  /\ Continuation(c)
  /\ b = 224 => c >= 160
  /\ b \in 225 .. 239 => lax \/ FirstTwoOf3(b, c) \div 32 # 27
  /\ b >= 240 => FirstTwoOf4(b, c) \in 16 .. 271

(* How many units at the front of s are taken together: a whole character, *)
(* or as much as could have begun one, and never less than one unit.       *)
Taken(s, lax, top) ==
  LET fits(k) == /\ k <= Len(s) /\ k <= SeqLength(s[1])
                 /\ LeadOK(s[1], top) /\ SecondOK(s[1], s[2], lax)
                 /\ \A i \in 3 .. k : Continuation(s[i])
  IN Max({1} \cup {k \in 2 .. Lesser(4, Len(s)) : fits(k)})

IsWhole(s, lax, top) == LeadOK(s[1], top) /\ Taken(s, lax, top) = SeqLength(s[1])

(* utf8_decode: the payload bits of all units.                             *)
Value8(t) ==
  IF Len(t) = 1 THEN t[1]
  ELSE IF Len(t) = 2 THEN (t[1] % 32) * 64 + (t[2] % 64)
  ELSE IF Len(t) = 3 THEN (t[1] % 16) * 4096 + (t[2] % 64) * 64 + (t[3] % 64)
  ELSE (t[1] % 8) * 262144 + (t[2] % 64) * 4096 + (t[3] % 64) * 64 + (t[4] % 64)

Read8(s, lax, top) ==
  LET n == Taken(s, lax, top)
  IN [units |-> n,
      point |-> IF IsWhole(s, lax, top) THEN Value8(SubSeq(s, 1, n)) ELSE Invalid]

(* utf8_to_utf32 and utf8_to_utf16, and utf8_sanitize.                     *)
Decode8(s, lax) == Read8(s, lax, 255)
Sanitize8(s, lax) == Read8(s, lax, 247)

Encode8(c) ==
  IF c < 128 THEN <<c>>
  ELSE IF c < 2048 THEN <<192 + c \div 64, 128 + (c % 64)>>
  ELSE IF c < 65536 THEN <<224 + c \div 4096, 128 + ((c \div 64) % 64), 128 + (c % 64)>>
  ELSE <<240 + c \div 262144, 128 + ((c \div 4096) % 64),
         128 + ((c \div 64) % 64), 128 + (c % 64)>>

-----------------------------------------------------------------------------
(* UTF-16 and UTF-32.                                                      *)
IsSurrogate(c) == c \div 2048 = 27
IsHigh(c) == c \div 1024 = 54
IsLow(c) == c \div 1024 = 55

(* Two surrogates at the front of s that make one character.               *)
IsPair(s) == Len(s) > 1 /\ IsHigh(s[1]) /\ IsLow(s[2])

Decode16(s, lax) ==
  IF IsPair(s) THEN [units |-> 2, point |-> 65536 + (s[1] % 1024) * 1024 + (s[2] % 1024)]
  ELSE [units |-> 1, point |-> IF IsSurrogate(s[1]) /\ ~lax THEN Invalid ELSE s[1]]

(* utf16_to_utf8 looks at the unit after a high surrogate without asking   *)
(* whether it belongs to the source.                                       *)
Decode16To8(s, after, lax) == Decode16(Append(s, after), lax)

Encode16(c) ==
  IF c < 65536 THEN <<c>>
  ELSE <<55296 + (c - 65536) \div 1024, 56320 + ((c - 65536) % 1024)>>

Decode32(c, lax) ==
  [units |-> 1,
   point |-> IF c > 1114111 \/ (IsSurrogate(c) /\ ~lax) THEN Invalid ELSE c]

(* Single bytes, and the two directions of their transcoders.              *)
DecodeByte(enc, s) == [units |-> 1, point |-> DecodeChar(enc, s[1])]

EncodeByte(enc, c) == IF EncodeChar(enc, c) < 256 THEN <<EncodeChar(enc, c)>> ELSE <<>>

-----------------------------------------------------------------------------
(* The choice of the transcoder: a sanitizer, one that decodes to or       *)
(* encodes from UTF-32, or one that UTF-8 has for UTF-16; for any other    *)
(* pair there is none, and decode_encode goes through UTF-32.              *)
HasTranscoder(from, to) ==
  \/ from = to
  \/ "utf32" \in {from, to}
  \/ {from, to} = {"utf8", "utf16"}

(* What the transcoder from one encoding to another reads at the front of  *)
(* the rest s of a source that is followed in memory by the unit after.    *)
ReadFront(from, to, s, after, lax) ==
  CASE from = "utf8"  -> IF to = "utf8" THEN Sanitize8(s, lax) ELSE Decode8(s, lax)
    [] from = "utf16" -> IF to = "utf8" THEN Decode16To8(s, after, lax) ELSE Decode16(s, lax)
    [] from = "utf32" -> Decode32(s[1], lax)
    [] OTHER          -> DecodeByte(from, s)

(* What it writes for a code point; nothing when to has no such character. *)
Encoded(to, c) ==
  CASE to = "utf8"  -> Encode8(c)
    [] to = "utf16" -> Encode16(c)
    [] to = "utf32" -> <<c>>
    [] OTHER        -> EncodeByte(to, c)

Replaced(to) ==
  CASE to = "utf8" -> Encode8(Replacement)
    [] to \in {"utf16", "utf32"} -> <<Replacement>>
    [] OTHER -> <<63>>

(* A mutant: only what is wrong with the source is an error.               *)
IsErrorOfSource(to, c) == c = Invalid

IsError(to, c) == c = Invalid \/ Encoded(to, c) = <<>>

Written(to, c) == IF IsError(to, c) THEN Replaced(to) ELSE Encoded(to, c)

-----------------------------------------------------------------------------
(* A single character: validate, which says its size; char_size, which     *)
(* puts the size of the replacement for an invalid one; and encode_fill.   *)
Validate(to, c) ==
  CASE to = "utf8"  -> IF c < 1114112 THEN 1 + Reached(c, {128, 2048, 65536}) ELSE Invalid
    [] to = "utf16" -> IF c < 1114112 THEN 1 + Reached(c, {65536}) ELSE Invalid
    [] to = "utf32" -> 1
    [] OTHER        -> IF EncodeChar(to, c) < 256 THEN 1 ELSE Invalid

CharSize(to, c) ==
  IF Validate(to, c) # Invalid THEN Validate(to, c) ELSE Len(Replaced(to))

(* A mutant: a surrogate is not looked for.                                *)
Fill8Surrogates(c, lax) == IF c < 1114112 THEN Encode8(c) ELSE Replaced("utf8")

Fill8(c, lax) ==
  IF c < 1114112 /\ (lax \/ ~IsSurrogate(c)) THEN Encode8(c) ELSE Replaced("utf8")

Fill16(c, lax) ==
  IF c < 1114112 /\ (lax \/ ~IsSurrogate(c)) THEN Encode16(c) ELSE <<Replacement>>

Fill32(c, lax) ==
  IF c > 1114111 \/ (~lax /\ IsSurrogate(c)) THEN <<Replacement>> ELSE <<c>>

FillByte(enc, c) == IF EncodeChar(enc, c) >= 256 THEN <<63>> ELSE <<EncodeChar(enc, c)>>

EncodeFill(to, count, c, lax) ==
  FlattenSeq([i \in 1 .. count |-> CASE to = "utf8"  -> Fill8(c, lax)
                                     [] to = "utf16" -> Fill16(c, lax)
                                     [] to = "utf32" -> Fill32(c, lax)
                                     [] OTHER        -> FillByte(to, c)])

-----------------------------------------------------------------------------
(* The size functions have loops of their own.                             *)

(* utf8_to_utf8_size, utf8_to_utf16_size and utf8_to_utf32_size.           *)
Size8To8(whole, n) == IF whole THEN n ELSE 3
Size8To16(whole, n) == IF whole /\ n = 4 THEN 2 ELSE 1
Size8To32(whole, n) == 1

Measure8(s, to, lax) ==
  LET n == Taken(s, lax, 255)
      whole == IsWhole(s, lax, 255)
  IN [units |-> n,
      size |-> CASE to = "utf8"  -> Size8To8(whole, n)
                 [] to = "utf16" -> Size8To16(whole, n)
                 [] OTHER        -> Size8To32(whole, n)]

(* The same from UTF-16; a surrogate that is not in a pair has a size as   *)
(* any unit, which is that of the replacement.                             *)
Size16To8(s) == IF IsPair(s) THEN 4 ELSE 1 + Reached(s[1], {128, 2048})
Size16To16(s) == IF IsPair(s) THEN 2 ELSE 1
Size16To32(s) == 1

(* A mutant: a pair is not seen as one character.                          *)
Measure16Units(s, to) ==
  [units |-> 1,
   size |-> CASE to = "utf8"  -> Size16To8(<<s[1]>>)
              [] to = "utf16" -> 1
              [] OTHER        -> 1]

Measure16(s, to) ==
  [units |-> IF IsPair(s) THEN 2 ELSE 1,
   size |-> CASE to = "utf8"  -> Size16To8(s)
              [] to = "utf16" -> Size16To16(s)
              [] OTHER        -> Size16To32(s)]

(* And from UTF-32.                                                        *)
Size32To8(c) == IF c < 1114112 THEN 1 + Reached(c, {128, 2048, 65536}) ELSE 3
Size32To16(c) == IF c >= 65536 /\ c < 1114112 THEN 2 ELSE 1

Measure32(c, to) ==
  [units |-> 1,
   size |-> CASE to = "utf8"  -> Size32To8(c)
              [] to = "utf16" -> Size32To16(c)
              [] OTHER        -> 1]

(* decode_encode_size: a buffered_size_calculator decodes with the policy  *)
(* to replace, and asks the size function of the destination's encoding.   *)
MeasureTwice(from, to, s, lax) ==
  LET r == ReadFront(from, "utf32", s, 0, lax)
      c == IF r.point = Invalid THEN Replacement ELSE r.point
  IN [units |-> r.units, size |-> Measure32(c, to).size]

Measure(from, to, s, lax) ==
  IF ~HasTranscoder(from, to) THEN MeasureTwice(from, to, s, lax)
  ELSE CASE from = "utf8"  -> Measure8(s, to, lax)
         [] from = "utf16" -> Measure16(s, to)
         [] from = "utf32" -> Measure32(s[1], to)
         [] OTHER          -> [units |-> 1, size |-> 1]

(* necessary_size.                                                         *)
NecessarySize(from, to, src, lax) ==
  LET sizeFrom[i \in 1 .. Len(src) + 1] ==
        IF i > Len(src) THEN 0
        ELSE LET q == Measure(from, to, SubSeq(src, i, Len(src)), lax)
             IN q.size + sizeFrom[i + q.units]
  IN sizeFrom[1]

(* codepoints_count, which the width of a string is computed with.         *)
CodepointsCount8(src) == Cardinality({i \in DOMAIN src : ~Continuation(src[i])})

(* A mutant: every unit of UTF-16 is counted.                              *)
CodepointsCount16Units(src) == Len(src)

CodepointsCount16(src) ==
  LET from[i \in 1 .. Len(src) + 2] ==
        IF i > Len(src) THEN 0 ELSE 1 + from[IF IsHigh(src[i]) THEN i + 2 ELSE i + 1]
  IN from[1]

CodepointsCount(enc, src, max) ==
  Lesser(max, CASE enc = "utf8"  -> CodepointsCount8(src)
                [] enc = "utf16" -> CodepointsCount16(src)
                [] OTHER         -> Len(src))

-----------------------------------------------------------------------------
VARIABLES
  job,      (* what is to be transcoded, and the policies                  *)
  at,       (* the first unit not yet read                                 *)
  pending,  (* the code points in the mini buffer of a buffered_encoder    *)
  text,     (* what the destination has got                                *)
  status    (* "going", "done", or "threw": the policy is to stop          *)

textVars == <<job, at, pending, text, status>>

TextBegins == at = 1 /\ pending = <<>> /\ text = <<>> /\ status = "going"

TextInit ==
  /\ \E from \in Encodings, to \in Targets, lax, stop \in BOOLEAN :
       \E src \in Sources(from), after \in IF from = "utf16" THEN After ELSE {0} :
         job = [from |-> from, to |-> to, src |-> src, after |-> after,
                lax |-> lax, stop |-> stop]
  /\ TextBegins

Rest == SubSeq(job.src, at, Len(job.src))

More == status = "going" /\ at <= Len(job.src)

(* A transcoder that goes the whole way.  The sanitizer of UTF-8 copies    *)
(* what it takes for a character, and the one of UTF-16 and of UTF-32 too. *)
Convert ==
  /\ More /\ HasTranscoder(job.from, job.to)
  /\ LET r == ReadFront(job.from, job.to, Rest, job.after, job.lax)
     IN IF job.stop /\ IsError(job.to, r.point)
        THEN status' = "threw" /\ UNCHANGED <<at, text>>
        ELSE /\ at' = at + r.units
             /\ text' = text \o Written(job.to, r.point)
             /\ UNCHANGED status
  /\ UNCHANGED <<job, pending>>

(* decode_encode: the decoder puts one more code point into the mini       *)
(* buffer, or a replacement.  It looks for room after it has decoded, and  *)
(* an error it stops at is found before that.                              *)
Buffer ==
  /\ More /\ ~HasTranscoder(job.from, job.to)
  /\ LET r == ReadFront(job.from, "utf32", Rest, job.after, job.lax)
     IN IF r.point = Invalid /\ job.stop
        THEN status' = "threw" /\ UNCHANGED <<at, pending>>
        ELSE /\ Len(pending) < MiniSize
             /\ at' = at + r.units
             /\ pending' = Append(pending, Written("utf32", r.point)[1])
             /\ UNCHANGED status
  /\ UNCHANGED <<job, text>>

(* recycle() or finish() of the buffered_encoder: what is pending is       *)
(* encoded, up to the first that has no code in the destination's encoding *)
(* when the policy is to stop.                                             *)
Flush ==
  /\ status = "going" /\ pending # <<>>
  /\ at > Len(job.src) \/ Len(pending) = MiniSize
  /\ (at <= Len(job.src) /\ job.stop) =>
       ReadFront(job.from, "utf32", Rest, job.after, job.lax).point # Invalid
  /\ LET bad == {i \in DOMAIN pending : job.stop /\ IsError(job.to, pending[i])}
         n   == Min({Len(pending) + 1} \cup bad) - 1
     IN /\ text' = text \o FlattenSeq([i \in 1 .. n |-> Written(job.to, pending[i])])
        /\ status' = IF bad = {} THEN "going" ELSE "threw"
  /\ pending' = <<>>
  /\ UNCHANGED <<job, at>>

Finish ==
  /\ status = "going" /\ at > Len(job.src) /\ pending = <<>>
  /\ status' = "done"
  /\ UNCHANGED <<job, at, pending, text>>

TextNext == Convert \/ Buffer \/ Flush \/ Finish

TextSpec == TextInit /\ [][TextNext]_textVars

-----------------------------------------------------------------------------
(* What the encodings are: the well-formed sequences of UTF-8 of table 3-7 *)
(* of the Unicode standard, a row for each kind of first unit.             *)
Trail == 128 .. 191

Rows(lax) ==
  {<<0 .. 127>>, <<194 .. 223, Trail>>,
   <<{224}, 160 .. 191, Trail>>, <<225 .. 236 \cup {238, 239}, Trail, Trail>>,
   <<{237}, IF lax THEN Trail ELSE 128 .. 159, Trail>>,
   <<{240}, 144 .. 191, Trail, Trail>>, <<241 .. 243, Trail, Trail, Trail>>,
   <<{244}, 128 .. 143, Trail, Trail>>}

Agree(row, s, n) == n <= Len(row) /\ n <= Len(s) /\ \A i \in 1 .. n : s[i] \in row[i]

Agreed(s, n, lax) == \E row \in Rows(lax) : Agree(row, s, n)
AgreedWhole(s, n, lax) == \E row \in Rows(lax) : Len(row) = n /\ Agree(row, s, n)

Number8(s, n) ==
  CASE n = 1 -> s[1]
    [] n = 2 -> (s[1] - 192) * 64 + s[2] - 128
    [] n = 3 -> (s[1] - 224) * 4096 + (s[2] - 128) * 64 + s[3] - 128
    [] OTHER -> (s[1] - 240) * 262144 + (s[2] - 128) * 4096 + (s[3] - 128) * 64 + s[4] - 128

Character8(s, lax) ==
  LET n == Max({1} \cup {k \in 1 .. 4 : Agreed(s, k, lax)})
  IN <<n, IF AgreedWhole(s, n, lax) THEN Number8(s, n) ELSE Invalid>>

HighSurrogates == 55296 .. 56319
LowSurrogates == 56320 .. 57343
Surrogates == HighSurrogates \cup LowSurrogates

Number16(h, l) == (h - 55296) * 1024 + (l - 56320) + 65536

Character16(s, lax) ==
  IF Len(s) > 1 /\ s[1] \in HighSurrogates /\ s[2] \in LowSurrogates
  THEN <<2, Number16(s[1], s[2])>>
  ELSE <<1, IF s[1] \in Surrogates /\ ~lax THEN Invalid ELSE s[1]>>

Character32(c, lax) ==
  <<1, IF c > 1114111 \/ (c \in Surrogates /\ ~lax) THEN Invalid ELSE c>>

(* The character at the front of a source, and how many units it takes: a  *)
(* code point, or Invalid for a piece that is none (a piece is as long as a*)
(* well-formed sequence could still follow).                               *)
Character(enc, s, lax) ==
  CASE enc = "utf8"  -> Character8(s, lax)
    [] enc = "utf16" -> Character16(s, lax)
    [] enc = "utf32" -> Character32(s[1], lax)
    [] OTHER         -> <<1, DecodeChar(enc, s[1])>>

CharactersOf(enc, s, lax) ==
  LET from[i \in 1 .. Len(s) + 1] ==
        IF i > Len(s) THEN <<>>
        ELSE LET ch == Character(enc, SubSeq(s, i, Len(s)), lax)
             IN <<ch[2]>> \o from[i + ch[1]]
  IN from[1]

(* What a character becomes: itself if the destination's encoding has it,  *)
(* else the replacement character, or the question mark.                   *)
HasCharacter(to, c) == to \notin Charsets \/ \E b \in 0 .. 255 : DecodeChar(to, b) = c

Becomes(to, c) ==
  IF c # Invalid /\ HasCharacter(to, c) THEN c
  ELSE IF to \in Charsets THEN 63 ELSE Replacement

(* Sources that not all functions take for the same: utf8_sanitize alone   *)
(* looks whether a first unit is one from F8 to FF, and utf16_to_utf8      *)
(* alone beyond the end of the source.                                     *)
Ambiguous ==
  \/ job.from = "utf8" /\ \E i \in DOMAIN job.src : job.src[i] > 247
  \/ job.from = "utf16" /\ job.src # <<>> /\ IsHigh(Last(job.src)) /\ IsLow(job.after)

Characters == CharactersOf(job.from, job.src, job.lax)

Wrong(c) == c = Invalid \/ ~HasCharacter(job.to, c)

(* When the policy lets surrogates through, a high and a low one that were *)
(* not a pair are a pair for the reader of UTF-16.                         *)
Legible ==
  \A i \in 1 .. Len(Characters) - 1 :
    ~(job.to = "utf16" /\ IsHigh(Characters[i]) /\ IsLow(Characters[i + 1]))

(* A transcoder, or two of them one after the other, writes every          *)
(* character of the source and a replacement for every piece of it that is *)
(* none, and what it writes is well formed (utf8_to_utf16_transcode and    *)
(* its like, single_byte_encoding::from_utf32, decode_encode).             *)
TextRight ==
  status = "done" /\ Legible /\ ~Ambiguous =>
    CharactersOf(job.to, text, job.lax)
      = [i \in DOMAIN Characters |-> Becomes(job.to, Characters[i])]

(* The size functions, whose loops are not those of the transcoders, say   *)
(* exactly what will be written: the room a string is created with.  (What *)
(* is ambiguous has one meaning where all look at it in the same way.)     *)
SizeExact ==
  status = "done" /\ ~(Ambiguous /\ job.to = "utf8") =>
    Len(text) = NecessarySize(job.from, job.to, job.src, job.lax)

(* With the policy to stop, an exception comes exactly when something      *)
(* would have to be replaced; what is before it may be lost in the mini    *)
(* buffer, but what the destination has got is in order and without        *)
(* replacement (invalid_seq_policy::stop).                                 *)
StopsAtInvalid ==
  LET got == CharactersOf(job.to, text, job.lax)
  IN ~Ambiguous =>
     /\ status = "threw" => job.stop /\ \E i \in DOMAIN Characters : Wrong(Characters[i])
     /\ status = "done" /\ job.stop => \A i \in DOMAIN Characters : ~Wrong(Characters[i])
     /\ job.stop /\ Legible => IsPrefix(got, Characters)
     /\ status = "threw" /\ HasTranscoder(job.from, job.to) /\ Legible => Wrong(Characters[Len(got) + 1])

(* A character that fills, written many times by encode_fill, is the one   *)
(* the transcoder writes, and as long as char_size announces.              *)
FillRight ==
  status = "done" /\ job.from = "utf32" /\ Len(job.src) = 1 =>
    \A n \in 0 .. 2 :
      LET fill == EncodeFill(job.to, n, job.src[1], job.lax)
      IN /\ fill = FlattenSeq([i \in 1 .. n |-> text])
         /\ Len(fill) = n * CharSize(job.to, job.src[1])

(* The number of characters of a valid source, up to a limit, is what      *)
(* codepoints_count says: widths are computed with it.                     *)
CountRight ==
  /\ status = "done" /\ ~job.lax /\ ~Ambiguous
  /\ \A i \in DOMAIN Characters : Characters[i] # Invalid
  => \A max \in 0 .. 3 :
      CodepointsCount(job.from, job.src, max) = Lesser(max, Len(Characters))

=============================================================================
