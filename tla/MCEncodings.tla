---------------------------- MODULE MCEncodings ----------------------------
(* Units that lie on both sides of every comparison of the transcoders.    *)
EXTENDS Encodings, Integers

UpTo(n, S) == UNION {[1 .. k -> S] : k \in 0 .. n}

MCSources(enc) ==
  CASE enc = "utf8"  -> UpTo(3, {65, 128, 144, 160, 193, 195, 224, 237, 240, 247})
                        \cup [1 .. 4 -> {65, 143, 144, 240, 244}]
                        \cup {<<237, 160, 128, 65>>, <<241, 128, 191, 128, 128>>,
                              <<226, 130, 172, 195, 169>>, <<195, 169, 240, 159, 152, 128>>,
                              <<248>>, <<65, 248, 144, 128, 128>>, <<255, 128, 65>>}
    [] enc = "utf16" -> UpTo(3, {65, 2047, 2048, 55296, 56319, 56320, 57343, 57344})
    [] enc = "utf32" -> UpTo(2, {65, 128, 2048, 55296, 57343, 65535, 65536, 1114111, 1114112})
                        \cup {<<c>> : c \in {164, 8364, 376, 294, 729, 129, 402}}
    [] OTHER         -> {<<b>> : b \in 0 .. 255} \cup UpTo(3, {65, 128, 165})

=============================================================================
