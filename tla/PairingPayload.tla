--------------------------- MODULE PairingPayload ---------------------------
(***************************************************************************)
(* pairing/payload.go: the clashctl-pair:// URI that carries the trust     *)
(* material from the agent's screen to the controller.                     *)
(*                                                                         *)
(* Strings are sequences of bytes.  A URI is its authority and the list of *)
(* its parameters: no encoded value holds a delimiter, so that cutting it  *)
(* at them cannot go wrong inside a value (the lemmas of                   *)
(* PairingPayloadProofs).  A conversion that may fail returns the set of   *)
(* its results: empty when it returns an error.                            *)
(***************************************************************************)
EXTENDS Integers, Sequences

Bytes == 0..255
Percent == 37
Colon == 58
Open == 91
Shut == 93
Digits == 48..57
Delimiters == {35, 38, 47, 58, 61, 63}   \* # & / : = ?

\* The parameters a payload must have.
Required == {"id", "fp", "token"}
canonicalParamOrder == <<"id", "name", "app", "fp", "token">>
Params == {canonicalParamOrder[i] : i \in DOMAIN canonicalParamOrder}

isUnreserved(c) == c \in (65..90) \cup (97..122) \cup Digits \cup {45, 46, 95, 126}

upperhex(n) == IF n < 10 THEN 48 + n ELSE 55 + n

\* %XX: the two hexadecimal digits of a byte.
Triplet(c) == <<Percent, upperhex(c \div 16), upperhex(c % 16)>>

encodeComponent(s) ==
  LET enc[i \in 0..Len(s)] ==
        IF i = 0 THEN <<>>
        ELSE enc[i - 1] \o (IF isUnreserved(s[i]) THEN <<s[i]>> ELSE Triplet(s[i]))
  IN  enc[Len(s)]

\* The value of a hexadecimal digit of either case.
unhex(c) == CASE c \in Digits -> {c - 48}
              [] c \in 97..102 -> {c - 87}
              [] c \in 65..70 -> {c - 55}
              [] OTHER -> {}

decodeComponent(s) ==
  LET dec[i \in 1..(Len(s) + 1)] ==
        IF i > Len(s) THEN {<<>>}
        ELSE IF s[i] # Percent THEN {<<s[i]>> \o rest : rest \in dec[i + 1]}
        ELSE IF i + 2 > Len(s) THEN {}
        ELSE {<<16 * hi + lo>> \o rest : hi \in unhex(s[i + 1]), lo \in unhex(s[i + 2]),
                                         rest \in dec[i + 3]}
  IN  dec[1]

-----------------------------------------------------------------------------
\* %d of Fprintf, for a port.
Decimal(n) ==
  LET dec[k \in 0..n] == IF k < 10 THEN <<48 + k>> ELSE dec[k \div 10] \o <<48 + (k % 10)>>
  IN  dec[n]

\* %d of Sscanf: the digits s starts with, whatever follows them (a sign or
\* blanks before them, which Encode never writes, are left out).
ScanInt(s) ==
  LET lengths == {n \in 1..Len(s) : \A i \in 1..n : s[i] \in Digits}
      val[i \in 0..Len(s)] == IF i = 0 THEN 0 ELSE 10 * val[i - 1] + s[i] - 48
  IN  {val[n] : n \in {m \in lengths : \A k \in lengths : k <= m}}

Has(s, c) == \E i \in DOMAIN s : s[i] = c
LastIndex(s, c) == CHOOSE i \in DOMAIN s : s[i] = c /\ \A j \in DOMAIN s : s[j] = c => j <= i

\* An IPv6 literal goes between brackets.
Bracketed(ip) == IF Has(ip, Colon) /\ Head(ip) # Open THEN <<Open>> \o ip \o <<Shut>> ELSE ip

splitHostPort(authority) ==
  IF authority # <<>> /\ Head(authority) = Open
  THEN IF ~Has(authority, Shut) THEN {}
       ELSE LET end == LastIndex(authority, Shut)
                rest == SubSeq(authority, end + 1, Len(authority))
            IN  IF rest = <<>> \/ Head(rest) # Colon THEN {}
                ELSE {[host |-> SubSeq(authority, 2, end - 1), port |-> Tail(rest)]}
  ELSE IF ~Has(authority, Colon) THEN {}
       ELSE LET i == LastIndex(authority, Colon)
            IN  {[host |-> SubSeq(authority, 1, i - 1),
                  port |-> SubSeq(authority, i + 1, Len(authority))]}

-----------------------------------------------------------------------------
\* Encode: an incomplete payload is an error.
Encode(p) ==
  IF p.ip = <<>> \/ p.port = 0 \/ \E k \in Required : p[k] = <<>> THEN {}
  ELSE {[authority |-> Bracketed(p.ip) \o <<Colon>> \o Decimal(p.port),
         params |-> [i \in DOMAIN canonicalParamOrder |->
                       [key |-> canonicalParamOrder[i],
                        value |-> encodeComponent(p[canonicalParamOrder[i]])]]]}

\* Of parameters with the same key the last one counts.
Field(params, k) ==
  LET at == {i \in DOMAIN params : params[i].key = k}
  IN  IF at = {} THEN <<>>
      ELSE LET i == CHOOSE x \in at : \A y \in at : y <= x
           IN  CHOOSE v \in decodeComponent(params[i].value) : TRUE

\* The payloads an authority and parameters that decode can stand for.
Parsed(uri) ==
  UNION {{[ip |-> hp.host, port |-> n,
           id |-> Field(uri.params, "id"), name |-> Field(uri.params, "name"),
           app |-> Field(uri.params, "app"), fp |-> Field(uri.params, "fp"),
           token |-> Field(uri.params, "token")] : n \in ScanInt(hp.port)} :
         hp \in splitHostPort(uri.authority)}

Decodes(uri) == \A i \in DOMAIN uri.params : decodeComponent(uri.params[i].value) # {}

\* Mutant of Decode: what is required is not looked for.
DecodeIncomplete(uri) == IF Decodes(uri) THEN Parsed(uri) ELSE {}

\* Decode: every value must decode, those of unknown parameters too, and what
\* is required must be there.  Nothing is asked of the host.
Decode(uri) ==
  IF Decodes(uri) THEN {p \in Parsed(uri) : p.port # 0 /\ \A k \in Required : p[k] # <<>>}
  ELSE {}

-----------------------------------------------------------------------------
\* The orders parameters may come in, all of them or some.
Orders ==
  {o \in UNION {[1..n -> DOMAIN canonicalParamOrder] : n \in 0..Len(canonicalParamOrder)} :
     \A i, j \in DOMAIN o : o[i] = o[j] => i = j}

\* What may happen to a URI that is pasted or made by another encoder: the
\* parameters in any order, some missing, one more, the end cut off.
Edits == [order: Orders, extra: BOOLEAN, cut: BOOLEAN]

ButLast(s) == SubSeq(s, 1, Len(s) - 1)

\* The i-th of the parameters that are left, and the one that was added.
Left(uri, e, i) ==
  LET param == uri.params[e.order[i]]
  IN  IF e.cut /\ i = Len(e.order) THEN [key |-> param.key, value |-> ButLast(param.value)]
      ELSE param
Added(e) == IF e.extra THEN <<[key |-> "lang", value |-> <<>>]>> ELSE <<>>

Edited(uri, e) ==
  [authority |-> uri.authority,
   params |-> Added(e) \o [i \in 1..Len(e.order) |-> Left(uri, e, i)]]

\* What Decode makes of a payload that was encoded and edited.
Reread(p, e) == UNION {Decode(Edited(u, e)) : u \in Encode(p)}

\* The parameters an edit drops, and the one it cuts.
Lost(e) == Params \ {canonicalParamOrder[e.order[i]] : i \in DOMAIN e.order}
Cut(e) == IF e.cut /\ e.order # <<>> THEN {canonicalParamOrder[e.order[Len(e.order)]]} ELSE {}

\* What is read is what was shown, but for the parameters the edit dropped or
\* cut; without a required one nothing is read.
Faithful(p, e, results) ==
  /\ \A q \in results :
       /\ \A k \in DOMAIN p \ (Lost(e) \cup Cut(e)) : q[k] = p[k]
       /\ \A k \in Cut(e) : q[k] \in {p[k], ButLast(p[k])}
       /\ \A k \in Lost(e) : q[k] = <<>>
  /\ Lost(e) \cap Required # {} => results = {}
  /\ Lost(e) \cap Required = {} /\ ~e.cut => results # {}
=============================================================================
