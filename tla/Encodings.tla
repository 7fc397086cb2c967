------------------------------ MODULE Encodings ------------------------------
(***************************************************************************)
(* The text forms of addresses and hashes: Base58, Bech32 with the SegWit  *)
(* addresses on top of it, and hexadecimal.  A string is a sequence of     *)
(* character codes, a byte string one of bytes.                            *)
(***************************************************************************)
EXTENDS Integers, Sequences, SequencesExt

CONSTANT Checksum(_)   \* the first 4 bytes of the double SHA256 of a byte string

\* what DataConfiguration holds, by the name of the data directory
Configs ==
  [dash |-> [pubkeyPrefix |-> <<76>>, scriptPrefix |-> <<16>>, segwitPrefix |-> <<78, 79, 78, 69>>],
   litecoin |-> [pubkeyPrefix |-> <<48>>, scriptPrefix |-> <<50>>, segwitPrefix |-> <<108, 116, 99>>],
   zcash |-> [pubkeyPrefix |-> <<28, 184>>, scriptPrefix |-> <<28, 189>>, segwitPrefix |-> <<78, 79, 78, 69>>],
   namecoin |-> [pubkeyPrefix |-> <<52>>, scriptPrefix |-> <<13>>, segwitPrefix |-> <<110, 99>>],
   bitcoin |-> [pubkeyPrefix |-> <<0>>, scriptPrefix |-> <<5>>, segwitPrefix |-> <<98, 99>>]]

\* runs of characters
Chars(from, to) == [i \in 1 .. to - from + 1 |-> from + i - 1]
Space == 32
Zero == 48
One == 49
IsUpper(c) == c \in 65 .. 90
IsLower(c) == c \in 97 .. 122
ToLower(c) == IF IsUpper(c) THEN c + 32 ELSE c
IsSpace(c) == c = Space \/ c \in 9 .. 13
Repeat(x, n) == [i \in 1 .. n |-> x]

DropWhile(s, test(_)) ==
  LET stops == {i \in DOMAIN s : ~test(s[i])}
  IN IF stops = {} THEN <<>> ELSE SubSeq(s, CHOOSE i \in stops : \A j \in stops : i <= j, Len(s))
DropWhileEnd(s, test(_)) == Reverse(DropWhile(Reverse(s), test))
IsZero(x) == x = 0

-----------------------------------------------------------------------------
(* Base58.                                                                 *)

PszBase58 == Chars(49, 57) \o Chars(65, 72) \o Chars(74, 78) \o Chars(80, 90)
             \o Chars(97, 107) \o Chars(109, 122)
IndexOf(x, s) == CHOOSE i \in DOMAIN s : s[i] = x

\* digits (least significant first) * base + x, to the base radix.  All digits
\* are visited; the code stops early, at `length', behind which all are zero.
\* The last carry must be zero (assert): it does not fit into the digits.
MulAdd(digits, base, x, radix) ==
  LET carry[i \in 0 .. Len(digits)] ==
        IF i = 0 THEN x ELSE (carry[i - 1] + base * digits[i]) \div radix
  IN [digits |-> [i \in DOMAIN digits |-> (carry[i - 1] + base * digits[i]) % radix],
      overflow |-> carry[Len(digits)] # 0]

Convert(s, from, to, size) ==
  FoldLeft(LAMBDA acc, x : IF acc.overflow THEN acc ELSE MulAdd(acc.digits, from, x, to),
           [digits |-> Repeat(0, size), overflow |-> FALSE], s)
Result(r) == DropWhile(Reverse(r.digits), IsZero)

Fails == [ok |-> FALSE]
Decoded(bytes) == [ok |-> TRUE, bytes |-> bytes]

EncodeBase58_NoZeroes(vch) ==     \* mutant: leading zeroes are not written
  LET rest == DropWhile(vch, IsZero)
      digits == Result(Convert(rest, 256, 58, ((Len(rest) * 138) \div 100) + 1))
  IN [i \in DOMAIN digits |-> PszBase58[digits[i] + 1]]

EncodeBase58(vch) ==
  LET rest == DropWhile(vch, IsZero)
      digits == Result(Convert(rest, 256, 58, ((Len(rest) * 138) \div 100) + 1))
  IN Repeat(One, Len(vch) - Len(rest)) \o [i \in DOMAIN digits |-> PszBase58[digits[i] + 1]]

DecodeBase58(psz) ==
  LET start == DropWhile(psz, IsSpace)
      rest == DropWhile(start, LAMBDA c : c = One)
      text == DropWhileEnd(rest, IsSpace)
      digits == [i \in DOMAIN text |-> IndexOf(text[i], PszBase58) - 1]
  IN IF \E i \in DOMAIN text : text[i] \notin Range(PszBase58) THEN Fails
     ELSE Decoded(Repeat(0, Len(start) - Len(rest))
                  \o Result(Convert(digits, 58, 256, ((Len(rest) * 733) \div 1000) + 1)))

EncodeBase58Check(vch) == EncodeBase58(vch \o Checksum(vch))
\* the checksum is cut off, not compared
WithoutChecksum(r) ==
  IF ~r.ok \/ Len(r.bytes) < 4 THEN Fails ELSE Decoded(SubSeq(r.bytes, 1, Len(r.bytes) - 4))
DecodeBase58Check(psz) == WithoutChecksum(DecodeBase58(psz))

\* CBitcoinAddress; SetString takes one byte for the version, however long the
\* prefixes are, and throws InvalidAddressException where it fails
AddressString(config, hash, type) ==
  EncodeBase58Check((IF type = "SCRIPTHASH" THEN config.scriptPrefix ELSE config.pubkeyPrefix) \o hash)
Versioned(r) ==
  IF ~r.ok \/ r.bytes = <<>> THEN Fails
  ELSE [ok |-> TRUE, version |-> SubSeq(r.bytes, 1, 1), data |-> Tail(r.bytes)]
SetString(psz) == Versioned(DecodeBase58Check(psz))

\* Get copies 20 bytes: a longer string is cut, and after a shorter one the hash
\* ends with what lies in memory behind its bytes
InMemory == "in memory"
Get(config, address) ==
  [hash |-> [i \in 1 .. 20 |-> IF i <= Len(address.data) THEN address.data[i] ELSE InMemory],
   type |-> CASE address.version = config.pubkeyPrefix -> "PUBKEYHASH"
              [] address.version # config.pubkeyPrefix /\ address.version = config.scriptPrefix -> "SCRIPTHASH"
              [] OTHER -> "NONSTANDARD"]

-----------------------------------------------------------------------------
(* Bech32.                                                                 *)

Charset ==  \* qpzry9x8gf2tvdw0s3jn54khce6mua7l
  <<113, 112, 122, 114, 121, 57, 120, 56, 103, 102, 50, 116, 118, 100, 119, 48,
    115, 51, 106, 110, 53, 52, 107, 104, 99, 101, 54, 109, 117, 97, 55, 108>>
Generator == <<996825010, 642813549, 513874426, 1027748829, 705979059>>

\* bitwise exclusive or
Xor[x \in Nat, y \in Nat] ==
  IF x = 0 \/ y = 0 THEN x + y ELSE ((x + y) % 2) + 2 * Xor[x \div 2, y \div 2]

PolymodStep[chk \in Nat, v \in Nat] ==
  LET top == chk \div 2^25
      gen[i \in 0 .. 5] ==
        CASE i = 0 -> Xor[(chk % 2^25) * 32, v]
          [] i > 0 /\ (top \div 2^(i - 1)) % 2 = 1 -> Xor[gen[i - 1], Generator[i]]
          [] OTHER -> gen[i - 1]
  IN gen[5]
Polymod(values) ==
  LET chk[k \in 0 .. Len(values)] == IF k = 0 THEN 1 ELSE PolymodStep[chk[k - 1], values[k]]
  IN chk[Len(values)]

ExpandHrp(hrp) ==
  [i \in DOMAIN hrp |-> hrp[i] \div 32] \o <<0>> \o [i \in DOMAIN hrp |-> hrp[i] % 32]
VerifyChecksum(hrp, values) == Polymod(ExpandHrp(hrp) \o values) = 1

CreateChecksum(hrp, values) ==
  LET mod == Xor[Polymod(ExpandHrp(hrp) \o values \o Repeat(0, 6)), 1]
  IN [i \in 1 .. 6 |-> (mod \div 32^(6 - i)) % 32]

EncodeBech32(hrp, values) ==
  LET combined == values \o CreateChecksum(hrp, values)
  IN hrp \o <<One>> \o [i \in DOMAIN combined |-> Charset[combined[i] + 1]]

NoBech32 == [hrp |-> <<>>, values |-> <<>>]
DecodeBech32(str) ==
  LET ones == {i \in DOMAIN str : str[i] = One}
      pos == CHOOSE i \in ones : \A j \in ones : j <= i     \* from 1
      tail == SubSeq(str, pos + 1, Len(str))
      values == [i \in DOMAIN tail |-> IndexOf(ToLower(tail[i]), Charset) - 1]
      hrp == [i \in 1 .. pos - 1 |-> ToLower(str[i])]
  IN IF /\ \A i \in DOMAIN str : str[i] \in 33 .. 126
        /\ ~(\E i, j \in DOMAIN str : IsLower(str[i]) /\ IsUpper(str[j]))
        /\ Len(str) <= 90 /\ ones # {} /\ pos >= 2 /\ pos + 6 <= Len(str)
        /\ \A i \in DOMAIN tail : ToLower(tail[i]) \in Range(Charset)
        /\ VerifyChecksum(hrp, values)
     THEN [hrp |-> hrp, values |-> SubSeq(values, 1, Len(values) - 6)]
     ELSE NoBech32

-----------------------------------------------------------------------------
(* SegWit addresses.                                                       *)

ConvertBits(in, frombits, tobits, pad) ==
  LET drain[acc \in Nat, bits \in Nat] ==
        IF bits < tobits THEN <<>>
        ELSE <<(acc \div 2^(bits - tobits)) % 2^tobits>> \o drain[acc, bits - tobits]
      r == FoldLeft(LAMBDA st, value :
                      LET acc == (st.acc * 2^frombits + value) % 2^(frombits + tobits - 1)
                          bits == st.bits + frombits
                      IN [acc |-> acc, bits |-> bits % tobits, out |-> st.out \o drain[acc, bits]],
                    [acc |-> 0, bits |-> 0, out |-> <<>>], in)
      last == (r.acc * 2^(tobits - r.bits)) % 2^tobits
  IN IF pad THEN Decoded(IF r.bits # 0 THEN Append(r.out, last) ELSE r.out)
     ELSE IF r.bits >= frombits \/ last # 0 THEN Fails
     ELSE Decoded(r.out)

WitnessProgram(version, conv) ==
  IF ~conv.ok THEN Fails
  ELSE IF \/ Len(conv.bytes) \notin 2 .. 40
          \/ version > 16
          \/ version = 0 /\ Len(conv.bytes) \notin {20, 32}
  THEN Fails
  ELSE [ok |-> TRUE, version |-> version, program |-> conv.bytes]
OfBech32(hrp, dec) ==
  IF dec.hrp # hrp \/ dec.values = <<>> THEN Fails
  ELSE WitnessProgram(dec.values[1], ConvertBits(Tail(dec.values), 5, 8, FALSE))
DecodeSegwit(hrp, addr) == OfBech32(hrp, DecodeBech32(addr))

EncodeSegwit(hrp, version, program) ==
  LET ret == EncodeBech32(hrp, <<version>> \o ConvertBits(program, 8, 5, TRUE).bytes)
  IN IF DecodeSegwit(hrp, ret).ok THEN ret ELSE <<>>

\* getAddressFromString: the hash and the type that it looks up, no address, or
\* an exception
LooksUp(hash, type) == [result |-> "looked up", hash |-> hash, type |-> type]
Nullopt == [result |-> "nullopt"]
InvalidAddressException == [result |-> "throws"]

OfSegwit(segwit) ==
  IF ~segwit.ok \/ (segwit.ok /\ segwit.version # 0) THEN Nullopt
  ELSE LooksUp(segwit.program,
               IF Len(segwit.program) = 20 THEN "WITNESS_PUBKEYHASH" ELSE "WITNESS_SCRIPTHASH")
OfBase58(config, address) ==
  IF ~address.ok THEN InvalidAddressException
  ELSE LET got == Get(config, address)
       IN IF got.type = "NONSTANDARD" THEN Nullopt ELSE LooksUp(got.hash, got.type)
GetAddressFromString(config, str) ==
  IF IsPrefix(config.segwitPrefix, str)
  THEN OfSegwit(DecodeSegwit(config.segwitPrefix, str))
  ELSE OfBase58(config, SetString(str))

-----------------------------------------------------------------------------
(* base_blob: numbers of width bytes, the most significant digit first.    *)

HexMap == Chars(48, 57) \o Chars(97, 102)
HexDigits == Range(HexMap) \cup {c - 32 : c \in 97 .. 102}
HexDigit(c) == IndexOf(ToLower(c), HexMap) - 1

GetHex(data) ==
  FoldLeft(LAMBDA acc, b : acc \o <<HexMap[(b \div 16) + 1], HexMap[(b % 16) + 1]>>, <<>>, Reverse(data))

SetHex(psz, width) ==
  LET start == DropWhile(psz, IsSpace)
      rest == IF Len(start) >= 2 /\ start[1] = Zero /\ ToLower(start[2]) = 120
              THEN SubSeq(start, 3, Len(start)) ELSE start
      after == DropWhile(rest, LAMBDA c : c \in HexDigits)
      digits == Reverse(SubSeq(rest, 1, Len(rest) - Len(after)))
      digit(i) == IF i \in DOMAIN digits THEN HexDigit(digits[i]) ELSE 0
  IN [k \in 1 .. width |-> digit(2 * k - 1) + 16 * digit(2 * k)]
=============================================================================
