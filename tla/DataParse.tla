------------------------------ MODULE DataParse -----------------------------
(***************************************************************************)
(* Class DataParseUtil (json/DataParseUtil.cc).  Numbers are returned as   *)
(* bytes, in the widths of the Windows build: int, unsigned and long have  *)
(* four, long long has eight.                                              *)
(***************************************************************************)
EXTENDS JsonParser, JsonSerializer

LineFeed == 10
Open == {91, 123}
Close == {93, 125}

getLevelStr(level) == [i \in 1 .. level |-> 9]

\* Layout goes by the characters alone, those in strings included; if the text ends
\* in a line feed, every character inside brackets gets tabs.
formatJson(json) ==
  LET lined == json # <<>> /\ Last(json) = LineFeed
      step(r, c) ==
        LET text == r.text \o (IF lined THEN getLevelStr(r.level) ELSE <<>>)
            level == CASE c \in Open  -> r.level + 1
                       [] c \in Close -> r.level - 1
                       [] OTHER       -> r.level
        IN [level |-> level,
            text |-> CASE c \in Open \cup {44} -> text \o <<c, LineFeed>> \o getLevelStr(level)
                       [] c \in Close          -> text \o <<LineFeed>> \o getLevelStr(level) \o <<c>>
                       [] OTHER                -> Append(text, c)]
  IN FoldLeft(step, [text |-> <<>>, level |-> 0], json).text

parseData(data) == IF data = <<>> THEN Null ELSE parse(data, FALSE, TRUE)

\* What every getter looks for first.
Given(object, key) == contains(object, key) /\ Type(AtKey(object, key)) # "null"
GivenAs(object, key, types) == Given(object, key) /\ Type(AtKey(object, key)) \in types

getInt(object, key) ==
  IF GivenAs(object, key, Integral) THEN GetInteger(AtKey(object, key), 4) ELSE Zeros(4)

\* (Altered: numbers with a sign are taken as well.)
getUnsignedIntOfAny(object, key) == getInt(object, key)

getUnsignedInt(object, key) ==
  IF GivenAs(object, key, {"number_unsigned"}) THEN GetInteger(AtKey(object, key), 4) ELSE Zeros(4)

getLong(object, key) ==
  IF GivenAs(object, key, Numeric) THEN GetInteger(AtKey(object, key), 4) ELSE Zeros(4)
getLongLong(object, key) ==
  IF GivenAs(object, key, Numeric) THEN GetInteger(AtKey(object, key), 8) ELSE Zeros(8)

getDouble(object, key) ==
  IF GivenAs(object, key, {"number_float"}) THEN Payload(AtKey(object, key)) ELSE FloatZero

\* A value of another type throws here.
getBool(object, key, defaultVal) ==
  IF Given(object, key) THEN GetBoolean(AtKey(object, key)) ELSE <<"boolean", defaultVal>>
getString(object, key) ==
  IF Given(object, key) THEN GetString(AtKey(object, key)) ELSE Str(<<>>)

\* The text of a member, or what dump throws.
getData(object, key) ==
  IF Given(object, key) THEN dump(AtKey(object, key), -1, 32, FALSE, "strict") ELSE <<>>

\* Values go by an implicit conversion to std::string; only objects have keys.
MapOf(json) ==
  LET strings == \A i \in DOMAIN Elements(json) : Type(Elements(json)[i]) = "string"
  IN CASE begin(json) = end(json) -> <<"map", <<>>>>
       [] begin(json) # end(json) /\ Type(json) # "object" -> Throw(207)
       [] begin(json) # end(json) /\ Type(json) = "object" /\ ~strings -> Throw(302)
       [] OTHER -> <<"map", [i \in DOMAIN Payload(json) |-> <<Keys(json)[i], Payload(Elements(json)[i])>>]>>
convertMap(data) == MapOf(parseData(data))
=============================================================================
