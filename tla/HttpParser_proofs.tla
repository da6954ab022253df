------------------------- MODULE HttpParser_proofs -------------------------
(***************************************************************************)
(* Proofs about HttpParser, for every width of the length field, every     *)
(* limit on the headers and whatever the peer sends, in any pieces.        *)
(*                                                                         *)
(* The inductive invariant IInv is proved case by case of the switch in    *)
(* http_parser_execute.  Legal(q, m, c) is what a case has to make true of *)
(* the fields q, the marks m and the callbacks c it leaves behind; the     *)
(* three ways out of a case (Break, Reexecute, Fail) have a lemma each     *)
(* that carries Legal over to IInv', so that a case is about its own       *)
(* fields only.                                                            *)
(***************************************************************************)
EXTENDS HttpParser, FiniteSetTheorems, TLAPS

\* The test that http_parser_execute makes before it takes one more digit
\* (http_parser.cpp, "Test against a conservative limit for simplicity") bounds
\* the length with any digit after it.
LEMMA LimitIsConservative ==
    ASSUME NEW max \in Nat, max > 16,
           NEW n \in Nat, NEW base \in {10, 16}, NEW d \in 0..(base - 1),
           ~((max - base) \div base < n)
    PROVE  n * base + d < max
<1>1. CASE base = 10
  <2>1. n <= (max - 10) \div 10
    BY <1>1, SMT
  <2>2. ((max - 10) \div 10) * 10 <= max - 10
    BY SMT
  <2>3. n * 10 <= max - 10
    BY <2>1, <2>2, SMT
  <2> QED
    BY <1>1, <2>3, SMT
<1>2. CASE base = 16
  <2>1. n <= (max - 16) \div 16
    BY <1>2, SMT
  <2>2. ((max - 16) \div 16) * 16 <= max - 16
    BY SMT
  <2>3. n * 16 <= max - 16
    BY <2>1, <2>2, SMT
  <2> QED
    BY <1>2, <2>3, SMT
<1> QED
  BY <1>1, <1>2

\* A digit is accepted only if the length it makes is the number the digits
\* spell: it has not wrapped around in the field, has not become ULLONG_MAX,
\* which stands for "no length", and has not become smaller.
THEOREM AcceptedDigitsAreExact ==
    ASSUME NEW n \in 0..ULLONG_MAX, NEW base \in {10, 16},
           NEW d \in 0..(base - 1), ~Overflows(n, base)
    PROVE  /\ AddDigit(n, base, d) = n * base + d
           /\ AddDigit(n, base, d) < ULLONG_MAX
           /\ AddDigit(n, base, d) >= n
<1>1. ULLONG_MAX \in Nat /\ ULLONG_MAX > 16
  BY ParserAssumption DEF ParserAssumption
<1>2. n \in Nat /\ n * base + d \in Nat
  <2>1. CASE base = 10
    BY <1>1, <2>1, SMT
  <2>2. CASE base = 16
    BY <1>1, <2>2, SMT
  <2> QED
    BY <2>1, <2>2
<1>3. n * base + d < ULLONG_MAX
  BY <1>1, <1>2, LimitIsConservative DEF Overflows
<1>4. n * base + d >= n
  <2>1. CASE base = 10
    BY <1>2, <2>1, SMT
  <2>2. CASE base = 16
    BY <1>2, <2>2, SMT
  <2> QED
    BY <2>1, <2>2
<1>5. (n * base + d) % (ULLONG_MAX + 1) = n * base + d
  <2> DEFINE m == n * base + d
  <2>1. m \in Nat /\ m < ULLONG_MAX
    BY <1>2, <1>3
  <2> HIDE DEF m
  <2>2. m % (ULLONG_MAX + 1) = m
    BY <1>1, <2>1, SMT
  <2> QED
    BY <2>2 DEF m
<1> QED
  BY <1>3, <1>4, <1>5 DEF AddDigit

\* The width of the length field, as ParserAssumption states it.
LEMMA MaxIsNat == ULLONG_MAX \in Nat /\ ULLONG_MAX > 16
  BY ParserAssumption DEF ParserAssumption

\* The limit on the headers, as ParserAssumption states it.
LEMMA LimitIsNat == HTTP_MAX_HEADER_SIZE \in Nat
  BY ParserAssumption DEF ParserAssumption

\* The tables of digits.
LEMMA DigitInRange == \A c : IsNum(c) => Digit[c] \in 0..9
<1> SUFFICES ASSUME NEW c \in DOMAIN Digit PROVE Digit[c] \in 0..9
  BY DEF IsNum
<1> DEFINE digits == <<"0", "1", "2", "3", "4", "5", "6", "7", "8", "9">>
<1>1. \E d \in 0..9 : c = digits[d + 1]
  BY SMT DEF Digit
<1>2. Digit[c] = CHOOSE d \in 0..9 : c = digits[d + 1]
  BY DEF Digit
<1> QED
  BY <1>1, <1>2

\* The digit that http_parser_execute adds to the size of a chunk.
LEMMA UnhexInRange == \A c : IsHex(c) => Unhex(c) \in 0..15
<1> SUFFICES ASSUME NEW c, IsHex(c) PROVE Unhex(c) \in 0..15
  OBVIOUS
<1>1. CASE IsNum(c)
  BY <1>1, DigitInRange DEF Unhex
<1>2. CASE ~IsNum(c) /\ c \in DOMAIN HexLetter
  BY <1>2, SMT DEF Unhex, HexLetter
<1> QED
  BY <1>1, <1>2 DEF IsHex

-----------------------------------------------------------------------------
(* States and bytes. *)

\* No byte of the input is the model's "no byte".
LEMMA BytesAreNotNone == NoByte \notin Bytes
<1>1. Lowers \subseteq {"a", "b", "c", "d", "e", "f", "g", "h", "i", "j", "k",
                        "l", "m", "n", "o", "p", "q", "r", "s", "t", "u", "v",
                        "w", "x", "y", "z"}
  BY SMT DEF Lowers, Uppers, LowerOf
<1>2. NoByte \notin Uppers /\ NoByte \notin DOMAIN Digit
  BY SMT DEF NoByte, Uppers, LowerOf, Digit
<1> QED
  BY <1>1, <1>2, SMT
     DEF NoByte, Bytes, Separators, TokenPunctuation, Controls

\* The names of the states that the switch goes to.
LEMMA StateNames ==
    {"s_dead", "s_res_or_resp_H", "s_res_first_status_code",
     "s_res_status_code", "s_res_status_start", "s_res_status",
     "s_req_method", "s_req_spaces_before_url", "s_req_http_start",
     "s_headers_almost_done", "s_headers_done", "s_res_H", "s_res_HT",
     "s_req_http_H", "s_res_line_almost_done", "s_req_line_almost_done",
     "s_header_almost_done", "s_message_done", "s_body_identity",
     "s_body_identity_eof", "s_header_value_discard_ws_almost_done"}
      \cup StartStates \cup UrlStates \cup HeaderStates \cup ChunkSizeStates
      \cup ChunkDataStates \cup DOMAIN FirstDigits \cup DOMAIN MoreDigits
      \cup DOMAIN Expect \subseteq States
  BY SMT DEF States, StartStates, FirstDigits, MoreDigits, Expect, UrlStates,
     UrlHeads, UrlTails, HeaderStates, ChunkSizeStates, BodyStates,
     ChunkDataStates

\* The states of which the invariant says something of their own.
Special == {"s_req_method", "s_header_field", "s_header_value",
            "s_headers_done", "s_body_identity", "s_body_identity_eof"}
             \cup ChunkSizeStates \cup ChunkDataStates

\* The states of a message before its body.
Heads == States \ (StartStates \cup ChunkSizeStates \cup BodyStates
                     \cup {"s_dead"})
-----------------------------------------------------------------------------
(* The ways out of the switch. *)

\* What LengthsAreExact asks of a step to q.
Exact(q) ==
    s_now \in {"s_header_value", "s_chunk_size"} /\ q.state = s_now
      => /\ q.content_length >= parser.content_length
         /\ q.content_length = ULLONG_MAX => parser.content_length = ULLONG_MAX

\* The switch is executed.
Pass == IInv /\ call = "running" /\ byte # NoByte

\* A step that the theorems of this module allow.
Holds == IInv' /\ Exact(parser')

\* The marks mk fit state s.
MarksOf(s, mk) ==
    /\ mk \in [Texts -> Nat \cup {NoMark}]
    /\ \A t \in Texts \ {"body"} : mk[t] # NoMark <=> t \in TextOf(s)
    /\ mk["body"] # NoMark => s \in BodyMarked

\* The callbacks c have their types, and headers_complete comes in time.
Heard(c) ==
    /\ c \in Seq([on : Callbacks, len : Nat])
    /\ \A i \in DOMAIN c : c[i].on = "headers_complete"
                             => seen <= HTTP_MAX_HEADER_SIZE

\* What Become(q, mk, c) makes of owed and seen.
OwedBy(q, c) ==
    CASE /\ c # <<>> /\ c[1].on = "body"
         /\ parser.state # "s_body_identity_eof" -> owed - c[1].len
      [] /\ q.state \in {"s_body_identity", "s_chunk_data"}
         /\ q.state # parser.state -> q.content_length
      [] OTHER -> owed
SeenBy(q) == IF q.nread = 0 THEN 0 ELSE seen

\* What is owed in q when the marks are m.
Owes(q, m, c) ==
    /\ OwedBy(q, c) \in Int
    /\ q.state \in OwingStates /\ q.http_errno = "OK" =>
         OwedBy(q, c) = q.content_length
                          + (IF m["body"] = NoMark THEN 0 ELSE m["body"])
    /\ q.state \notin OwingStates => OwedBy(q, c) = 0

\* The parser goes on with q, the marks m and the callbacks c.
Legal(q, m, c) ==
    ParserInv(q) /\ q.http_errno = "OK" /\ MarksOf(q.state, m) /\ Heard(c)
      /\ Owes(q, m, c)

\* No text is marked when a call begins.
LEMMA NoMarksFit == NoMarks \in [Texts -> Nat \cup {NoMark}]
  BY DEF NoMarks

\* A text goes on under its mark for one more byte.
LEMMA AdvanceFits ==
    ASSUME NEW s, NEW mk, MarksOf(s, mk)
    PROVE  MarksOf(s, Advance(mk))
<1>1. Advance(mk) \in [Texts -> Nat \cup {NoMark}]
  BY SMT DEF MarksOf, Advance, NoMark
<1>2. \A t \in Texts : Advance(mk)[t] # NoMark <=> mk[t] # NoMark
  BY SMT DEF MarksOf, Advance, NoMark
<1>3. "body" \in Texts
  BY DEF Texts
<1> QED
  BY <1>1, <1>2, <1>3 DEF MarksOf

\* The bytes seen of the headers only start again.
LEMMA SeenIsLess ==
    ASSUME seen \in Nat, NEW q
    PROVE  SeenBy(q) \in Nat /\ SeenBy(q) <= seen
  BY SMT DEF SeenBy

\* The callbacks of a step that goes on are within the limit after it.
LEMMA HeardInTime ==
    ASSUME seen \in Nat, NEW q, NEW c, Heard(c), cb' = c, seen' = SeenBy(q)
    PROVE  cb' \in Seq([on : Callbacks, len : Nat]) /\ HeadersAreLimited'
  BY SeenIsLess, LimitIsNat, SMT DEF Heard, HeadersAreLimited

\* The parts of the invariant that have to do with parser only.
LEMMA Keeps ==
    ASSUME NEW q, ParserInv(q), parser' = q
    PROVE  ParserInv(parser') /\ parser' \in Parsers
  BY DEF ParserInv

\* What Owes says of the step is OwedInv after it.
LEMMA OwedKept ==
    ASSUME NEW q, NEW m, NEW c, Owes(q, m, c), parser' = q, marks' = m,
           owed' = OwedBy(q, c)
    PROVE  owed' \in Int /\ OwedInv'
  BY DEF Owes, OwedInv, s_now

\* A `break` of the switch: the byte is taken.
LEMMA BreakHolds ==
    ASSUME Pass, NEW q, NEW mk, NEW c, Break(q, mk, c),
           Legal(q, Advance(mk), c), Exact(q),
           q.nread = 0 \/ seen <= q.nread,
           q.state = "s_chunk_size_start" => q.nread = 0
    PROVE  Holds
<1> DEFINE m == Advance(mk)
<1>1. parser' = q /\ marks' = m /\ cb' = c /\ seen' = SeenBy(q)
        /\ owed' = OwedBy(q, c)
  BY DEF Break, Become, SeenBy, OwedBy
<1>2. byte' = NoByte /\ run' = 0 /\ jumped' = FALSE /\ call' = "running"
        /\ ret' = ret /\ rest' = rest
  BY DEF Break, Pass
<1>3. ParserInv(q) /\ q.http_errno = "OK" /\ MarksOf(q.state, m) /\ Heard(c)
        /\ Owes(q, m, c)
  BY DEF Legal
<1> HIDE DEF m
<1>4. seen \in Nat /\ ret \in {"all", "short"} /\ rest \in Seq(Bytes)
  BY DEF Pass, IInv, TypeOK
<1>5. cb' \in Seq([on : Callbacks, len : Nat]) /\ HeadersAreLimited'
  BY <1>1, <1>3, <1>4, HeardInTime
<1>6. owed' \in Int /\ OwedInv'
  BY <1>1, <1>3, OwedKept
<1>7. ParserInv(parser') /\ parser' \in Parsers
  BY <1>1, <1>3, Keeps
<1>8. TypeOK'
  <2>1. seen' \in Nat /\ run' \in Nat /\ jumped' \in BOOLEAN
    BY <1>1, <1>2, <1>4, SeenIsLess
  <2>2. marks' \in [Texts -> Nat \cup {NoMark}]
    BY <1>1, <1>3 DEF MarksOf
  <2> QED
    BY <1>2, <1>4, <1>5, <1>6, <1>7, <2>1, <2>2 DEF TypeOK
<1>9. CallInv'
  BY <1>1, <1>2, <1>3 DEF CallInv, MarksOf, s_now
<1>10. NreadInv'
  <2>1. q.nread \in Nat
    BY <1>3, SMT DEF ParserInv, Parsers
  <2>2. seen' \in Nat /\ seen' <= q.nread
    BY <1>1, <1>4, <2>1, SeenIsLess, SMT DEF SeenBy
  <2> QED
    BY <1>1, <1>2, <1>4, <2>1, <2>2, SMT DEF NreadInv, s_now
<1> QED
  BY <1>1, <1>5, <1>6, <1>7, <1>8, <1>9, <1>10 DEF Holds, IInv

\* A `goto reexecute`: the next case looks at the same byte.
LEMMA ReexecuteHolds ==
    ASSUME Pass, NEW q, NEW mk, NEW c, Reexecute(q, mk, c),
           Legal(q, mk, c), Exact(q), seen <= q.nread,
           PARSING_HEADER(q.state) => q.nread <= HTTP_MAX_HEADER_SIZE,
           q.state # "s_chunk_size_start"
    PROVE  Holds
<1>1. parser' = q /\ marks' = mk /\ cb' = c /\ seen' = SeenBy(q)
        /\ owed' = OwedBy(q, c)
  BY DEF Reexecute, Become, SeenBy, OwedBy
<1>2. byte' = byte /\ run' = 0 /\ jumped' = FALSE /\ call' = "running"
        /\ ret' = ret /\ rest' = rest
  BY DEF Reexecute, Pass
<1>3. ParserInv(q) /\ q.http_errno = "OK" /\ MarksOf(q.state, mk) /\ Heard(c)
        /\ Owes(q, mk, c)
  BY DEF Legal
<1>4. seen \in Nat /\ ret \in {"all", "short"} /\ rest \in Seq(Bytes)
        /\ byte \in Bytes \cup {NoByte}
  BY DEF Pass, IInv, TypeOK
<1>5. cb' \in Seq([on : Callbacks, len : Nat]) /\ HeadersAreLimited'
  BY <1>1, <1>3, <1>4, HeardInTime
<1>6. owed' \in Int /\ OwedInv'
  BY <1>1, <1>3, OwedKept
<1>7. ParserInv(parser') /\ parser' \in Parsers
  BY <1>1, <1>3, Keeps
<1>8. TypeOK'
  <2>1. seen' \in Nat /\ run' \in Nat /\ jumped' \in BOOLEAN
    BY <1>1, <1>2, <1>4, SeenIsLess
  <2>2. marks' \in [Texts -> Nat \cup {NoMark}]
    BY <1>1, <1>3 DEF MarksOf
  <2> QED
    BY <1>2, <1>4, <1>5, <1>6, <1>7, <2>1, <2>2 DEF TypeOK
<1>9. CallInv'
  BY <1>1, <1>2, <1>3 DEF CallInv, MarksOf, s_now
<1>10. NreadInv'
  <2>1. q.nread \in Nat
    BY <1>3, SMT DEF ParserInv, Parsers
  <2>2. seen' \in Nat /\ seen' <= q.nread
    BY <1>1, <1>4, <2>1, SeenIsLess, SMT DEF SeenBy
  <2> QED
    BY <1>1, <1>2, <1>4, <2>1, <2>2, SMT DEF NreadInv, s_now
<1> QED
  BY <1>1, <1>5, <1>6, <1>7, <1>8, <1>9, <1>10 DEF Holds, IInv

\* The inner loops stay in their state and announce nothing.
LEMMA InnerHolds ==
    ASSUME Pass, NEW q, NEW j \in BOOLEAN, Inner(q, j),
           Legal(q, Advance(marks), <<>>), Exact(q), q.nread = parser.nread,
           q.state \in {"s_header_field", "s_header_value"}
    PROVE  Holds
<1> DEFINE m == Advance(marks)
<1>1. parser' = q /\ marks' = m /\ cb' = <<>> /\ seen' = SeenBy(q)
        /\ owed' = OwedBy(q, <<>>)
  BY DEF Inner, Become, SeenBy, OwedBy
<1>2. byte' = NoByte /\ run' = run + 1 /\ jumped' = j /\ call' = "running"
        /\ ret' = ret /\ rest' = rest
  BY DEF Inner, Pass
<1>3. ParserInv(q) /\ q.http_errno = "OK" /\ MarksOf(q.state, m) /\ Heard(<<>>)
        /\ Owes(q, m, <<>>)
  BY DEF Legal
<1> HIDE DEF m
<1>4. seen \in Nat /\ ret \in {"all", "short"} /\ rest \in Seq(Bytes)
        /\ run \in Nat
  BY DEF Pass, IInv, TypeOK
<1>5. cb' \in Seq([on : Callbacks, len : Nat]) /\ HeadersAreLimited'
  BY <1>1, <1>3, <1>4, HeardInTime
<1>6. owed' \in Int /\ OwedInv'
  BY <1>1, <1>3, OwedKept
<1>7. ParserInv(parser') /\ parser' \in Parsers
  BY <1>1, <1>3, Keeps
<1>8. TypeOK'
  <2>1. seen' \in Nat /\ run' \in Nat /\ jumped' \in BOOLEAN
    BY <1>1, <1>2, <1>4, SeenIsLess
  <2>2. marks' \in [Texts -> Nat \cup {NoMark}]
    BY <1>1, <1>3 DEF MarksOf
  <2> QED
    BY <1>2, <1>4, <1>5, <1>6, <1>7, <2>1, <2>2 DEF TypeOK
<1>9. CallInv'
  BY <1>1, <1>2, <1>3 DEF CallInv, MarksOf, s_now
<1>10. NreadInv'
  <2>1. q.nread \in Nat
    BY <1>3, SMT DEF ParserInv, Parsers
  <2>2. seen <= parser.nread + run
    BY <1>4, <2>1, SMT DEF Pass, IInv, NreadInv, CallInv
  <2>3. seen' <= seen /\ seen' \in Nat
    BY <1>1, <1>4, SeenIsLess
  <2> QED
    BY <1>1, <1>2, <1>4, <2>1, <2>2, <2>3, SMT DEF NreadInv, s_now
<1> QED
  BY <1>1, <1>5, <1>6, <1>7, <1>8, <1>9, <1>10 DEF Holds, IInv

\* A return, from the switch, from the loop or after it.
LEMMA ReturnHolds ==
    ASSUME IInv, NEW q, NEW c, NEW r \in {"all", "short"}, Return(q, c, r),
           ParserInv(q), Heard(c), Owes(q, NoMarks, c), Exact(q),
           q.http_errno = "OK" =>
             /\ q.nread = 0 \/ seen <= q.nread
             /\ q.state = "s_chunk_size_start" => q.nread = 0
    PROVE  Holds
<1>1. parser' = q /\ marks' = NoMarks /\ cb' = c /\ seen' = SeenBy(q)
        /\ owed' = OwedBy(q, c)
  BY DEF Return, Become, SeenBy, OwedBy
<1>2. byte' = NoByte /\ run' = 0 /\ jumped' = FALSE /\ call' = "idle"
        /\ ret' = r
  BY DEF Return
<1>4. seen \in Nat /\ rest \in Seq(Bytes)
  BY DEF IInv, TypeOK
<1>5. cb' \in Seq([on : Callbacks, len : Nat]) /\ HeadersAreLimited'
  BY <1>1, <1>4, HeardInTime
<1>6. owed' \in Int /\ OwedInv'
  BY <1>1, OwedKept
<1>7. ParserInv(parser') /\ parser' \in Parsers
  BY <1>1, Keeps
<1>8. TypeOK'
  <2>1. seen' \in Nat /\ run' \in Nat /\ jumped' \in BOOLEAN
    BY <1>1, <1>2, <1>4, SeenIsLess
  <2>2. rest' \in Seq(Bytes)
    BY <1>4 DEF Return
  <2> QED
    BY <1>1, <1>2, <1>5, <1>6, <1>7, <2>1, <2>2, NoMarksFit DEF TypeOK
<1>9. CallInv'
  BY <1>1, <1>2 DEF CallInv
<1>10. NreadInv'
  <2>1. q.nread \in Nat
    BY SMT DEF ParserInv, Parsers
  <2>2. seen' \in Nat /\ (q.http_errno = "OK" => seen' <= q.nread)
    BY <1>1, <1>4, <2>1, SeenIsLess, SMT DEF SeenBy
  <2> QED
    BY <1>1, <1>2, <1>4, <2>1, <2>2, SMT DEF NreadInv, s_now
<1> QED
  BY <1>1, <1>5, <1>6, <1>7, <1>8, <1>9, <1>10 DEF Holds, IInv

\* The parser is left in an error.
Wrong == Errors \ {"OK"}

\* An error sets http_errno and touches nothing else.
LEMMA ErrorInv ==
    ASSUME NEW q, ParserInv(q), NEW e \in Wrong
    PROVE  ParserInv([q EXCEPT !.http_errno = e])
<1> DEFINE r == [q EXCEPT !.http_errno = e]
<1>1. r \in Parsers
  BY SMT DEF ParserInv, Parsers, Wrong
<1>2. IndexInv(r)
  BY SMT DEF ParserInv, Parsers, IndexInv, Wrong
<1>3. FramingInv(r)
  BY SMT DEF ParserInv, Parsers, FramingInv
<1>4. CountInv(r)
  BY SMT DEF ParserInv, Parsers, CountInv
<1> QED
  BY <1>1, <1>2, <1>3, <1>4 DEF ParserInv

\* `goto error` after the fields have become q, whatever q says until then.
LEMMA FailInHolds ==
    ASSUME IInv, NEW q \in Parsers, NEW c, NEW e \in Wrong, Fail(q, c, e),
           ParserInv([q EXCEPT !.http_errno = e]),
           Heard(c), Exact(q), OwedBy(q, c) \in Int,
           q.state \notin OwingStates => OwedBy(q, c) = 0
    PROVE  Holds
<1> DEFINE r == [q EXCEPT !.http_errno = e]
<1>2. r.http_errno = e /\ r.state = q.state /\ r.nread = q.nread
        /\ r.content_length = q.content_length
  BY SMT DEF Parsers
<1>3. Return(r, c, "short")
  BY DEF Fail
<1> HIDE DEF r
<1>4. OwedBy(r, c) = OwedBy(q, c) /\ Exact(r)
  BY <1>2 DEF OwedBy, Exact
<1>5. Owes(r, NoMarks, c)
  BY <1>2, <1>4 DEF Owes, Wrong
<1>6. r.http_errno # "OK"
  BY <1>2 DEF Wrong
<1> QED
  BY <1>3, <1>4, <1>5, <1>6, ReturnHolds DEF r

\* `goto error` after the fields have become q.
LEMMA FailHolds ==
    ASSUME IInv, NEW q, NEW c, NEW e \in Wrong, Fail(q, c, e),
           ParserInv(q), Heard(c), Exact(q), OwedBy(q, c) \in Int,
           q.state \notin OwingStates => OwedBy(q, c) = 0
    PROVE  Holds
  BY ErrorInv, FailInHolds DEF ParserInv

-----------------------------------------------------------------------------
(* What is known when the switch is executed. *)

\* What every case of the switch may rely on.
LEMMA PassFacts ==
    ASSUME Pass
    PROVE  /\ ParserInv(parser) /\ parser.http_errno = "OK"
           /\ MarksOf(s_now, marks)
           /\ seen \in Nat /\ run \in Nat /\ owed \in Int
           /\ byte \in Bytes
           /\ s_now \in States
  BY SMT DEF Pass, IInv, TypeOK, CallInv, MarksOf, ParserInv, Parsers, s_now

\* Outside the inner loops all bytes are counted, and there are not too many.
LEMMA AllCounted ==
    ASSUME Pass, s_now \notin {"s_header_field", "s_header_value"}
    PROVE  /\ run = 0 /\ seen <= parser.nread
           /\ PARSING_HEADER(s_now) => /\ parser.nread <= HTTP_MAX_HEADER_SIZE
                                       /\ seen <= HTTP_MAX_HEADER_SIZE
<1>1. run = 0
  BY PassFacts, SMT DEF Pass, IInv, CallInv
<1>2. parser.nread \in Nat
  BY PassFacts, SMT DEF ParserInv, Parsers
<1> QED
  BY <1>1, <1>2, PassFacts, LimitIsNat, SMT DEF Pass, IInv, NreadInv

\* Outside a body no byte of it is owed.
LEMMA NothingOwed ==
    ASSUME Pass, s_now \notin OwingStates
    PROVE  owed = 0
  BY DEF Pass, IInv, OwedInv

\* The callbacks that are called.
Quiet(c) == c # <<>> => c[1].on # "body"

\* A case that calls nothing.
LEMMA HeardNothing == Heard(<<>>) /\ Quiet(<<>>)
  BY SMT DEF Heard, Quiet

\* A callback without text.
LEMMA HeardNotify ==
    ASSUME NEW n \in Callbacks, n = "headers_complete" => seen <= HTTP_MAX_HEADER_SIZE,
           n # "body"
    PROVE  Heard(Notify(n)) /\ Quiet(Notify(n))
<1>1. [on |-> n, len |-> 0] \in [on : Callbacks, len : Nat]
  BY SMT
<1>2. \A x : x \in [on : Callbacks, len : Nat]
               => /\ <<x>> \in Seq([on : Callbacks, len : Nat])
                  /\ DOMAIN <<x>> = {1} /\ <<x>>[1] = x
  BY SMT
<1> DEFINE x == [on |-> n, len |-> 0]
<1>3. x.on = n
  BY SMT
<1> HIDE DEF x
<1> QED
  BY <1>1, <1>2, <1>3 DEF Heard, Quiet, Notify, x

\* The callback of a text that was marked.
LEMMA HeardData ==
    ASSUME NEW t \in Texts, NEW mk \in [Texts -> Nat \cup {NoMark}]
    PROVE  Heard(Data(t, mk)) /\ (t # "body" => Quiet(Data(t, mk)))
<1>1. CASE mk[t] = NoMark
  BY <1>1, HeardNothing DEF Data
<1>2. CASE mk[t] # NoMark
  <2> DEFINE x == [on |-> t, len |-> mk[t]]
  <2>1. x \in [on : Callbacks, len : Nat] /\ x.on = t /\ t # "headers_complete"
    BY <1>2, SMT DEF Callbacks, Texts
  <2>2. \A y : y \in [on : Callbacks, len : Nat]
                 => /\ <<y>> \in Seq([on : Callbacks, len : Nat])
                    /\ DOMAIN <<y>> = {1} /\ <<y>>[1] = y
    BY SMT
  <2>3. Data(t, mk) = <<x>>
    BY <1>2 DEF Data
  <2> HIDE DEF x
  <2> QED
    BY <2>1, <2>2, <2>3 DEF Heard, Quiet
<1> QED
  BY <1>1, <1>2

\* Away from the bodies nothing is owed.
LEMMA PlainlyOwed ==
    ASSUME Pass, s_now \notin OwingStates, NEW q, NEW c,
           q.state \notin OwingStates,
           Quiet(c) \/ s_now = "s_body_identity_eof"
    PROVE  OwedBy(q, c) = 0
<1>1. owed = 0
  BY NothingOwed
<1>2. q.state \notin {"s_body_identity", "s_chunk_data"}
  BY DEF OwingStates
<1> QED
  BY <1>1, <1>2 DEF OwedBy, Quiet, s_now

\* A case that neither begins nor reads a counted body owes nothing.
LEMMA PlainlyOwes ==
    ASSUME Pass, s_now \notin OwingStates, NEW q, NEW c, NEW m,
           q.state \notin OwingStates,
           Quiet(c) \/ s_now = "s_body_identity_eof"
    PROVE  Owes(q, m, c)
  BY PlainlyOwed, SMT DEF Owes

\* A failure outside the bodies, in one of the states of a head or of a size.
LEMMA PlainFail ==
    ASSUME Pass, s_now \notin OwingStates, NEW q, NEW c, NEW e \in Wrong,
           Fail(q, c, e), ParserInv(q), Heard(c), Quiet(c), Exact(q),
           q.state \notin OwingStates
    PROVE  Holds
<1>1. OwedBy(q, c) = 0
  BY PlainlyOwed
<1> QED
  BY <1>1, FailHolds, SMT DEF Pass

\* A failure where the parser stands.
LEMMA FailHere ==
    ASSUME Pass, NEW e \in Wrong, Fail(parser, <<>>, e)
    PROVE  Holds
<1>1. OwedBy(parser, <<>>) = owed
  BY DEF OwedBy
<1>2. s_now \notin OwingStates => owed = 0
  BY NothingOwed
<1>3. Exact(parser)
  <2>1. parser.content_length \in Nat
    BY PassFacts, MaxIsNat, SMT DEF ParserInv, Parsers
  <2> QED
    BY <2>1, SMT DEF Exact
<1> QED
  BY <1>1, <1>2, <1>3, FailHolds, PassFacts, HeardNothing DEF Pass, s_now

\* Lengths are added up in two states only.
LEMMA ExactElsewhere ==
    ASSUME NEW q, \/ s_now \notin {"s_header_value", "s_chunk_size"}
                  \/ q.state # s_now
    PROVE  Exact(q)
  BY DEF Exact

\* Texts and their marks.
LEMMA TextsOf ==
    /\ TextOf("s_header_field") = {"header_field"}
    /\ TextOf("s_header_value") = {"header_value"}
    /\ \A s \in UrlStates : TextOf(s) = {"url"}
    /\ TextOf("s_res_status") = {"status"}
    /\ \A s : s \notin {"s_header_field", "s_header_value", "s_res_status"}
                         \cup UrlStates
                => TextOf(s) = {}
<1>1. \A s \in UrlStates : s \notin {"s_header_field", "s_header_value",
                                     "s_res_status"}
  BY SMT DEF UrlStates, UrlHeads, UrlTails
<1> QED
  BY <1>1 DEF TextOf

\* The marks fit another state with the same text.
LEMMA MarksStay ==
    ASSUME NEW s, NEW s2, NEW mk, MarksOf(s, mk), TextOf(s) = TextOf(s2),
           s \in BodyMarked => s2 \in BodyMarked
    PROVE  MarksOf(s2, mk)
  BY DEF MarksOf

\* The mark of a text is set where its state is entered.
LEMMA MarksBegin ==
    ASSUME NEW s, NEW s2, NEW t \in Texts \ {"body"}, MarksOf(s, marks),
           TextOf(s) \subseteq {t}, TextOf(s2) = {t}, s \notin BodyMarked
    PROVE  MarksOf(s2, MARK(t))
<1>1. MARK(t) \in [Texts -> Nat \cup {NoMark}]
  BY SMT DEF MarksOf, MARK
<1>2. \A u \in Texts : MARK(t)[u] # NoMark <=> u = t \/ marks[u] # NoMark
  BY SMT DEF MarksOf, MARK, NoMark
<1>3. "body" \in Texts
  BY DEF Texts
<1> QED
  BY <1>1, <1>2, <1>3 DEF MarksOf

\* The mark of a text is taken away where its state is left.
LEMMA MarksEnd ==
    ASSUME NEW s, NEW s2, NEW t \in Texts, MarksOf(s, marks),
           TextOf(s) \subseteq {t}, TextOf(s2) = {},
           s \in BodyMarked => t = "body"
    PROVE  MarksOf(s2, Unmark(t))
<1>1. Unmark(t) \in [Texts -> Nat \cup {NoMark}]
  BY SMT DEF MarksOf, Unmark
<1>2. \A u \in Texts : Unmark(t)[u] # NoMark <=> u # t /\ marks[u] # NoMark
  BY SMT DEF MarksOf, Unmark, NoMark
<1>3. "body" \in Texts
  BY DEF Texts
<1> QED
  BY <1>1, <1>2, <1>3 DEF MarksOf
-----------------------------------------------------------------------------
(* Going to another state. *)

\* A state of which the invariant says little.
LEMMA StateInv ==
    ASSUME NEW q \in Parsers, q.state \notin Special,
           q.http_errno = "OK" =>
             q.http_major <= 999 /\ q.http_minor <= 999 /\ q.status_code <= 999,
           q.type # "HTTP_BOTH"
             \/ q.state \in {"s_start_req_or_res", "s_res_or_resp_H"},
           q.state \in Heads =>
             \/ q.content_length = ULLONG_MAX
             \/ "F_TRAILING" \in q.flags \/ "F_CONTENTLENGTH" \in q.flags,
           q.state \in HeaderStates \ {"s_header_field_start"} =>
             (q.header_state = "h_content_length" => "F_CONTENTLENGTH" \in q.flags)
    PROVE  ParserInv(q)
<1>1. q.state \in States
  BY SMT DEF Parsers
<1>2. IndexInv(q)
  BY SMT DEF IndexInv, Special
<1>3. FramingInv(q)
  BY <1>1, SMT DEF FramingInv, Special, Heads
<1>4. CountInv(q)
  BY SMT DEF CountInv, Special, ChunkSizeStates, ChunkDataStates
<1> QED
  BY <1>2, <1>3, <1>4 DEF ParserInv

\* Setting the state keeps what the fields say, unless the new state says more.
LEMMA GotoInv ==
    ASSUME ParserInv(parser), NEW s \in States \ Special,
           s_now \notin {"s_start_req_or_res", "s_res_or_resp_H"},
           s \in Heads => s_now \in Heads,
           s \in HeaderStates \ {"s_header_field_start"}
             => s_now \in HeaderStates \ {"s_header_field_start"}
    PROVE  ParserInv(Goto(s))
<1> DEFINE q == Goto(s)
<1>1. q \in Parsers
  BY SMT DEF ParserInv, Parsers, Goto
<1>2. /\ q.state = s /\ q.http_errno = parser.http_errno
      /\ q.type = parser.type /\ q.flags = parser.flags
      /\ q.header_state = parser.header_state
      /\ q.content_length = parser.content_length
      /\ q.http_major = parser.http_major /\ q.http_minor = parser.http_minor
      /\ q.status_code = parser.status_code
  BY SMT DEF ParserInv, Parsers, Goto
<1> HIDE DEF q
<1>3. q.http_errno = "OK" =>
         q.http_major <= 999 /\ q.http_minor <= 999 /\ q.status_code <= 999
  BY <1>2, SMT DEF ParserInv, IndexInv
<1>4. q.type # "HTTP_BOTH"
  BY <1>2, SMT DEF ParserInv, FramingInv, s_now
<1>5. s \in Heads =>
             \/ q.content_length = ULLONG_MAX
             \/ "F_TRAILING" \in q.flags \/ "F_CONTENTLENGTH" \in q.flags
  BY <1>2, SMT DEF ParserInv, FramingInv, s_now, Heads
<1>6. s \in HeaderStates \ {"s_header_field_start"} =>
             (q.header_state = "h_content_length" => "F_CONTENTLENGTH" \in q.flags)
  BY <1>2, SMT DEF ParserInv, FramingInv, s_now
<1>7. ParserInv(q)
  BY <1>1, <1>2, <1>3, <1>4, <1>5, <1>6, StateInv
<1> QED
  BY <1>7 DEF q

\* Setting the state keeps the other fields.
LEMMA GotoFields ==
    ASSUME ParserInv(parser), NEW s
    PROVE  /\ Goto(s).state = s /\ Goto(s).http_errno = parser.http_errno
           /\ Goto(s).nread = parser.nread
           /\ Goto(s).content_length = parser.content_length
  BY SMT DEF ParserInv, Parsers, Goto

\* The states in which no byte is under a mark and none of a body is owed.
Silent == States \ ({"s_header_field", "s_header_value", "s_res_status",
                     "s_chunk_size_start"} \cup UrlStates \cup BodyMarked)

\* The states in which nothing is marked or owed.
LEMMA SilentFacts ==
    \A s \in Silent : /\ TextOf(s) = {} /\ s \notin BodyMarked
                      /\ s \notin OwingStates /\ s # "s_chunk_size_start"
                      /\ s \notin {"s_header_field", "s_header_value"}
  BY TextsOf, SMT DEF Silent, BodyMarked

\* Between two silent states the marks are right as they are.
LEMMA SilentMarks ==
    ASSUME Pass, s_now \in Silent, NEW s, TextOf(s) = {}
    PROVE  MarksOf(s, marks)
  BY PassFacts, SilentFacts, MarksStay

\* One byte after the other, where nothing is collected.
LEMMA SilentBreak ==
    ASSUME Pass, s_now \in Silent, NEW q, NEW c, Break(q, marks, c),
           ParserInv(q), q.http_errno = "OK", q.state \in Silent,
           q.nread = 0 \/ q.nread = parser.nread,
           Heard(c), Quiet(c), Exact(q)
    PROVE  Holds
<1>1. MarksOf(q.state, Advance(marks))
  BY SilentFacts, SilentMarks, AdvanceFits
<1>2. Owes(q, Advance(marks), c)
  BY SilentFacts, PlainlyOwes
<1>3. q.nread = 0 \/ seen <= q.nread
  BY SilentFacts, AllCounted
<1> QED
  BY <1>1, <1>2, <1>3, SilentFacts, BreakHolds DEF Legal

\* A `goto reexecute` from one silent state to another.
LEMMA SilentReexecute ==
    ASSUME Pass, s_now \in Silent, NEW q, NEW c, Reexecute(q, marks, c),
           ParserInv(q), q.http_errno = "OK", q.state \in Silent,
           q.nread = parser.nread,
           PARSING_HEADER(q.state) => PARSING_HEADER(s_now),
           Heard(c), Quiet(c), Exact(q)
    PROVE  Holds
<1>1. MarksOf(q.state, marks)
  BY SilentFacts, SilentMarks
<1>2. Owes(q, marks, c)
  BY SilentFacts, PlainlyOwes
<1>3. seen <= q.nread
        /\ (PARSING_HEADER(q.state) => q.nread <= HTTP_MAX_HEADER_SIZE)
  BY SilentFacts, AllCounted
<1> QED
  BY <1>1, <1>2, <1>3, SilentFacts, ReexecuteHolds DEF Legal

\* A case that only moves from one silent state to another.
LEMMA SilentGoto ==
    ASSUME Pass, s_now \in Silent \ {"s_start_req_or_res", "s_res_or_resp_H"},
           NEW s \in Silent \ Special,
           s \in Heads => s_now \in Heads,
           s \in HeaderStates \ {"s_header_field_start"}
             => s_now \in HeaderStates \ {"s_header_field_start"},
           Break(Goto(s), marks, <<>>), s # s_now
    PROVE  Holds
<1>1. ParserInv(Goto(s))
  BY PassFacts, GotoInv DEF Silent
<1>2. Exact(Goto(s))
  BY PassFacts, GotoFields, ExactElsewhere
<1> QED
  BY <1>1, <1>2, PassFacts, GotoFields, HeardNothing, SilentBreak

\* A step that keeps the length keeps it exact.
LEMMA ExactHere == ASSUME Pass PROVE Exact(parser)
<1>1. parser.content_length \in Nat
  BY PassFacts, MaxIsNat, SMT DEF ParserInv, Parsers
<1> QED
  BY <1>1, SMT DEF Exact

\* A byte that a silent state passes over.
LEMMA SilentStay ==
    ASSUME Pass, s_now \in Silent, NEW c, Break(parser, marks, c), Heard(c), Quiet(c)
    PROVE  Holds
  BY PassFacts, ExactHere, SilentBreak DEF s_now

\* The silent states, by name.
LEMMA SilentNames ==
    {"s_dead", "s_res_or_resp_H", "s_res_first_status_code",
     "s_res_status_code", "s_res_status_start",
     "s_req_method", "s_req_spaces_before_url", "s_req_http_start",
     "s_headers_almost_done", "s_headers_done", "s_res_H", "s_res_HT",
     "s_req_http_H", "s_res_line_almost_done", "s_req_line_almost_done",
     "s_header_almost_done", "s_message_done", "s_chunk_size",
     "s_chunk_parameters", "s_chunk_size_almost_done", "s_chunk_data_done"}
      \cup StartStates \cup DOMAIN FirstDigits
      \cup DOMAIN MoreDigits \cup DOMAIN Expect
      \cup (HeaderStates \ {"s_header_field", "s_header_value"}) \subseteq Silent
  BY StateNames, SMT DEF Silent, StartStates, UrlStates, UrlHeads, UrlTails,
     HeaderStates, ChunkSizeStates, ChunkDataStates, FirstDigits, MoreDigits,
     Expect, BodyMarked, OwingStates

\* The errors that the switch sets, by name.
LEMMA WrongNames ==
    {"STRICT", "LF_EXPECTED", "CLOSED_CONNECTION", "INVALID_VERSION",
     "INVALID_STATUS", "INVALID_METHOD", "INVALID_URL", "INVALID_HEADER_TOKEN",
     "INVALID_CONTENT_LENGTH", "UNEXPECTED_CONTENT_LENGTH",
     "INVALID_CHUNK_SIZE", "INVALID_CONSTANT", "HEADER_OVERFLOW",
     "INVALID_EOF_STATE"} \subseteq Wrong
  BY SMT DEF Wrong, Errors
-----------------------------------------------------------------------------
(* Start lines. *)

\* The invariant is kept by the case Dead of the switch.
LEMMA DeadHolds == IInv /\ Dead => Holds
<1> SUFFICES ASSUME IInv, Dead PROVE Holds
  OBVIOUS
<1>1. Pass /\ s_now = "s_dead"
  BY DEF Dead, At, Pass, s_now
<1>2. CASE Break(parser, marks, <<>>)
  BY <1>1, <1>2, SilentStay, SilentNames, HeardNothing
<1>3. CASE Fail(parser, <<>>, "CLOSED_CONNECTION")
  BY <1>1, <1>3, FailHere, WrongNames
<1> QED
  BY <1>2, <1>3 DEF Dead

\* One field of a parser is set.
LEMMA Updates ==
    ASSUME NEW q \in Parsers
    PROVE  /\ \A v \in {"HTTP_REQUEST", "HTTP_RESPONSE", "HTTP_BOTH"} :
                [q EXCEPT !.type = v] \in Parsers
           /\ \A v \in States : [q EXCEPT !.state = v] \in Parsers
           /\ \A v \in SUBSET Flags : [q EXCEPT !.flags = v] \in Parsers
           /\ \A v \in NameStates \cup ValueStates :
                [q EXCEPT !.header_state = v] \in Parsers
           /\ \A v \in 0..127 : [q EXCEPT !.index = v] \in Parsers
           /\ \A v \in Nat : [q EXCEPT !.nread = v] \in Parsers
           /\ \A v \in 0..ULLONG_MAX : [q EXCEPT !.content_length = v] \in Parsers
           /\ \A v \in FourDigits : [q EXCEPT !.http_major = v] \in Parsers
           /\ \A v \in FourDigits : [q EXCEPT !.http_minor = v] \in Parsers
           /\ \A v \in FourDigits : [q EXCEPT !.status_code = v] \in Parsers
           /\ \A v \in Methods : [q EXCEPT !.method = v] \in Parsers
           /\ \A v \in BOOLEAN : [q EXCEPT !.upgrade = v] \in Parsers
<1>1. \A v \in {"HTTP_REQUEST", "HTTP_RESPONSE", "HTTP_BOTH"} :
                [q EXCEPT !.type = v] \in Parsers
  BY SMT DEF Parsers
<1>2. \A v \in States : [q EXCEPT !.state = v] \in Parsers
  BY SMT DEF Parsers
<1>3. \A v \in SUBSET Flags : [q EXCEPT !.flags = v] \in Parsers
  BY SMT DEF Parsers
<1>4. \A v \in NameStates \cup ValueStates :
                [q EXCEPT !.header_state = v] \in Parsers
  BY SMT DEF Parsers
<1>5. \A v \in 0..127 : [q EXCEPT !.index = v] \in Parsers
  BY SMT DEF Parsers
<1>6. \A v \in Nat : [q EXCEPT !.nread = v] \in Parsers
  BY SMT DEF Parsers
<1>7. \A v \in 0..ULLONG_MAX : [q EXCEPT !.content_length = v] \in Parsers
  BY MaxIsNat, SMT DEF Parsers
<1>8. \A v \in FourDigits : [q EXCEPT !.http_major = v] \in Parsers
  BY SMT DEF Parsers
<1>9. \A v \in FourDigits : [q EXCEPT !.http_minor = v] \in Parsers
  BY SMT DEF Parsers
<1>10. \A v \in FourDigits : [q EXCEPT !.status_code = v] \in Parsers
  BY SMT DEF Parsers
<1>11. \A v \in Methods : [q EXCEPT !.method = v] \in Parsers
  BY SMT DEF Parsers
<1>12. \A v \in BOOLEAN : [q EXCEPT !.upgrade = v] \in Parsers
  BY SMT DEF Parsers
<1> QED
  BY <1>1, <1>2, <1>3, <1>4, <1>5, <1>6, <1>7, <1>8, <1>9, <1>10, <1>11, <1>12

\* The callbacks without text, by name.
LEMMA CallbackNames ==
    {"message_begin", "headers_complete", "chunk_header", "chunk_complete",
     "message_complete"} \subseteq Callbacks
  BY DEF Callbacks

\* The callbacks without data but headers_complete.
LEMMA Notified ==
    \A n \in {"message_begin", "chunk_header", "chunk_complete",
              "message_complete"} : Heard(Notify(n)) /\ Quiet(Notify(n))
  BY CallbackNames, HeardNotify

\* The fields that a new message starts with.
LEMMA FreshFields ==
    ASSUME Pass
    PROVE  /\ Fresh \in Parsers /\ Fresh.http_errno = "OK"
           /\ Fresh.state = s_now /\ Fresh.flags = {} /\ Fresh.nread = parser.nread
           /\ Fresh.content_length = ULLONG_MAX /\ Fresh.type = parser.type
           /\ Fresh.http_major <= 999 /\ Fresh.http_minor <= 999
           /\ Fresh.status_code <= 999
<1>1. ParserInv(parser) /\ parser.http_errno = "OK"
  BY PassFacts
<1>2. Fresh = [[parser EXCEPT !.flags = {}] EXCEPT !.content_length = ULLONG_MAX]
  BY DEF Fresh
<1>3. Fresh \in Parsers
  <2>1. {} \in SUBSET Flags /\ ULLONG_MAX \in 0..ULLONG_MAX
    BY MaxIsNat, SMT
  <2> QED
    BY <1>1, <1>2, <2>1, Updates DEF ParserInv
<1>4. /\ Fresh.http_errno = "OK"
      /\ Fresh.state = s_now /\ Fresh.flags = {} /\ Fresh.nread = parser.nread
      /\ Fresh.content_length = ULLONG_MAX /\ Fresh.type = parser.type
      /\ Fresh.http_major = parser.http_major
      /\ Fresh.http_minor = parser.http_minor
      /\ Fresh.status_code = parser.status_code
  BY <1>1, SMT DEF ParserInv, Parsers, Fresh, s_now
<1>5. /\ parser.http_major <= 999 /\ parser.http_minor <= 999
      /\ parser.status_code <= 999
  BY <1>1 DEF ParserInv, IndexInv
<1> QED
  BY <1>3, <1>4, <1>5

\* The length and the flags of the message before are forgotten.
LEMMA FreshInv ==
    ASSUME Pass, NEW s \in (States \ Special) \ HeaderStates,
           parser.type # "HTTP_BOTH" \/ s = "s_res_or_resp_H"
    PROVE  ParserInv([Fresh EXCEPT !.state = s])
<1> DEFINE q == [Fresh EXCEPT !.state = s]
<1>1. /\ q \in Parsers /\ q.state = s /\ q.http_errno = "OK"
      /\ q.http_major <= 999 /\ q.http_minor <= 999 /\ q.status_code <= 999
      /\ q.type = parser.type /\ q.content_length = ULLONG_MAX
  BY FreshFields, SMT DEF Parsers
<1> HIDE DEF q
<1>2. ParserInv(q)
  BY <1>1, StateInv
<1> QED
  BY <1>2 DEF q

\* Where a message starts, by name.
LEMMA StartNames ==
    ASSUME NEW s \in StartStates \cup {"s_dead", "s_res_H", "s_res_HT", "s_res_or_resp_H"}
    PROVE  s \in (States \ Special) \ HeaderStates /\ s \in Silent
  BY StateNames, SilentNames, SMT
     DEF Special, StartStates, HeaderStates, ChunkSizeStates, ChunkDataStates

\* The invariant is kept by the case StartReqOrRes of the switch.
LEMMA StartReqOrResHolds == IInv /\ StartReqOrRes => Holds
<1> SUFFICES ASSUME IInv, StartReqOrRes PROVE Holds
  OBVIOUS
<1> DEFINE reply == [Fresh EXCEPT !.state = "s_res_or_resp_H"]
           request == [Fresh EXCEPT !.state = "s_start_req", !.type = "HTTP_REQUEST"]
<1>1. Pass /\ s_now = "s_start_req_or_res" /\ s_now \in Silent
  BY StartNames DEF StartReqOrRes, At, Pass, s_now, StartStates
<1>2. ParserInv(reply)
  BY <1>1, FreshInv, StartNames
<1>3. ParserInv(request)
  <2>1. "s_start_req" \in (States \ Special) \ HeaderStates
    BY StartNames DEF StartStates
  <2>2. request \in Parsers
    <3>1. request = [[Fresh EXCEPT !.state = "s_start_req"]
                        EXCEPT !.type = "HTTP_REQUEST"]
      OBVIOUS
    <3> HIDE DEF request
    <3> QED
      BY <1>1, <2>1, <3>1, FreshFields, Updates
  <2>3. /\ request.state = "s_start_req"
        /\ request.http_errno = "OK" /\ request.type = "HTTP_REQUEST"
        /\ request.http_major <= 999 /\ request.http_minor <= 999
        /\ request.status_code <= 999 /\ request.content_length = ULLONG_MAX
    BY <1>1, FreshFields, SMT DEF Parsers
  <2> HIDE DEF request
  <2> QED
    BY <2>1, <2>2, <2>3, StateInv
<1>4. /\ reply.state = "s_res_or_resp_H" /\ reply.http_errno = "OK"
      /\ reply.nread = parser.nread
      /\ request.state = "s_start_req" /\ request.http_errno = "OK"
      /\ request.nread = parser.nread
  BY <1>1, FreshFields, SMT DEF Parsers
<1>5. reply.state \in Silent /\ request.state \in Silent
  BY <1>4, StartNames DEF StartStates
<1>6. Exact(reply) /\ Exact(request)
  BY <1>1, ExactElsewhere
<1>7. \/ Break(parser, marks, <<>>)
      \/ Break(reply, marks, Notify("message_begin"))
      \/ Reexecute(request, marks, <<>>)
  BY DEF StartReqOrRes
<1>8. PARSING_HEADER(s_now)
  BY <1>1 DEF PARSING_HEADER, BodyStates, ChunkDataStates
<1> HIDE DEF reply, request
<1>9. CASE Break(parser, marks, <<>>)
  BY <1>1, <1>9, SilentStay, HeardNothing
<1>10. CASE Break(reply, marks, Notify("message_begin"))
  BY <1>1, <1>2, <1>4, <1>5, <1>6, <1>10, Notified, SilentBreak
<1>11. CASE Reexecute(request, marks, <<>>)
  BY <1>1, <1>3, <1>4, <1>5, <1>6, <1>8, <1>11, HeardNothing, SilentReexecute
<1> QED
  BY <1>7, <1>9, <1>10, <1>11

\* The invariant is kept by the case ResOrRespH of the switch.
LEMMA ResOrRespHHolds == IInv /\ ResOrRespH => Holds
<1> SUFFICES ASSUME IInv, ResOrRespH PROVE Holds
  OBVIOUS
<1> DEFINE reply == [parser EXCEPT !.state = "s_res_HT", !.type = "HTTP_RESPONSE"]
           request == [parser EXCEPT !.state = "s_req_method",
                          !.type = "HTTP_REQUEST",
                          !.method = "HEAD", !.index = 2]
<1>1. Pass /\ s_now = "s_res_or_resp_H" /\ s_now \in Silent
  BY StartNames DEF ResOrRespH, At, Pass, s_now, StartStates
<1>2. ParserInv(parser) /\ parser.http_errno = "OK"
  BY <1>1, PassFacts
<1>3. {"s_res_HT", "s_req_method"} \subseteq Silent
  BY SilentNames
<1>4. /\ reply.state = "s_res_HT"
      /\ reply.http_errno = "OK" /\ reply.nread = parser.nread
      /\ reply.type = "HTTP_RESPONSE" /\ reply.flags = parser.flags
      /\ reply.content_length = parser.content_length
      /\ reply.http_major = parser.http_major
      /\ reply.http_minor = parser.http_minor
      /\ reply.status_code = parser.status_code
  BY <1>2, SMT DEF ParserInv, Parsers
<1>5. s_now \in Heads
  BY <1>1, <1>2, SMT DEF ParserInv, Parsers, Heads, s_now, StartStates,
     ChunkSizeStates, BodyStates, ChunkDataStates
<1>6. ParserInv(reply)
  <2>1. "s_res_HT" \in (States \ Special) \ HeaderStates
    BY StartNames
  <2>2. \/ parser.content_length = ULLONG_MAX
        \/ "F_TRAILING" \in parser.flags \/ "F_CONTENTLENGTH" \in parser.flags
    BY <1>2, <1>5 DEF ParserInv, FramingInv, Heads, s_now
  <2>3. reply \in Parsers
    <3>1. reply = [[parser EXCEPT !.state = "s_res_HT"]
                     EXCEPT !.type = "HTTP_RESPONSE"]
      OBVIOUS
    <3> HIDE DEF reply
    <3> QED
      BY <1>2, <2>1, <3>1, Updates DEF ParserInv
  <2>4. /\ parser.http_major <= 999 /\ parser.http_minor <= 999
        /\ parser.status_code <= 999
    BY <1>2 DEF ParserInv, IndexInv
  <2> HIDE DEF reply
  <2> QED
    BY <1>4, <2>1, <2>2, <2>3, <2>4, StateInv
<1>7. ParserInv(request)
  <2>1. request \in Parsers
    <3>1. request = [[[[parser EXCEPT !.state = "s_req_method"]
                         EXCEPT !.type = "HTTP_REQUEST"]
                         EXCEPT !.method = "HEAD"] EXCEPT !.index = 2]
      OBVIOUS
    <3>2. "s_req_method" \in States /\ "HEAD" \in Methods /\ 2 \in 0..127
      BY <1>3, MethodAssumption DEF Silent, Methods, MethodAssumption
    <3> HIDE DEF request
    <3> QED
      BY <1>2, <3>1, <3>2, Updates DEF ParserInv
  <2>2. IndexInv(request)
    BY <1>2, MethodAssumption, SMT
       DEF ParserInv, Parsers, IndexInv, MethodAssumption
  <2>3. FramingInv(request)
    BY <1>1, <1>2, SMT DEF ParserInv, Parsers, FramingInv, s_now, StartStates,
       HeaderStates, ChunkSizeStates, BodyStates, ChunkDataStates
  <2>4. CountInv(request)
    BY <1>2, SMT DEF ParserInv, Parsers, CountInv, ChunkSizeStates
  <2> QED
    BY <2>1, <2>2, <2>3, <2>4 DEF ParserInv
<1>8. /\ request.state = "s_req_method" /\ request.http_errno = "OK"
      /\ request.nread = parser.nread
  BY <1>2, SMT DEF ParserInv, Parsers
<1>9. Exact(reply) /\ Exact(request)
  BY <1>1, ExactElsewhere
<1>10. \/ Break(reply, marks, <<>>)
       \/ Break(request, marks, <<>>)
       \/ Fail(parser, <<>>, "INVALID_CONSTANT")
  BY DEF ResOrRespH
<1> HIDE DEF reply, request
<1>11. CASE Break(reply, marks, <<>>)
  BY <1>1, <1>3, <1>4, <1>6, <1>9, <1>11, HeardNothing, SilentBreak
<1>12. CASE Break(request, marks, <<>>)
  BY <1>1, <1>3, <1>7, <1>8, <1>9, <1>12, HeardNothing, SilentBreak
<1>13. CASE Fail(parser, <<>>, "INVALID_CONSTANT")
  BY <1>1, <1>13, FailHere, WrongNames
<1> QED
  BY <1>10, <1>11, <1>12, <1>13

\* The invariant is kept by the case StartRes of the switch.
LEMMA StartResHolds == IInv /\ StartRes => Holds
<1> SUFFICES ASSUME IInv, StartRes PROVE Holds
  OBVIOUS
<1> DEFINE reply == [Fresh EXCEPT !.state = "s_res_H"]
           same == [Fresh EXCEPT !.state = "s_start_res"]
<1>1. Pass /\ s_now = "s_start_res" /\ s_now \in Silent
  BY StartNames DEF StartRes, At, Pass, s_now, StartStates
<1>2. parser.type # "HTTP_BOTH"
  BY <1>1, PassFacts DEF ParserInv, FramingInv, s_now
<1>3. ParserInv(reply) /\ ParserInv(Fresh)
  <2>1. ParserInv(reply) /\ ParserInv(same)
    BY <1>2, <1>1, FreshInv, StartNames DEF StartStates
  <2>2. same = Fresh
    BY <1>1, FreshFields, SMT DEF Parsers
  <2> QED
    BY <2>1, <2>2
<1>4. /\ reply.state = "s_res_H" /\ reply.http_errno = "OK"
      /\ reply.nread = parser.nread
  BY <1>1, FreshFields, SMT DEF Parsers
<1>5. reply.state \in Silent /\ Fresh.state \in Silent
  BY <1>1, <1>4, FreshFields, StartNames
<1>6. Exact(reply) /\ Exact(Fresh)
  BY <1>1, ExactElsewhere
<1>7. \/ Break(reply, marks, Notify("message_begin"))
      \/ Break(Fresh, marks, Notify("message_begin"))
      \/ Fail(Fresh, <<>>, "INVALID_CONSTANT")
  BY DEF StartRes
<1> HIDE DEF reply
<1>8. CASE Break(reply, marks, Notify("message_begin"))
  BY <1>1, <1>3, <1>4, <1>5, <1>6, <1>8, Notified, SilentBreak
<1>9. CASE Break(Fresh, marks, Notify("message_begin"))
  BY <1>1, <1>3, <1>5, <1>6, <1>9, FreshFields, Notified, SilentBreak
<1>10. CASE Fail(Fresh, <<>>, "INVALID_CONSTANT")
  BY <1>1, <1>3, <1>5, <1>6, <1>10, FreshFields, SilentFacts, HeardNothing,
     WrongNames, PlainFail
<1> QED
  BY <1>7, <1>8, <1>9, <1>10

\* The invariant is kept by the case StartReq of the switch.
LEMMA StartReqHolds == IInv /\ StartReq => Holds
<1> SUFFICES ASSUME IInv, StartReq PROVE Holds
  OBVIOUS
<1> DEFINE m == FirstMethod[byte]
           known == [Fresh EXCEPT !.state = "s_req_method", !.method = m, !.index = 1]
           unknown == [Fresh EXCEPT !.method = "DELETE", !.index = 1]
           same == [Fresh EXCEPT !.state = "s_start_req"]
<1>1. Pass /\ s_now = "s_start_req" /\ s_now \in Silent
  BY StartNames DEF StartReq, At, Pass, s_now, StartStates
<1>2. parser.type # "HTTP_BOTH"
  BY <1>1, PassFacts DEF ParserInv, FramingInv, s_now
<1>3. ParserInv(Fresh)
  <2>1. ParserInv(same)
    BY <1>2, <1>1, FreshInv, StartNames DEF StartStates
  <2>2. same = Fresh
    BY <1>1, FreshFields, SMT DEF Parsers
  <2> QED
    BY <2>1, <2>2
<1>4. ParserInv(unknown)
  <2>1. /\ unknown.http_errno = "OK"
        /\ unknown.state = "s_start_req" /\ unknown.type = parser.type
        /\ unknown.content_length = ULLONG_MAX
        /\ unknown.http_major <= 999 /\ unknown.http_minor <= 999
        /\ unknown.status_code <= 999
    BY <1>1, FreshFields, SMT DEF Parsers
  <2>2. "s_start_req" \in (States \ Special) \ HeaderStates
    BY StartNames DEF StartStates
  <2>3. unknown \in Parsers
    <3>1. unknown = [[Fresh EXCEPT !.method = "DELETE"] EXCEPT !.index = 1]
      OBVIOUS
    <3>2. "DELETE" \in Methods /\ 1 \in 0..127
      BY DEF Methods
    <3> HIDE DEF unknown
    <3> QED
      BY <1>1, <3>1, <3>2, FreshFields, Updates
  <2> HIDE DEF unknown
  <2> QED
    BY <1>2, <2>1, <2>2, <2>3, StateInv
<1>5. "s_req_method" \in Silent
  BY SilentNames
<1>6. ASSUME m \in DOMAIN MethodString
      PROVE  /\ ParserInv(known) /\ known.state = "s_req_method"
             /\ known.http_errno = "OK" /\ known.nread = parser.nread
  <2> HIDE DEF m
  <2>1. known \in Parsers
    <3>1. known = [[[Fresh EXCEPT !.state = "s_req_method"]
                      EXCEPT !.method = m] EXCEPT !.index = 1]
      OBVIOUS
    <3>2. "s_req_method" \in States /\ m \in Methods /\ 1 \in 0..127
      BY <1>5, <1>6 DEF Silent, Methods
    <3> HIDE DEF known
    <3> QED
      BY <1>1, <3>1, <3>2, FreshFields, Updates
  <2>2. /\ known.state = "s_req_method" /\ known.http_errno = "OK"
        /\ known.method = m /\ known.index = 1 /\ known.flags = {}
        /\ known.type = parser.type /\ known.content_length = ULLONG_MAX
        /\ known.http_major <= 999 /\ known.http_minor <= 999
        /\ known.status_code <= 999 /\ known.nread = parser.nread
    BY <1>1, FreshFields, SMT DEF Parsers
  <2> HIDE DEF known
  <2>3. IndexInv(known)
    BY <1>6, <2>2, SMT DEF IndexInv
  <2>4. FramingInv(known)
    BY <1>2, <2>2, SMT DEF FramingInv, HeaderStates, ChunkSizeStates,
       ChunkDataStates
  <2>5. CountInv(known)
    BY <2>2, SMT DEF CountInv, ChunkSizeStates
  <2> QED
    BY <2>1, <2>2, <2>3, <2>4, <2>5 DEF ParserInv
<1>7. Exact(known) /\ Exact(unknown) /\ Exact(Fresh)
  BY <1>1, ExactElsewhere
<1>8. /\ unknown.state = s_now /\ unknown.http_errno = "OK"
  BY <1>1, FreshFields, SMT DEF Parsers
<1>9. \/ Break(parser, marks, <<>>)
      \/ byte \in DOMAIN FirstMethod /\ Break(known, marks, Notify("message_begin"))
      \/ Fail(unknown, <<>>, "INVALID_METHOD")
      \/ Fail(Fresh, <<>>, "INVALID_METHOD")
  BY DEF StartReq
<1>10. byte \in DOMAIN FirstMethod => m \in DOMAIN MethodString
  BY MethodAssumption DEF MethodAssumption
<1> HIDE DEF known, unknown, m
<1>11. CASE Break(parser, marks, <<>>)
  BY <1>1, <1>11, SilentStay, HeardNothing
<1>12. CASE byte \in DOMAIN FirstMethod /\ Break(known, marks, Notify("message_begin"))
  BY <1>1, <1>5, <1>6, <1>7, <1>10, <1>12, Notified, SilentBreak
<1>13. CASE Fail(unknown, <<>>, "INVALID_METHOD")
  BY <1>1, <1>4, <1>7, <1>8, <1>13, SilentFacts, HeardNothing, WrongNames, PlainFail
<1>14. CASE Fail(Fresh, <<>>, "INVALID_METHOD")
  BY <1>1, <1>3, <1>7, <1>14, FreshFields, SilentFacts, HeardNothing,
     WrongNames, PlainFail
<1> QED
  BY <1>9, <1>11, <1>12, <1>13, <1>14

\* One byte after the other, outside the inner loops and the bodies with a length.
LEMMA TextBreak ==
    ASSUME Pass, s_now \notin OwingStates \cup {"s_header_field", "s_header_value"},
           NEW q, NEW mk, NEW c, Break(q, mk, c),
           ParserInv(q), q.http_errno = "OK", MarksOf(q.state, mk),
           q.state \notin OwingStates \cup {"s_chunk_size_start"},
           q.nread = 0 \/ q.nread = parser.nread,
           Heard(c), Quiet(c), Exact(q)
    PROVE  Holds
<1>1. MarksOf(q.state, Advance(mk))
  BY AdvanceFits
<1>2. Owes(q, Advance(mk), c)
  BY PlainlyOwes
<1>3. q.nread = 0 \/ seen <= q.nread
  BY AllCounted
<1> QED
  BY <1>1, <1>2, <1>3, BreakHolds DEF Legal

\* The invariant is kept by the case ReqMethod of the switch.
LEMMA ReqMethodHolds == IInv /\ ReqMethod => Holds
<1> SUFFICES ASSUME IInv, ReqMethod PROVE Holds
  OBVIOUS
<1> DEFINE next == [parser EXCEPT !.index = @ + 1]
           ended == [next EXCEPT !.state = "s_req_spaces_before_url"]
           m == MethodSwitch[<<parser.method, parser.index, byte>>]
           other == [next EXCEPT !.method = m]
<1>1. Pass /\ s_now = "s_req_method" /\ s_now \in Silent
  BY SilentNames DEF ReqMethod, At, Pass, s_now
<1>2. ParserInv(parser) /\ parser.http_errno = "OK"
  BY <1>1, PassFacts
<1>3. parser.method \in DOMAIN MethodString /\ parser.index \in 0..100
  BY <1>1, <1>2, SMT DEF ParserInv, Parsers, IndexInv, s_now
<1>4. next \in Parsers /\ parser.index + 1 \in 0..127
  <2>1. parser.index + 1 \in 0..127
    BY <1>3, SMT
  <2> QED
    BY <1>2, <2>1, Updates DEF ParserInv
<1>5. /\ next.state = "s_req_method" /\ next.http_errno = "OK"
      /\ next.index = parser.index + 1 /\ next.method = parser.method
      /\ next.nread = parser.nread /\ next.flags = parser.flags
      /\ next.type = parser.type
      /\ next.content_length = parser.content_length
      /\ next.http_major = parser.http_major
      /\ next.http_minor = parser.http_minor
      /\ next.status_code = parser.status_code
  BY <1>1, <1>2, SMT DEF ParserInv, Parsers, s_now
<1>6. /\ parser.http_major <= 999 /\ parser.http_minor <= 999
      /\ parser.status_code <= 999
  BY <1>2 DEF ParserInv, IndexInv
<1>7. /\ parser.type # "HTTP_BOTH"
      /\ \/ parser.content_length = ULLONG_MAX
         \/ "F_TRAILING" \in parser.flags \/ "F_CONTENTLENGTH" \in parser.flags
  BY <1>1, <1>2, SMT DEF ParserInv, FramingInv, s_now, StartStates,
     ChunkSizeStates, BodyStates, ChunkDataStates
<1>8. {"s_req_method", "s_req_spaces_before_url"} \subseteq Silent
  BY SilentNames
<1> HIDE DEF next
<1>9. ASSUME parser.index < 100 PROVE ParserInv(next)
  <2>1. IndexInv(next)
    BY <1>3, <1>5, <1>6, <1>9, SMT DEF IndexInv
  <2>2. FramingInv(next)
    BY <1>5, <1>7, SMT DEF FramingInv, HeaderStates, ChunkSizeStates, ChunkDataStates
  <2>3. CountInv(next)
    BY <1>5, SMT DEF CountInv, ChunkSizeStates
  <2> QED
    BY <1>4, <2>1, <2>2, <2>3 DEF ParserInv
<1>10. ASSUME parser.index < 100, m \in DOMAIN MethodString
       PROVE  ParserInv(other) /\ other.state = "s_req_method"
                /\ other.http_errno = "OK" /\ other.nread = parser.nread
  <2> HIDE DEF m
  <2>1. other \in Parsers
    BY <1>4, <1>10, Updates DEF Methods
  <2>2. /\ other.state = "s_req_method" /\ other.http_errno = "OK"
        /\ other.index = parser.index + 1 /\ other.method = m
        /\ other.nread = parser.nread /\ other.flags = parser.flags
        /\ other.type = parser.type
        /\ other.content_length = parser.content_length
        /\ other.http_major = parser.http_major
        /\ other.http_minor = parser.http_minor
        /\ other.status_code = parser.status_code
    BY <1>4, <1>5, SMT DEF Parsers
  <2> HIDE DEF other
  <2>3. IndexInv(other)
    BY <1>3, <2>2, <1>6, <1>10, SMT DEF IndexInv
  <2>4. FramingInv(other)
    BY <2>2, <1>7, SMT DEF FramingInv, HeaderStates, ChunkSizeStates, ChunkDataStates
  <2>5. CountInv(other)
    BY <2>2, SMT DEF CountInv, ChunkSizeStates
  <2> QED
    BY <2>1, <2>2, <2>3, <2>4, <2>5 DEF ParserInv
<1>11. /\ ParserInv(ended) /\ ended.state = "s_req_spaces_before_url"
       /\ ended.http_errno = "OK" /\ ended.nread = parser.nread
  <2>1. ended \in Parsers
    BY <1>4, <1>8, Updates DEF Silent
  <2>2. /\ ended.state = "s_req_spaces_before_url" /\ ended.http_errno = "OK"
        /\ ended.nread = parser.nread /\ ended.flags = parser.flags
        /\ ended.type = parser.type
        /\ ended.content_length = parser.content_length
        /\ ended.http_major = parser.http_major
        /\ ended.http_minor = parser.http_minor
        /\ ended.status_code = parser.status_code
    BY <1>4, <1>5, SMT DEF Parsers
  <2>3. ended.state \notin Special \cup HeaderStates
    BY <2>2, SMT DEF Special, HeaderStates, ChunkSizeStates, ChunkDataStates
  <2> HIDE DEF ended
  <2> QED
    BY <1>6, <1>7, <2>1, <2>2, <2>3, StateInv
<1>12. Exact(next) /\ Exact(ended) /\ Exact(other)
  BY <1>1, ExactElsewhere
<1>13. \/ Fail(parser, <<>>, "INVALID_METHOD")
       \/ Break(ended, marks, <<>>)
       \/ byte # "NUL" /\ byte = MethodByte /\ Break(next, marks, <<>>)
       \/ /\ <<parser.method, parser.index, byte>> \in DOMAIN MethodSwitch
          /\ Break(other, marks, <<>>)
  BY DEF ReqMethod, next
<1>14. ASSUME byte # "NUL", byte = MethodByte PROVE parser.index < 100
  <2> DEFINE n == Len(MethodString[parser.method])
  <2>1. n <= 100
    BY <1>3, MethodAssumption DEF MethodAssumption
  <2>2. n \in Nat
    <3>1. MethodString[parser.method] \in Seq(Bytes)
      BY <1>3, MethodAssumption DEF MethodAssumption
    <3> QED
      BY <3>1, SMT
  <2>3. parser.index < n
    BY <1>14 DEF MethodByte
  <2> HIDE DEF n
  <2> QED
    BY <1>3, <2>1, <2>2, <2>3, SMT
<1>15. <<parser.method, parser.index, byte>> \in DOMAIN MethodSwitch
         => parser.index < 100 /\ m \in DOMAIN MethodString
  <2>1. ASSUME <<parser.method, parser.index, byte>>
                  \in (DOMAIN MethodString) \X (0..99) \X Bytes
        PROVE  parser.index < 100
    <3>1. parser.index \in 0..99
      BY <2>1
    <3> QED
      BY <3>1, SMT
  <2> QED
    BY <2>1, MethodAssumption DEF MethodAssumption
<1> HIDE DEF ended, other, m
<1>16. CASE Fail(parser, <<>>, "INVALID_METHOD")
  BY <1>1, <1>16, FailHere, WrongNames
<1>17. CASE Break(ended, marks, <<>>)
  BY <1>1, <1>8, <1>11, <1>12, <1>17, HeardNothing, SilentBreak
<1>18. CASE byte # "NUL" /\ byte = MethodByte /\ Break(next, marks, <<>>)
  BY <1>1, <1>5, <1>8, <1>9, <1>12, <1>14, <1>18, HeardNothing, SilentBreak
<1>19. CASE /\ <<parser.method, parser.index, byte>> \in DOMAIN MethodSwitch
            /\ Break(other, marks, <<>>)
  BY <1>1, <1>8, <1>10, <1>12, <1>15, <1>19, HeardNothing, SilentBreak
<1> QED
  BY <1>13, <1>16, <1>17, <1>18, <1>19

\* A URL stays a URL or is none.
LEMMA UrlGoesOn ==
    \A s \in UrlStates \cup {"s_req_spaces_before_url"} : \A c :
       parse_url_char(s, c) \in UrlStates \cup {"s_dead"}
  BY SMT DEF parse_url_char, InServer, UrlStates, UrlHeads, UrlTails

\* The states of a URL, by name.
LEMMA UrlNames ==
    \A s \in UrlStates :
       s \in Heads \ Special /\ s \notin HeaderStates /\ s \notin OwingStates
         /\ s \notin {"s_chunk_size_start", "s_header_value", "s_header_field",
                      "s_start_req_or_res", "s_res_or_resp_H", "s_chunk_size"}
  BY StateNames, SMT DEF UrlStates, UrlHeads, UrlTails, Heads, Special,
     HeaderStates, OwingStates, StartStates, ChunkSizeStates, BodyStates,
     ChunkDataStates

\* parse_url_char, wherever the byte of the URL comes from.
LEMMA TakeUrlByteHolds ==
    ASSUME Pass, NEW s \in UrlStates \cup {"s_req_spaces_before_url"}, NEW mk,
           s_now \in UrlStates \cup {"s_req_spaces_before_url"},
           \A u \in UrlStates : MarksOf(u, mk),
           TakeUrlByte(s, mk)
    PROVE  Holds
<1> DEFINE to == parse_url_char(s, byte)
<1>1. to \in UrlStates \cup {"s_dead"}
  BY UrlGoesOn
<1>2. "s_req_spaces_before_url" \in Heads \ OwingStates
  BY StateNames, SMT DEF Heads, OwingStates, StartStates, ChunkSizeStates,
     BodyStates, ChunkDataStates
<1>3. s_now \in Heads \ OwingStates
       /\ s_now \notin {"s_start_req_or_res", "s_res_or_resp_H",
                        "s_header_field", "s_header_value", "s_chunk_size"}
  BY <1>2, UrlNames
<1>4. ParserInv(parser) /\ parser.http_errno = "OK"
  BY PassFacts
<1>5. "s_dead" \in (States \ Special) \ HeaderStates /\ "s_dead" \notin Heads
  BY StartNames DEF Heads
<1>6. ParserInv(Goto(to))
  BY <1>1, <1>3, <1>4, <1>5, UrlNames, GotoInv DEF Heads
<1>7. Goto(to).state = to /\ Goto(to).http_errno = "OK"
        /\ Goto(to).nread = parser.nread
  BY <1>4, GotoFields
<1>8. Exact(Goto(to))
  BY <1>3, ExactElsewhere
<1>9. \/ to = "s_dead" /\ Fail(Goto(to), <<>>, "INVALID_URL")
      \/ to \in UrlStates /\ Break(Goto(to), mk, <<>>)
  BY <1>1 DEF TakeUrlByte
<1> HIDE DEF to
<1>10. CASE to = "s_dead" /\ Fail(Goto(to), <<>>, "INVALID_URL")
  <2>1. to \notin OwingStates
    BY <1>10 DEF OwingStates
  <2> QED
    BY <1>3, <1>6, <1>7, <1>8, <1>10, <2>1, HeardNothing, WrongNames, PlainFail
<1>11. CASE to \in UrlStates /\ Break(Goto(to), mk, <<>>)
  BY <1>3, <1>6, <1>7, <1>8, <1>11, HeardNothing, UrlNames, TextBreak
<1> QED
  BY <1>9, <1>10, <1>11

\* The invariant is kept by the case SpacesBeforeUrl of the switch.
LEMMA SpacesBeforeUrlHolds == IInv /\ SpacesBeforeUrl => Holds
<1> SUFFICES ASSUME IInv, SpacesBeforeUrl PROVE Holds
  OBVIOUS
<1> DEFINE from == IF parser.method = "CONNECT" THEN "s_req_server_start"
                                                ELSE parser.state
<1>1. Pass /\ s_now = "s_req_spaces_before_url" /\ s_now \in Silent
  BY SilentNames DEF SpacesBeforeUrl, At, Pass, s_now
<1>2. from \in UrlStates \cup {"s_req_spaces_before_url"}
  BY <1>1 DEF s_now, UrlStates, UrlHeads
<1>3. \A u \in UrlStates : MarksOf(u, MARK("url"))
  <2>1. MarksOf(s_now, marks) /\ s_now \notin BodyMarked /\ TextOf(s_now) = {}
    BY <1>1, PassFacts, SilentFacts
  <2>2. "url" \in Texts \ {"body"}
    BY DEF Texts
  <2> QED
    BY <2>1, <2>2, TextsOf, MarksBegin
<1>4. Break(parser, marks, <<>>) \/ TakeUrlByte(from, MARK("url"))
  BY DEF SpacesBeforeUrl
<1> HIDE DEF from
<1>5. CASE Break(parser, marks, <<>>)
  BY <1>1, <1>5, SilentStay, HeardNothing
<1>6. CASE TakeUrlByte(from, MARK("url"))
  BY <1>1, <1>2, <1>3, <1>6, TakeUrlByteHolds
<1> QED
  BY <1>4, <1>5, <1>6

\* The URL is the one text that is marked while it is read.
LEMMA UrlMarks ==
    ASSUME Pass, s_now \in UrlStates
    PROVE  /\ \A u \in UrlStates : MarksOf(u, marks)
           /\ \A u : TextOf(u) = {} => MarksOf(u, Unmark("url"))
<1>1. MarksOf(s_now, marks) /\ TextOf(s_now) = {"url"}
  BY PassFacts, TextsOf
<1>2. s_now \notin BodyMarked
  BY SMT DEF UrlStates, UrlHeads, UrlTails, BodyMarked, OwingStates
<1>3. "url" \in Texts
  BY DEF Texts
<1> QED
  BY <1>1, <1>2, <1>3, TextsOf, MarksStay, MarksEnd

\* The invariant is kept by the case UrlHead of the switch.
LEMMA UrlHeadHolds == IInv /\ UrlHead => Holds
<1> SUFFICES ASSUME IInv, UrlHead PROVE Holds
  OBVIOUS
<1>1. Pass /\ s_now \in UrlStates
  BY DEF UrlHead, At, Pass, s_now, UrlStates
<1>2. CASE Fail(parser, <<>>, "INVALID_URL")
  BY <1>1, <1>2, FailHere, WrongNames
<1>3. CASE TakeUrlByte(parser.state, marks)
  BY <1>1, <1>3, UrlMarks, TakeUrlByteHolds DEF s_now
<1> QED
  BY <1>2, <1>3 DEF UrlHead

\* The invariant is kept by the case UrlTail of the switch.
LEMMA UrlTailHolds == IInv /\ UrlTail => Holds
<1> SUFFICES ASSUME IInv, UrlTail PROVE Holds
  OBVIOUS
<1> DEFINE s == IF byte = "CR" THEN "s_req_line_almost_done"
                               ELSE "s_header_field_start"
           old == [parser EXCEPT !.http_major = 0, !.http_minor = 9, !.state = s]
           next == Goto("s_req_http_start")
<1>1. Pass /\ s_now \in UrlStates
  BY DEF UrlTail, At, Pass, s_now, UrlStates
<1>2. ParserInv(parser) /\ parser.http_errno = "OK"
  BY <1>1, PassFacts
<1>3. s_now \in Heads
       /\ s_now \notin OwingStates \cup {"s_header_field", "s_header_value"}
       /\ s_now \notin {"s_start_req_or_res", "s_res_or_resp_H",
                        "s_header_value", "s_chunk_size"}
  BY <1>1, UrlNames
<1>4. \A u \in {"s_req_http_start", "s_req_line_almost_done", "s_header_field_start"} :
        /\ u \in States \ Special
        /\ u \notin HeaderStates \ {"s_header_field_start"}
        /\ TextOf(u) = {} /\ u \notin OwingStates \cup {"s_chunk_size_start"}
  BY SilentNames, SilentFacts, SMT
     DEF Silent, Special, HeaderStates, ChunkSizeStates, ChunkDataStates
<1>5. s \in {"s_req_line_almost_done", "s_header_field_start"}
  OBVIOUS
<1> HIDE DEF s
<1>6. ParserInv(next)
  BY <1>2, <1>3, <1>4, GotoInv
<1>7. /\ ParserInv(old) /\ old.state = s /\ old.http_errno = "OK"
      /\ old.nread = parser.nread
  <2>1. old \in Parsers
    <3>1. old = [[[parser EXCEPT !.http_major = 0] EXCEPT !.http_minor = 9]
                    EXCEPT !.state = s]
      OBVIOUS
    <3>2. 0 \in FourDigits /\ 9 \in FourDigits /\ s \in States
      BY <1>4, <1>5, SMT DEF FourDigits
    <3> HIDE DEF old
    <3> QED
      BY <1>2, <3>1, <3>2, Updates DEF ParserInv
  <2>2. /\ old.state = s /\ old.http_errno = "OK"
        /\ old.http_major <= 999 /\ old.http_minor <= 999
        /\ old.status_code = parser.status_code
        /\ old.nread = parser.nread /\ old.flags = parser.flags
        /\ old.type = parser.type
        /\ old.content_length = parser.content_length
    BY <1>2, SMT DEF ParserInv, Parsers
  <2>3. parser.status_code <= 999
    BY <1>2 DEF ParserInv, IndexInv
  <2>4. /\ parser.type # "HTTP_BOTH"
        /\ \/ parser.content_length = ULLONG_MAX
           \/ "F_TRAILING" \in parser.flags \/ "F_CONTENTLENGTH" \in parser.flags
    BY <1>2, <1>3 DEF ParserInv, FramingInv, s_now, Heads
  <2> HIDE DEF old
  <2> QED
    BY <1>4, <1>5, <2>1, <2>2, <2>3, <2>4, StateInv
<1>8. Exact(old) /\ Exact(next)
  BY <1>3, ExactElsewhere
<1>9. next.state = "s_req_http_start" /\ next.http_errno = "OK"
        /\ next.nread = parser.nread
  BY <1>2, GotoFields
<1>10. Heard(Data("url", marks)) /\ Quiet(Data("url", marks))
  BY <1>1, PassFacts, HeardData DEF MarksOf, Texts
<1>11. \/ Break(next, Unmark("url"), Data("url", marks))
       \/ Break(old, Unmark("url"), Data("url", marks))
       \/ TakeUrlByte(parser.state, marks)
  BY DEF UrlTail, s
<1> HIDE DEF old, next
<1>12. CASE Break(next, Unmark("url"), Data("url", marks))
  BY <1>1, <1>3, <1>4, <1>6, <1>8, <1>9, <1>10, <1>12, UrlMarks, TextBreak
<1>13. CASE Break(old, Unmark("url"), Data("url", marks))
  BY <1>1, <1>3, <1>4, <1>5, <1>7, <1>8, <1>10, <1>13, UrlMarks, TextBreak
<1>14. CASE TakeUrlByte(parser.state, marks)
  BY <1>1, <1>14, UrlMarks, TakeUrlByteHolds DEF s_now
<1> QED
  BY <1>11, <1>12, <1>13, <1>14

\* The states between the URL or the start of a reply and the headers.
LineStates == {"s_req_http_start", "s_res_first_status_code",
               "s_res_status_code", "s_res_status_start"}
                \cup DOMAIN Expect \cup DOMAIN FirstDigits \cup DOMAIN MoreDigits

\* The states of the first line, by name.
LEMMA LineNames ==
    \A s \in LineStates :
       s \in Silent /\ s \in Heads \ Special
         /\ s \notin {"s_start_req_or_res", "s_res_or_resp_H", "s_header_value",
                      "s_chunk_size"}
  BY SilentNames, SMT DEF LineStates, Silent, Heads, Special, StartStates,
     ChunkSizeStates, ChunkDataStates, BodyStates, Expect, FirstDigits, MoreDigits

\* A case that moves on within the first line.
LEMMA LineGoto ==
    ASSUME Pass, s_now \in LineStates, NEW s \in Silent \ Special,
           s \in HeaderStates \ {"s_header_field_start"}
             => s_now \in HeaderStates \ {"s_header_field_start"},
           Break(Goto(s), marks, <<>>)
    PROVE  Holds
<1>1. ParserInv(Goto(s))
  BY LineNames, PassFacts, GotoInv DEF Silent
<1>2. Exact(Goto(s))
  BY LineNames, ExactElsewhere
<1> QED
  BY <1>1, <1>2, LineNames, PassFacts, GotoFields, HeardNothing, SilentBreak

\* The invariant is kept by the case ReqHttpStart of the switch.
LEMMA ReqHttpStartHolds == IInv /\ ReqHttpStart => Holds
<1> SUFFICES ASSUME IInv, ReqHttpStart PROVE Holds
  OBVIOUS
<1>1. Pass /\ s_now \in LineStates
  BY DEF ReqHttpStart, At, Pass, s_now, LineStates
<1>2. "s_req_http_H" \in LineStates /\ "s_req_http_H" \notin HeaderStates
  BY SMT DEF LineStates, Expect, HeaderStates
<1>3. CASE Break(Goto("s_req_http_H"), marks, <<>>)
  BY <1>1, <1>2, <1>3, LineNames, LineGoto
<1>4. CASE Break(parser, marks, <<>>)
  BY <1>1, <1>4, LineNames, SilentStay, HeardNothing
<1>5. CASE Fail(parser, <<>>, "INVALID_CONSTANT")
  BY <1>1, <1>5, FailHere, WrongNames
<1> QED
  BY <1>3, <1>4, <1>5 DEF ReqHttpStart

\* The bytes of the protocol's name are expected in order.
LEMMA ExpectTable ==
    \A s \in DOMAIN Expect :
       /\ Expect[s].next \in LineStates \cup HeaderStates
       /\ Expect[s].next \notin {"s_header_field", "s_header_value"}
       /\ Expect[s].next \in HeaderStates \ {"s_header_field_start"}
            => s \in HeaderStates \ {"s_header_field_start"}
       /\ Expect[s].error \in {"STRICT", "LF_EXPECTED"}
  BY SMT DEF Expect, LineStates, HeaderStates, FirstDigits

\* The invariant is kept by the case ExpectByte of the switch.
LEMMA ExpectByteHolds == IInv /\ ExpectByte => Holds
<1> SUFFICES ASSUME IInv, ExpectByte PROVE Holds
  OBVIOUS
<1> DEFINE next == Expect[parser.state].next
           error == Expect[parser.state].error
<1>1. Pass /\ s_now \in DOMAIN Expect /\ s_now \in LineStates
  BY DEF ExpectByte, At, Pass, s_now, LineStates
<1>2. next \in Silent \ Special
  <2>1. next \in LineStates \/ next \in HeaderStates \ {"s_header_field", "s_header_value"}
    BY <1>1, ExpectTable DEF s_now
  <2>2. HeaderStates \ {"s_header_field", "s_header_value"} \subseteq Silent \ Special
    BY SilentNames, SMT DEF HeaderStates, Special, ChunkSizeStates, ChunkDataStates
  <2> QED
    BY <2>1, <2>2, LineNames
<1>3. next \in HeaderStates \ {"s_header_field_start"}
        => s_now \in HeaderStates \ {"s_header_field_start"}
  BY <1>1, ExpectTable DEF s_now
<1>4. error \in Wrong
  BY <1>1, ExpectTable, WrongNames DEF s_now
<1>5. Break(Goto(next), marks, <<>>) \/ Fail(parser, <<>>, error)
  BY DEF ExpectByte
<1> HIDE DEF next, error
<1> QED
  BY <1>1, <1>2, <1>3, <1>4, <1>5, LineGoto, FailHere

\* The fields for the digits of a version or a status.
Numbers == {"http_major", "http_minor", "status_code"}

\* The numbers of the first line stay within four digits.
LEMMA FourDigitsAtMost ==
    ASSUME NEW v \in Nat, v <= 9999 PROVE v \in FourDigits
  BY SMT DEF FourDigits

\* A fourth digit is added before the number is refused.
LEMMA UpToFourDigits ==
    ASSUME NEW v \in FourDigits PROVE v \in Nat /\ v <= 9999
  BY SMT DEF FourDigits

\* What the fields say while the first line is read.
LEMMA LineFacts ==
    ASSUME Pass, s_now \in LineStates
    PROVE  /\ parser \in Parsers /\ parser.http_errno = "OK"
           /\ \A f \in Numbers : parser[f] \in Nat /\ parser[f] <= 999
           /\ parser.type # "HTTP_BOTH"
           /\ \/ parser.content_length = ULLONG_MAX
              \/ "F_TRAILING" \in parser.flags \/ "F_CONTENTLENGTH" \in parser.flags
           /\ s_now \in HeaderStates \ {"s_header_field_start"} =>
                (parser.header_state = "h_content_length"
                   => "F_CONTENTLENGTH" \in parser.flags)
<1>1. ParserInv(parser) /\ parser.http_errno = "OK"
  BY PassFacts
<1>2. /\ parser.http_major \in FourDigits /\ parser.http_minor \in FourDigits
      /\ parser.status_code \in FourDigits
  BY <1>1, SMT DEF ParserInv, Parsers
<1>3. \A f \in Numbers : parser[f] \in Nat /\ parser[f] <= 999
  BY <1>1, <1>2, UpToFourDigits DEF ParserInv, IndexInv, Numbers
<1>4. s_now \in Heads /\ s_now \notin {"s_start_req_or_res", "s_res_or_resp_H"}
  BY LineNames
<1> QED
  BY <1>1, <1>3, <1>4 DEF ParserInv, FramingInv, Heads, s_now

\* A number with its digits so far.
LEMMA NumberFields ==
    ASSUME Pass, s_now \in LineStates, NEW f \in Numbers, NEW v \in FourDigits
    PROVE  LET q == [parser EXCEPT ![f] = v]
           IN  /\ q \in Parsers /\ q.http_errno = "OK" /\ q.state = s_now
               /\ q.nread = parser.nread /\ q.flags = parser.flags
               /\ q.type = parser.type /\ q.header_state = parser.header_state
               /\ q.content_length = parser.content_length
               /\ v <= 999 => /\ q.http_major <= 999 /\ q.http_minor <= 999
                              /\ q.status_code <= 999
<1> DEFINE q == [parser EXCEPT ![f] = v]
<1>1. parser \in Parsers
  BY LineFacts
<1>2. q \in Parsers
  BY <1>1, Updates DEF Numbers
<1>3. /\ q.state = s_now /\ q.http_errno = parser.http_errno
      /\ q.nread = parser.nread /\ q.flags = parser.flags
      /\ q.type = parser.type /\ q.header_state = parser.header_state
      /\ q.content_length = parser.content_length
  BY <1>1, SMT DEF Numbers, Parsers, s_now
<1>4. /\ q.http_major \in {v, parser.http_major}
      /\ q.http_minor \in {v, parser.http_minor}
      /\ q.status_code \in {v, parser.status_code}
  BY <1>1, SMT DEF Numbers, Parsers
<1> HIDE DEF q
<1>5. v <= 999 => /\ q.http_major <= 999 /\ q.http_minor <= 999
                  /\ q.status_code <= 999
  BY <1>4, LineFacts DEF Numbers
<1> QED
  BY <1>2, <1>3, <1>5, LineFacts DEF q

\* A number of the first line may be any that is not refused.
LEMMA NumberInv ==
    ASSUME Pass, s_now \in LineStates, NEW f \in Numbers, NEW v \in Nat, v <= 999
    PROVE  ParserInv([parser EXCEPT ![f] = v])
<1> DEFINE q == [parser EXCEPT ![f] = v]
<1>1. v \in FourDigits
  <2>1. v <= 9999
    BY SMT
  <2> QED
    BY <2>1, FourDigitsAtMost
<1>2. /\ q \in Parsers /\ q.state = s_now
      /\ q.flags = parser.flags
      /\ q.type = parser.type /\ q.header_state = parser.header_state
      /\ q.content_length = parser.content_length
      /\ q.http_major <= 999 /\ q.http_minor <= 999
      /\ q.status_code <= 999
  BY <1>1, NumberFields
<1> HIDE DEF q
<1>3. ParserInv(q)
  BY <1>2, LineFacts, LineNames, StateInv
<1> QED
  BY <1>3 DEF q

\* The first digit of a version or a status.
LEMMA FirstDigitHolds ==
    ASSUME Pass, s_now \in LineStates, NEW f \in Numbers,
           NEW s \in LineStates \ HeaderStates, IsNum(byte), FirstDigit(f, s)
    PROVE  Holds
<1> DEFINE v == Digit[byte]
           p == [parser EXCEPT ![f] = v]
           q == [parser EXCEPT ![f] = v, !.state = s]
<1>1. v \in Nat /\ v <= 999
  <2>1. v \in 0..9
    BY DigitInRange
  <2> QED
    BY <2>1, SMT
<1>2. Break(q, marks, <<>>)
  BY DEF FirstDigit
<1>3. Exact(q)
  BY LineNames, ExactElsewhere
<1>4. q = [p EXCEPT !.state = s]
  OBVIOUS
<1> HIDE DEF v, q
<1>5. /\ p \in Parsers /\ p.http_errno = "OK"
      /\ p.nread = parser.nread /\ p.flags = parser.flags
      /\ p.type = parser.type
      /\ p.content_length = parser.content_length
      /\ p.http_major <= 999 /\ p.http_minor <= 999
      /\ p.status_code <= 999
  <2>1. v \in FourDigits
    <3>1. v <= 9999
      BY <1>1, SMT
    <3> QED
      BY <1>1, <3>1, FourDigitsAtMost
  <2> QED
    BY <1>1, <2>1, NumberFields
<1> HIDE DEF p
<1>6. s \in States
  BY LineNames DEF Heads
<1>7. q \in Parsers
  BY <1>4, <1>5, <1>6, Updates
<1>8. /\ q.http_errno = p.http_errno /\ q.state = s
      /\ q.nread = p.nread /\ q.flags = p.flags
      /\ q.type = p.type
      /\ q.content_length = p.content_length
      /\ q.http_major = p.http_major /\ q.http_minor = p.http_minor
      /\ q.status_code = p.status_code
  <2>1. p \in Parsers
    BY <1>5
  <2> QED
    BY <1>4, <2>1, SMT DEF Parsers
<1>9. ParserInv(q)
  BY <1>5, <1>7, <1>8, LineFacts, LineNames, StateInv
<1> QED
  BY <1>2, <1>3, <1>5, <1>8, <1>9, LineNames, HeardNothing, SilentBreak

\* One more digit of a version or a status, refused above 999.
LEMMA TakeDigitHolds ==
    ASSUME Pass, s_now \in LineStates, NEW f \in Numbers, NEW e \in Wrong,
           IsNum(byte), TakeDigit(f, e)
    PROVE  Holds
<1> DEFINE v == parser[f] * 10 + Digit[byte]
           q == [parser EXCEPT ![f] = v]
<1>1. v \in Nat /\ v <= 9999
  <2> DEFINE n == parser[f]
             d == Digit[byte]
  <2>1. d \in 0..9
    BY DigitInRange
  <2>2. n \in Nat /\ n <= 999
    BY LineFacts
  <2> HIDE DEF n, d
  <2>3. n * 10 + d \in Nat /\ n * 10 + d <= 9999
    BY <2>1, <2>2, SMT
  <2> QED
    BY <2>3 DEF n, d
<1>2. \/ v > 999 /\ Fail(q, <<>>, e)
      \/ ~(v > 999) /\ Break(q, marks, <<>>)
  BY DEF TakeDigit
<1>3. Exact(q)
  BY LineNames, ExactElsewhere
<1> HIDE DEF v
<1>4. /\ q \in Parsers /\ q.http_errno = "OK" /\ q.state = s_now
      /\ q.nread = parser.nread /\ q.flags = parser.flags
      /\ q.type = parser.type /\ q.header_state = parser.header_state
      /\ q.content_length = parser.content_length
  BY <1>1, FourDigitsAtMost, NumberFields
<1>5. ASSUME ~(v > 999) PROVE ParserInv(q)
  <2>1. v <= 999
    BY <1>1, <1>5, SMT
  <2> QED
    BY <1>1, <2>1, NumberInv
<1> HIDE DEF q
<1>6. CASE v > 999 /\ Fail(q, <<>>, e)
  <2> DEFINE r == [q EXCEPT !.http_errno = e]
  <2>1. r \in Parsers
    BY <1>4, SMT DEF Parsers, Wrong
  <2>2. /\ r.http_errno = e /\ r.state = s_now
        /\ r.flags = parser.flags
        /\ r.type = parser.type /\ r.header_state = parser.header_state
        /\ r.content_length = parser.content_length
    BY <1>4, SMT DEF Parsers
  <2> HIDE DEF r
  <2>3. ParserInv(r)
    BY <2>1, <2>2, LineFacts, LineNames, StateInv DEF Wrong
  <2>4. OwedBy(q, <<>>) = 0 /\ q.state \notin OwingStates
    BY <1>4, LineNames, SilentFacts, HeardNothing, PlainlyOwed
  <2> QED
    BY <1>3, <1>4, <1>6, <2>3, <2>4, HeardNothing, FailInHolds, SMT DEF Pass, r
<1>7. CASE ~(v > 999) /\ Break(q, marks, <<>>)
  BY <1>3, <1>4, <1>5, <1>7, LineNames, HeardNothing, SilentBreak
<1> QED
  BY <1>2, <1>6, <1>7

\* The numbers of the first line, and the states after them.
LEMMA DigitTables ==
    /\ \A s \in DOMAIN FirstDigits :
         /\ FirstDigits[s].field \in Numbers
         /\ FirstDigits[s].next \in LineStates \ HeaderStates
    /\ \A s \in DOMAIN MoreDigits :
         /\ MoreDigits[s].field \in Numbers
         /\ \A c \in DOMAIN MoreDigits[s].ends :
               /\ MoreDigits[s].ends[c] \in LineStates \cup {"s_header_field_start"}
               /\ MoreDigits[s].ends[c] \notin HeaderStates \ {"s_header_field_start"}
<1>1. \A s \in DOMAIN FirstDigits : FirstDigits[s].field \in Numbers
  BY SMT DEF FirstDigits, Numbers
<1>2. \A s \in DOMAIN FirstDigits : FirstDigits[s].next \in LineStates \ HeaderStates
  BY SMT DEF FirstDigits, LineStates, MoreDigits, HeaderStates
<1>3. \A s \in DOMAIN MoreDigits : MoreDigits[s].field \in Numbers
  BY SMT DEF MoreDigits, Numbers
<1>4. \A s \in DOMAIN MoreDigits : \A c \in DOMAIN MoreDigits[s].ends :
        MoreDigits[s].ends[c] \in {"s_res_first_http_minor",
          "s_req_first_http_minor", "s_res_first_status_code",
          "s_req_line_almost_done", "s_header_field_start"}
  BY SMT DEF MoreDigits
<1>5. /\ {"s_res_first_http_minor", "s_req_first_http_minor",
          "s_res_first_status_code", "s_req_line_almost_done"} \subseteq LineStates
      /\ \A s \in {"s_res_first_http_minor", "s_req_first_http_minor",
          "s_res_first_status_code", "s_req_line_almost_done"} : s \notin HeaderStates
  BY SMT DEF LineStates, FirstDigits, Expect, HeaderStates
<1> QED
  BY <1>1, <1>2, <1>3, <1>4, <1>5

\* The headers start with nothing marked.
LEMMA StartOfHeaders == "s_header_field_start" \in Silent \ Special
  BY SilentNames, SMT DEF HeaderStates, Special, ChunkSizeStates, ChunkDataStates

\* The invariant is kept by the case Version of the switch.
LEMMA VersionHolds == IInv /\ Version => Holds
<1> SUFFICES ASSUME IInv, Version PROVE Holds
  OBVIOUS
<1>1. CASE /\ parser.state \in DOMAIN FirstDigits /\ At(parser.state)
           /\ LET d == FirstDigits[parser.state]
              IN  IF IsNum(byte) /\ Digit[byte] >= d.least
                    THEN FirstDigit(d.field, d.next)
                    ELSE Fail(parser, <<>>, "INVALID_VERSION")
  <2> DEFINE f == FirstDigits[parser.state].field
             next == FirstDigits[parser.state].next
  <2>1. Pass /\ s_now \in LineStates
    BY <1>1 DEF At, Pass, s_now, LineStates
  <2>2. f \in Numbers /\ next \in LineStates \ HeaderStates
    BY <1>1, DigitTables
  <2>3. \/ IsNum(byte) /\ FirstDigit(f, next)
        \/ Fail(parser, <<>>, "INVALID_VERSION")
    BY <1>1
  <2> HIDE DEF f, next
  <2> QED
    BY <2>1, <2>2, <2>3, FirstDigitHolds, FailHere, WrongNames
<1>2. CASE /\ parser.state \in DOMAIN MoreDigits /\ At(parser.state)
           /\ LET d == MoreDigits[parser.state]
              IN  CASE byte \in DOMAIN d.ends -> Break(Goto(d.ends[byte]), marks, <<>>)
                    [] IsNum(byte) -> TakeDigit(d.field, "INVALID_VERSION")
                    [] OTHER -> Fail(parser, <<>>, "INVALID_VERSION")
  <2> DEFINE f == MoreDigits[parser.state].field
             ends == MoreDigits[parser.state].ends
  <2>1. Pass /\ s_now \in LineStates
    BY <1>2 DEF At, Pass, s_now, LineStates
  <2>2. f \in Numbers
    BY <1>2, DigitTables
  <2>3. \/ byte \in DOMAIN ends /\ Break(Goto(ends[byte]), marks, <<>>)
        \/ IsNum(byte) /\ TakeDigit(f, "INVALID_VERSION")
        \/ Fail(parser, <<>>, "INVALID_VERSION")
    BY <1>2
  <2>4. ASSUME byte \in DOMAIN ends
        PROVE  /\ ends[byte] \in Silent \ Special
               /\ ends[byte] \notin HeaderStates \ {"s_header_field_start"}
    BY <1>2, <2>4, DigitTables, LineNames, StartOfHeaders
  <2> HIDE DEF f, ends
  <2> QED
    BY <2>1, <2>2, <2>3, <2>4, LineGoto, TakeDigitHolds, FailHere, WrongNames
<1> QED
  BY <1>1, <1>2 DEF Version

\* The invariant is kept by the case StatusCode of the switch.
LEMMA StatusCodeHolds == IInv /\ StatusCode => Holds
<1> SUFFICES ASSUME IInv, StatusCode PROVE Holds
  OBVIOUS
<1> DEFINE end == IF byte = "CR" THEN "s_res_line_almost_done"
                                 ELSE "s_header_field_start"
<1>1. Pass /\ s_now \in LineStates
  BY DEF StatusCode, At, Pass, s_now, LineStates
<1>2. /\ {"s_res_status_code", "s_res_status_start", "s_res_line_almost_done"}
             \subseteq LineStates
      /\ \A s \in {"s_res_status_code", "s_res_status_start",
                   "s_res_line_almost_done"} : s \notin HeaderStates
  BY SMT DEF LineStates, Expect, HeaderStates
<1>3. /\ end \in Silent \ Special
      /\ end \notin HeaderStates \ {"s_header_field_start"}
  BY <1>2, LineNames, StartOfHeaders
<1>4. "status_code" \in Numbers
  BY DEF Numbers
<1>5. \/ IsNum(byte) /\ FirstDigit("status_code", "s_res_status_code")
      \/ Break(parser, marks, <<>>)
      \/ Fail(parser, <<>>, "INVALID_STATUS")
      \/ IsNum(byte) /\ TakeDigit("status_code", "INVALID_STATUS")
      \/ Break(Goto("s_res_status_start"), marks, <<>>)
      \/ Break(Goto(end), marks, <<>>)
  BY DEF StatusCode, EndOfStatusLine
<1> HIDE DEF end
<1>6. CASE IsNum(byte) /\ FirstDigit("status_code", "s_res_status_code")
  BY <1>1, <1>2, <1>4, <1>6, FirstDigitHolds
<1>7. CASE Break(parser, marks, <<>>)
  BY <1>1, <1>7, LineNames, SilentStay, HeardNothing
<1>8. CASE Fail(parser, <<>>, "INVALID_STATUS")
  BY <1>1, <1>8, FailHere, WrongNames
<1>9. CASE IsNum(byte) /\ TakeDigit("status_code", "INVALID_STATUS")
  BY <1>1, <1>4, <1>9, TakeDigitHolds, WrongNames
<1>10. CASE Break(Goto("s_res_status_start"), marks, <<>>)
  BY <1>1, <1>2, <1>10, LineNames, LineGoto
<1>11. CASE Break(Goto(end), marks, <<>>)
  BY <1>1, <1>3, <1>11, LineGoto
<1> QED
  BY <1>5, <1>6, <1>7, <1>8, <1>9, <1>10, <1>11

\* The reason phrase is the text of its state.
LEMMA StatusTextFacts ==
    /\ "s_res_status" \in (Heads \ Special) \ HeaderStates
    /\ "s_res_status" \notin OwingStates \cup BodyMarked
    /\ TextOf("s_res_status") = {"status"}
  BY StateNames, TextsOf, SMT DEF Heads, Special, HeaderStates, OwingStates,
     BodyMarked, StartStates, ChunkSizeStates, BodyStates, ChunkDataStates

\* The invariant is kept by the case StatusText of the switch.
LEMMA StatusTextHolds == IInv /\ StatusText => Holds
<1> SUFFICES ASSUME IInv, StatusText PROVE Holds
  OBVIOUS
<1> DEFINE text == [parser EXCEPT !.state = "s_res_status", !.index = 0]
           s == IF byte = "CR" THEN "s_res_line_almost_done"
                               ELSE "s_header_field_start"
           end == Goto(s)
<1>1. s \in Silent \ Special /\ s \notin HeaderStates \ {"s_header_field_start"}
  <2>1. "s_res_line_almost_done" \in LineStates
           /\ "s_res_line_almost_done" \notin HeaderStates
    BY SMT DEF LineStates, Expect, HeaderStates
  <2> QED
    BY <2>1, LineNames, StartOfHeaders
<1> HIDE DEF s
<1>2. CASE /\ At("s_res_status_start")
           /\ \/ Break(end, marks, <<>>)
              \/ Break(text, MARK("status"), <<>>)
  <2>1. Pass /\ s_now = "s_res_status_start" /\ s_now \in LineStates
    BY <1>2 DEF At, Pass, s_now, LineStates
  <2>2. s_now \in Silent /\ s_now \notin {"s_header_value", "s_chunk_size"}
    BY <2>1, LineNames
  <2>3. CASE Break(end, marks, <<>>)
    BY <1>1, <2>1, <2>3, LineGoto
  <2>4. CASE Break(text, MARK("status"), <<>>)
    <3>1. parser \in Parsers
      BY <2>1, LineFacts
    <3>2. text \in Parsers
      <4>1. text = [[parser EXCEPT !.state = "s_res_status"] EXCEPT !.index = 0]
        OBVIOUS
      <4>2. "s_res_status" \in States /\ 0 \in 0..127
        BY StatusTextFacts DEF Heads
      <4> HIDE DEF text
      <4> QED
        BY <3>1, <4>1, <4>2, Updates
    <3>3. /\ text.state = "s_res_status" /\ text.http_errno = parser.http_errno
          /\ text.nread = parser.nread /\ text.flags = parser.flags
          /\ text.type = parser.type
          /\ text.content_length = parser.content_length
          /\ text.http_major = parser.http_major
          /\ text.http_minor = parser.http_minor
          /\ text.status_code = parser.status_code
      BY <3>1, SMT DEF Parsers
    <3>4. Exact(text)
      BY <2>2, ExactElsewhere
    <3> HIDE DEF text
    <3>5. ParserInv(text) /\ text.http_errno = "OK"
      BY <2>1, <3>2, <3>3, LineFacts, StatusTextFacts, StateInv DEF Numbers
    <3>6. MarksOf("s_res_status", MARK("status"))
      <4>1. "status" \in Texts \ {"body"}
        BY DEF Texts
      <4> QED
        BY <2>1, <2>2, <4>1, PassFacts, SilentFacts, StatusTextFacts, MarksBegin
    <3>7. s_now \notin OwingStates \cup {"s_header_field", "s_header_value"}
      BY <2>2, SilentFacts
    <3> QED
      BY <2>1, <2>4, <3>3, <3>4, <3>5, <3>6, <3>7, HeardNothing,
         StatusTextFacts, TextBreak
  <2> QED
    BY <1>2, <2>3, <2>4
<1>3. CASE /\ At("s_res_status")
           /\ \/ Break(end, Unmark("status"), Data("status", marks))
              \/ Break(parser, marks, <<>>)
  <2>1. Pass /\ s_now = "s_res_status"
    BY <1>3 DEF At, Pass, s_now
  <2>2. ParserInv(parser) /\ parser.http_errno = "OK" /\ MarksOf(s_now, marks)
    BY <2>1, PassFacts
  <2>3. s_now \notin OwingStates \cup {"s_header_field", "s_header_value"}
    BY <2>1, StatusTextFacts
  <2>4. CASE Break(end, Unmark("status"), Data("status", marks))
    <3>1. ParserInv(end)
      BY <1>1, <2>1, <2>2, StatusTextFacts, GotoInv DEF Silent
    <3>2. /\ end.state = s /\ end.http_errno = "OK" /\ end.nread = parser.nread
      BY <2>2, GotoFields
    <3>3. MarksOf(s, Unmark("status"))
      <4>1. "status" \in Texts
        BY DEF Texts
      <4> QED
        BY <1>1, <2>1, <2>2, <4>1, SilentFacts, StatusTextFacts, MarksEnd
    <3>4. Heard(Data("status", marks)) /\ Quiet(Data("status", marks))
      BY <2>2, HeardData DEF MarksOf, Texts
    <3>5. Exact(end)
      BY <2>1, ExactElsewhere
    <3> HIDE DEF end
    <3> QED
      BY <1>1, <2>1, <2>3, <2>4, <3>1, <3>2, <3>3, <3>4, <3>5, SilentFacts,
         TextBreak
  <2>5. CASE Break(parser, marks, <<>>)
    BY <2>1, <2>2, <2>3, <2>5, HeardNothing, ExactHere, TextBreak DEF s_now
  <2> QED
    BY <1>3, <2>4, <2>5
<1> QED
  BY <1>2, <1>3 DEF StatusText, EndOfStatusLine, s
-----------------------------------------------------------------------------
(* Headers. *)

\* What the states of a header line have in common.
LEMMA HeaderFacts ==
    ASSUME Pass, s_now \in HeaderStates
    PROVE  /\ parser \in Parsers /\ parser.http_errno = "OK"
           /\ parser.http_major <= 999 /\ parser.http_minor <= 999
           /\ parser.status_code <= 999
           /\ parser.type # "HTTP_BOTH"
           /\ \/ parser.content_length = ULLONG_MAX
              \/ "F_TRAILING" \in parser.flags \/ "F_CONTENTLENGTH" \in parser.flags
           /\ s_now # "s_header_field_start" =>
                (parser.header_state = "h_content_length"
                   => "F_CONTENTLENGTH" \in parser.flags)
           /\ s_now \notin OwingStates
<1>1. ParserInv(parser) /\ parser.http_errno = "OK"
  BY PassFacts
<1>2. \A s \in HeaderStates : s \notin StartStates \cup ChunkSizeStates
         \cup BodyStates \cup {"s_dead", "s_start_req_or_res", "s_res_or_resp_H"}
         \cup OwingStates
  BY SMT DEF HeaderStates, StartStates, ChunkSizeStates, BodyStates,
     ChunkDataStates, OwingStates
<1> QED
  BY <1>1, <1>2 DEF ParserInv, IndexInv, FramingInv, s_now

\* A record q that differs from parser in nothing that FramingInv and IndexInv
\* say of a header, but in its header state, its flags and its length.
LEMMA HeaderInv ==
    ASSUME Pass, s_now \in HeaderStates, NEW q \in Parsers,
           q.state \in HeaderStates,
           q.http_major = parser.http_major, q.http_minor = parser.http_minor,
           q.status_code = parser.status_code, q.type = parser.type,
           parser.flags \subseteq q.flags,
           \/ q.content_length = parser.content_length
           \/ "F_CONTENTLENGTH" \in q.flags,
           q.state # "s_header_field_start" =>
             (q.header_state = "h_content_length" => "F_CONTENTLENGTH" \in q.flags),
           q.state = "s_header_field" =>
             /\ q.header_state \in NameStates
             /\ q.header_state = "h_C" => q.index = 0
             /\ q.header_state = "h_CO" => q.index = 1
             /\ q.header_state = "h_CON" => q.index = 2
             /\ q.header_state \in DOMAIN FieldMatch => q.index <= 98,
           q.state = "s_header_value" =>
             /\ q.header_state \in ValueStates
             /\ q.header_state \in DOMAIN ValueMatch => q.index <= 98
             /\ q.header_state = "h_matching_connection_token_start"
                  => q.index = 0
    PROVE  ParserInv(q)
<1>1. q.state \notin ChunkSizeStates \cup ChunkDataStates
        \cup {"s_req_method", "s_headers_done", "s_body_identity",
              "s_body_identity_eof"}
  BY SMT DEF HeaderStates, ChunkSizeStates, ChunkDataStates
<1>2. /\ parser.http_major <= 999 /\ parser.http_minor <= 999
      /\ parser.status_code <= 999 /\ q.type # "HTTP_BOTH"
  BY HeaderFacts
<1>3. \/ q.content_length = ULLONG_MAX
      \/ "F_TRAILING" \in q.flags \/ "F_CONTENTLENGTH" \in q.flags
  BY HeaderFacts
<1>4. IndexInv(q)
  BY <1>1, <1>2 DEF IndexInv
<1>5. FramingInv(q)
  BY <1>1, <1>2, <1>3 DEF FramingInv
<1>6. CountInv(q)
  BY <1>1, SMT DEF CountInv, ChunkDataStates
<1> QED
  BY <1>4, <1>5, <1>6 DEF ParserInv

\* COUNT_HEADER_SIZE at the end of an inner loop.
LEMMA CountedFacts ==
    ASSUME IInv
    PROVE  /\ ParserInv(Counted) /\ Counted.state = s_now
           /\ Counted.http_errno = parser.http_errno
           /\ Counted.nread = parser.nread + run /\ Counted.nread \in Nat
           /\ Counted.content_length = parser.content_length
           /\ Counted.flags = parser.flags /\ Counted.type = parser.type
           /\ Counted.header_state = parser.header_state
           /\ Counted.http_major = parser.http_major
           /\ Counted.http_minor = parser.http_minor
           /\ Counted.status_code = parser.status_code
<1>1. ParserInv(parser) /\ run \in Nat /\ parser \in Parsers
  BY DEF IInv, ParserInv, TypeOK
<1>2. parser.nread + run \in Nat
  BY <1>1, SMT DEF Parsers
<1>3. Counted \in Parsers
  BY <1>1, <1>2, Updates DEF Counted
<1>4. /\ Counted.state = s_now /\ Counted.http_errno = parser.http_errno
      /\ Counted.nread = parser.nread + run
      /\ Counted.content_length = parser.content_length
      /\ Counted.flags = parser.flags /\ Counted.type = parser.type
      /\ Counted.header_state = parser.header_state
      /\ Counted.index = parser.index /\ Counted.method = parser.method
      /\ Counted.http_major = parser.http_major
      /\ Counted.http_minor = parser.http_minor
      /\ Counted.status_code = parser.status_code
  BY <1>1, SMT DEF Parsers, Counted, s_now
<1>5. IndexInv(Counted)
  BY <1>1, <1>4 DEF ParserInv, IndexInv, s_now
<1>6. FramingInv(Counted)
  BY <1>1, <1>4 DEF ParserInv, FramingInv, s_now
<1>7. CountInv(Counted)
  BY <1>1, <1>4 DEF ParserInv, CountInv, s_now
<1> QED
  BY <1>2, <1>3, <1>4, <1>5, <1>6, <1>7 DEF ParserInv

\* After COUNT_HEADER_SIZE no byte seen is uncounted.
LEMMA CountedSeen ==
    ASSUME Pass
    PROVE  seen <= Counted.nread
<1>1. seen \in Nat /\ run \in Nat /\ parser.nread \in Nat
        /\ parser.http_errno = "OK"
  BY PassFacts, SMT DEF ParserInv, Parsers
<1>2. seen <= parser.nread + run
  BY <1>1, SMT DEF Pass, IInv, NreadInv
<1>3. Counted.nread = parser.nread + run
  BY CountedFacts DEF Pass
<1> QED
  BY <1>2, <1>3

\* The first letter of a header's name decides what it may become.
LEMMA FirstLetterFacts ==
    ASSUME NEW c
    PROVE  /\ FirstLetter(c) \in NameStates
           /\ FirstLetter(c) \notin {"h_CO", "h_CON", "h_content_length"}
  BY SMT DEF FirstLetter, NameStates, FieldMatch

\* The states of the headers, by name.
LEMMA HeaderNames ==
    /\ HeaderStates \subseteq States
    /\ "s_headers_almost_done" \in (Silent \cap Heads) \ (Special \cup HeaderStates)
    /\ HeaderStates \subseteq Heads
    /\ "s_header_field_start" \in HeaderStates /\ "s_header_field" \in HeaderStates
    /\ "s_header_value" \in HeaderStates
<1>1. "s_headers_almost_done" \in (Silent \cap Heads) \ (Special \cup HeaderStates)
  BY SilentNames, SMT DEF Silent, Special, HeaderStates, ChunkSizeStates,
     ChunkDataStates, Heads, StartStates, BodyStates
<1>2. HeaderStates \subseteq Heads
  BY StateNames, SMT DEF HeaderStates, ChunkSizeStates,
     ChunkDataStates, Heads, StartStates, BodyStates
<1> QED
  BY <1>1, <1>2, StateNames, SMT DEF HeaderStates

\* The invariant is kept by the case HeaderFieldStart of the switch.
LEMMA HeaderFieldStartHolds == IInv /\ HeaderFieldStart => Holds
<1> SUFFICES ASSUME IInv, HeaderFieldStart PROVE Holds
  OBVIOUS
<1> DEFINE h == FirstLetter(ToLower(byte))
           name == [parser EXCEPT !.state = "s_header_field", !.index = 0,
                                  !.header_state = h]
           end == Goto("s_headers_almost_done")
<1>1. Pass /\ s_now = "s_header_field_start" /\ s_now \in Silent
  BY StartOfHeaders DEF HeaderFieldStart, At, Pass, s_now
<1>2. s_now \in HeaderStates /\ s_now \in Heads
  BY <1>1, HeaderNames
<1>3. /\ ParserInv(end) /\ end.state = "s_headers_almost_done"
      /\ end.http_errno = "OK" /\ end.nread = parser.nread /\ Exact(end)
  BY <1>1, <1>2, PassFacts, HeaderNames, GotoInv, GotoFields, ExactElsewhere DEF Silent
<1>4. PARSING_HEADER(s_now)
  BY <1>2 DEF Heads, PARSING_HEADER
<1>5. h \in NameStates /\ h \notin {"h_CO", "h_CON", "h_content_length"}
  BY FirstLetterFacts
<1>6. \/ Break(end, marks, <<>>)
      \/ Reexecute(end, marks, <<>>)
      \/ Break(name, MARK("header_field"), <<>>)
      \/ Fail(parser, <<>>, "INVALID_HEADER_TOKEN")
  BY DEF HeaderFieldStart
<1> HIDE DEF h, end
<1>7. CASE Break(end, marks, <<>>)
  BY <1>1, <1>3, <1>7, HeaderNames, HeardNothing, SilentBreak
<1>8. CASE Reexecute(end, marks, <<>>)
  BY <1>1, <1>3, <1>4, <1>8, HeaderNames, HeardNothing, SilentReexecute
<1>9. CASE Break(name, MARK("header_field"), <<>>)
  <2>1. parser \in Parsers /\ parser.http_errno = "OK"
    BY <1>1, <1>2, HeaderFacts
  <2>2. name \in Parsers
    <3>1. name = [[[parser EXCEPT !.state = "s_header_field"] EXCEPT !.index = 0]
                     EXCEPT !.header_state = h]
      OBVIOUS
    <3>2. "s_header_field" \in States /\ 0 \in 0..127
            /\ h \in NameStates \cup ValueStates
      BY <1>5, HeaderNames
    <3> HIDE DEF name
    <3> QED
      BY <2>1, <3>1, <3>2, Updates
  <2>3. /\ name.state = "s_header_field" /\ name.http_errno = parser.http_errno
        /\ name.nread = parser.nread /\ name.flags = parser.flags
        /\ name.type = parser.type /\ name.header_state = h /\ name.index = 0
        /\ name.content_length = parser.content_length
        /\ name.http_major = parser.http_major
        /\ name.http_minor = parser.http_minor
        /\ name.status_code = parser.status_code
    BY <2>1, SMT DEF Parsers
  <2>4. Exact(name)
    BY <1>1, ExactElsewhere
  <2> HIDE DEF name
  <2>5. ParserInv(name)
    <3>1. name.index <= 98
      BY <2>3, SMT
    <3> QED
      BY <1>1, <1>2, <1>5, <2>2, <2>3, <3>1, HeaderNames, HeaderInv
  <2>6. MarksOf("s_header_field", MARK("header_field"))
    <3>1. "header_field" \in Texts \ {"body"}
      BY DEF Texts
    <3> QED
      BY <1>1, <3>1, PassFacts, SilentFacts, TextsOf, MarksBegin
  <2>7. /\ s_now \notin OwingStates \cup {"s_header_field", "s_header_value"}
        /\ "s_header_field" \notin OwingStates \cup {"s_chunk_size_start"}
    BY <1>1 DEF OwingStates
  <2> QED
    BY <1>1, <1>9, <2>1, <2>3, <2>4, <2>5, <2>6, <2>7, HeardNothing, TextBreak
<1>10. CASE Fail(parser, <<>>, "INVALID_HEADER_TOKEN")
  BY <1>1, <1>10, FailHere, WrongNames
<1> QED
  BY <1>6, <1>7, <1>8, <1>9, <1>10

\* index is a small number while a keyword is matched.
LEMMA KeywordLengths ==
    ASSUME NEW w \in HeaderKeywords
    PROVE  Len(Keyword[w]) \in Nat /\ Len(Keyword[w]) <= 100
<1> DEFINE n == Len(Keyword[w])
<1>1. n \in 2..100
  BY KeywordAssumption DEF KeywordAssumption
<1> HIDE DEF n
<1>2. n \in Nat /\ n <= 100
  BY <1>1, SMT
<1> QED
  BY <1>2 DEF n

\* A keyword is matched no further than its last byte but one.
LEMMA MatchFacts ==
    ASSUME NEW w \in HeaderKeywords, NEW i \in Nat, NEW c, NEW hit, NEW miss
    PROVE  \/ Match(w, i, c, hit, miss) \in {hit, miss}
           \/ Match(w, i, c, hit, miss) = parser.header_state /\ i <= 98
<1> DEFINE n == Len(Keyword[w])
           m == Match(w, i, c, hit, miss)
<1>1. n \in Nat /\ n <= 100
  BY KeywordLengths
<1>2. \/ m \in {hit, miss}
      \/ m = parser.header_state /\ ~(i >= n) /\ i # n - 1
  BY DEF Match
<1> HIDE DEF n, m
<1>3. ~(i >= n) /\ i # n - 1 => i <= 98
  BY <1>1, SMT
<1> QED
  BY <1>2, <1>3 DEF m

\* The keywords of header names, and what a full match means.
LEMMA FieldMatchTable ==
    \A h \in DOMAIN FieldMatch :
       /\ FieldMatch[h].word \in HeaderKeywords
       /\ FieldMatch[h].hit \in {"h_connection", "h_content_length",
                                 "h_transfer_encoding", "h_upgrade"}
<1>1. \A h \in DOMAIN FieldMatch : FieldMatch[h].word \in HeaderKeywords
  BY SMT DEF FieldMatch, HeaderKeywords
<1>2. \A h \in DOMAIN FieldMatch :
       FieldMatch[h].hit \in {"h_connection", "h_content_length",
                              "h_transfer_encoding", "h_upgrade"}
  BY SMT DEF FieldMatch
<1> QED
  BY <1>1, <1>2

\* The header states of the three tables, by name.
LEMMA FieldMatchNames ==
    /\ DOMAIN FieldMatch = {"h_matching_connection", "h_matching_proxy_connection",
                            "h_matching_content_length",
                            "h_matching_transfer_encoding", "h_matching_upgrade"}
    /\ DOMAIN ValueMatch = {"h_matching_transfer_encoding_chunked",
                            "h_matching_connection_keep_alive",
                            "h_matching_connection_close",
                            "h_matching_connection_upgrade"}
    /\ DOMAIN ValueFlag = {"h_connection_keep_alive", "h_connection_close",
                           "h_connection_upgrade", "h_transfer_encoding_chunked"}
  BY SMT DEF FieldMatch, ValueMatch, ValueFlag

\* The next state of a name.
LEMMA NameStep ==
    ASSUME NEW c, parser.index \in Nat, parser.header_state \in NameStates
    PROVE  LET h == NameState(c)
           IN  /\ h \in NameStates /\ h # "h_C"
               /\ h = "h_CO" => parser.header_state = "h_C"
               /\ h = "h_CON" => parser.header_state = "h_CO"
               /\ h \in DOMAIN FieldMatch =>
                    \/ parser.header_state = "h_CON"
                    \/ /\ parser.header_state \in DOMAIN FieldMatch
                       /\ parser.index + 1 <= 98
<1> DEFINE h == NameState(c)
           hs == parser.header_state
           w == FieldMatch[hs].word
           hit == FieldMatch[hs].hit
<1>1. CASE hs \in DOMAIN FieldMatch
  <2>1. h = Match(w, parser.index + 1, c, hit, "h_general")
    BY <1>1, FieldMatchNames DEF NameState
  <2>2. /\ w \in HeaderKeywords /\ parser.index + 1 \in Nat
        /\ hit \in {"h_connection", "h_content_length",
                    "h_transfer_encoding", "h_upgrade"}
    BY <1>1, FieldMatchTable, SMT
  <2>3. h \in {hit, "h_general"} \/ (h = hs /\ parser.index + 1 <= 98)
    <3> HIDE DEF w, hit, h, hs
    <3> QED
      BY <2>1, <2>2, MatchFacts DEF hs
  <2> HIDE DEF h, hit, w
  <2> QED
    BY <1>1, <2>2, <2>3, FieldMatchNames DEF NameStates, h
<1>2. CASE hs \notin DOMAIN FieldMatch
  <2>1. \/ hs = "h_C" /\ h = "h_CO"
        \/ hs = "h_CO" /\ h = "h_CON"
        \/ hs = "h_CON" /\ h \in {"h_matching_connection", "h_matching_content_length"}
        \/ h = "h_general"
    BY <1>2 DEF NameState
  <2> HIDE DEF h, hs
  <2> QED
    BY <2>1, FieldMatchNames DEF NameStates, h, hs
<1> QED
  BY <1>1, <1>2

\* A header's name or value is the one text that is marked.
LEMMA FieldMarks ==
    ASSUME Pass, s_now \in {"s_header_field", "s_header_value"}
    PROVE  /\ MarksOf(s_now, marks) /\ s_now \notin BodyMarked
           /\ \A t \in Texts : \A s : TextOf(s) = {} /\ TextOf(s_now) = {t}
                => MarksOf(s, Unmark(t))
           /\ {"header_field", "header_value"} \subseteq Texts \ {"body"}
<1>1. s_now \notin BodyMarked
  BY DEF BodyMarked, OwingStates
<1> QED
  BY <1>1, PassFacts, MarksEnd DEF Texts

\* What is counted at the end of an inner loop.
LEMMA EndedFacts ==
    ASSUME Pass, s_now \in {"s_header_field", "s_header_value"},
           NEW s \in HeaderStates \ {"s_header_field", "s_header_value"}
    PROVE  LET q == [Counted EXCEPT !.state = s]
           IN  /\ ParserInv(q) /\ q.state = s /\ q.http_errno = "OK" /\ Exact(q)
               /\ q.nread = Counted.nread
<1> DEFINE q == [Counted EXCEPT !.state = s]
<1>1. s_now \in HeaderStates
  BY HeaderNames
<1>2. /\ Counted \in Parsers /\ Counted.state = s_now
      /\ Counted.http_errno = "OK"
      /\ Counted.content_length = parser.content_length
      /\ Counted.flags = parser.flags /\ Counted.type = parser.type
      /\ Counted.header_state = parser.header_state
      /\ Counted.http_major = parser.http_major
      /\ Counted.http_minor = parser.http_minor
      /\ Counted.status_code = parser.status_code
  BY CountedFacts, PassFacts DEF Pass, ParserInv
<1>3. /\ q.state = s /\ q.http_errno = Counted.http_errno
      /\ q.content_length = Counted.content_length
      /\ q.flags = Counted.flags /\ q.type = Counted.type
      /\ q.header_state = Counted.header_state
      /\ q.http_major = Counted.http_major
      /\ q.http_minor = Counted.http_minor
      /\ q.status_code = Counted.status_code
      /\ q.nread = Counted.nread
  BY <1>2, SMT DEF Parsers
<1>4. q \in Parsers
  BY <1>2, HeaderNames, Updates
<1>5. Exact(q)
  BY <1>3, ExactElsewhere
<1> HIDE DEF q
<1>6. ParserInv(q)
  BY <1>1, <1>2, <1>3, <1>4, HeaderFacts, HeaderInv
<1> QED
  BY <1>2, <1>3, <1>5, <1>6 DEF q

\* The end of an inner loop by a break.
LEMMA EndOfLoop ==
    ASSUME Pass, s_now \in {"s_header_field", "s_header_value"},
           NEW t \in Texts \ {"body"}, TextOf(s_now) = {t},
           NEW s \in HeaderStates \ {"s_header_field", "s_header_value"},
           Break([Counted EXCEPT !.state = s], Unmark(t), Data(t, marks))
    PROVE  Holds
<1> DEFINE q == [Counted EXCEPT !.state = s]
<1>1. s_now \in HeaderStates
  BY HeaderNames
<1>2. /\ ParserInv(q) /\ q.state = s /\ q.http_errno = "OK" /\ Exact(q)
      /\ q.nread = Counted.nread
  BY EndedFacts
<1> HIDE DEF q
<1>3. s \in Silent
  BY SilentNames
<1>4. MarksOf(s, Advance(Unmark(t)))
  BY <1>3, FieldMarks, SilentFacts, AdvanceFits
<1>5. Heard(Data(t, marks)) /\ Quiet(Data(t, marks))
  BY FieldMarks, HeardData DEF MarksOf
<1>6. Owes(q, Advance(Unmark(t)), Data(t, marks))
  BY <1>1, <1>2, <1>3, <1>5, HeaderFacts, SilentFacts, PlainlyOwes
<1>7. seen <= q.nread /\ s # "s_chunk_size_start"
  BY <1>2, <1>3, CountedSeen, SilentFacts
<1> QED
  BY <1>2, <1>4, <1>5, <1>6, <1>7, BreakHolds DEF Legal, q

\* A pass of an inner loop that goes on with q.
LEMMA LoopHolds ==
    ASSUME Pass, s_now \in {"s_header_field", "s_header_value"},
           NEW q, NEW j \in BOOLEAN, Inner(q, j), ParserInv(q), Exact(q),
           q.state = s_now, q.nread = parser.nread, q.http_errno = "OK"
    PROVE  Holds
<1>1. s_now \in HeaderStates
  BY HeaderNames
<1>2. MarksOf(q.state, Advance(marks))
  BY FieldMarks, AdvanceFits
<1>3. Owes(q, Advance(marks), <<>>)
  BY <1>1, HeaderFacts, HeardNothing, PlainlyOwes
<1> QED
  BY <1>2, <1>3, HeardNothing, InnerHolds DEF Legal

\* `goto error` out of an inner loop.
LEMMA LoopFails ==
    ASSUME Pass, s_now \in {"s_header_field", "s_header_value"},
           NEW e \in Wrong, Fail(Counted, <<>>, e)
    PROVE  Holds
<1>1. ParserInv(Counted) /\ Counted.state = s_now
        /\ Counted.content_length = parser.content_length
  BY CountedFacts DEF Pass
<1>2. Exact(Counted)
  <2>1. parser.content_length \in Nat
    BY PassFacts, MaxIsNat, SMT DEF ParserInv, Parsers
  <2> QED
    BY <1>1, <2>1, SMT DEF Exact
<1>3. s_now \notin OwingStates
  BY HeaderNames, HeaderFacts
<1> QED
  BY <1>1, <1>2, <1>3, HeardNothing, PlainFail

\* The invariant is kept by the case HeaderField of the switch.
LEMMA HeaderFieldHolds == IInv /\ HeaderField => Holds
<1> SUFFICES ASSUME IInv, HeaderField PROVE Holds
  OBVIOUS
<1> DEFINE h == NameState(ToLower(byte))
           hs == parser.header_state
           i == IF CountsIndex(hs) THEN parser.index + 1 ELSE parser.index
           q == [parser EXCEPT !.header_state = h, !.index = i]
           fs == parser.flags \cup {"F_CONTENTLENGTH"}
           named == [q EXCEPT !.flags = fs]
           value == [Counted EXCEPT !.state = "s_header_value_discard_ws"]
<1>1. Pass /\ s_now = "s_header_field" /\ s_now \in HeaderStates
  BY HeaderNames DEF HeaderField, At, Pass, s_now
<1>2. ParserInv(parser) /\ parser.http_errno = "OK" /\ parser \in Parsers
  BY <1>1, PassFacts DEF ParserInv
<1>3. /\ parser.index \in 0..127 /\ parser.index \in Nat
      /\ hs \in NameStates
      /\ hs = "h_C" => parser.index = 0
      /\ hs = "h_CO" => parser.index = 1
      /\ hs = "h_CON" => parser.index = 2
      /\ hs \in DOMAIN FieldMatch => parser.index <= 98
  BY <1>1, <1>2, SMT DEF ParserInv, Parsers, IndexInv, s_now
<1>4. /\ h \in NameStates /\ h # "h_C"
      /\ h = "h_CO" => hs = "h_C"
      /\ h = "h_CON" => hs = "h_CO"
      /\ h \in DOMAIN FieldMatch =>
           \/ hs = "h_CON"
           \/ hs \in DOMAIN FieldMatch /\ parser.index + 1 <= 98
  BY <1>3, NameStep
<1>5. /\ CountsIndex(hs) <=> hs \in {"h_C", "h_CO", "h_CON"} \cup DOMAIN FieldMatch
  BY DEF CountsIndex
<1> HIDE DEF h, hs
<1>6. /\ i \in 0..127
      /\ h = "h_C" => i = 0
      /\ h = "h_CO" => i = 1
      /\ h = "h_CON" => i = 2
      /\ h \in DOMAIN FieldMatch => i <= 98
  <2>1. CASE hs = "h_C"
    BY <1>3, <1>4, <1>5, <2>1, FieldMatchNames, SMT
  <2>2. CASE hs = "h_CO"
    BY <1>3, <1>4, <1>5, <2>2, FieldMatchNames, SMT
  <2>3. CASE hs = "h_CON"
    BY <1>3, <1>4, <1>5, <2>3, SMT
  <2>4. CASE hs \in DOMAIN FieldMatch
    BY <1>3, <1>4, <1>5, <2>4, FieldMatchNames, SMT
  <2>5. CASE hs \notin {"h_C", "h_CO", "h_CON"} \cup DOMAIN FieldMatch
    BY <1>3, <1>4, <1>5, <2>5, SMT
  <2> QED
    BY <2>1, <2>2, <2>3, <2>4, <2>5
<1> HIDE DEF i
<1>7. /\ q \in Parsers /\ named \in Parsers
  <2>1. q = [[parser EXCEPT !.header_state = h] EXCEPT !.index = i]
    OBVIOUS
  <2>2. h \in NameStates \cup ValueStates
    BY <1>4
  <2>3. fs \in SUBSET Flags
    <3>1. parser.flags \in SUBSET Flags
      BY <1>2, SMT DEF Parsers
    <3> QED
      BY <3>1 DEF Flags
  <2> HIDE DEF q, fs
  <2>4. q \in Parsers
    BY <1>2, <1>6, <2>1, <2>2, Updates
  <2> QED
    BY <2>3, <2>4, Updates
<1>8. /\ q.state = parser.state /\ q.http_errno = parser.http_errno
      /\ q.nread = parser.nread /\ q.flags = parser.flags
      /\ q.type = parser.type /\ q.header_state = h /\ q.index = i
      /\ q.content_length = parser.content_length
      /\ q.http_major = parser.http_major
      /\ q.http_minor = parser.http_minor
      /\ q.status_code = parser.status_code
  BY <1>2, SMT DEF Parsers
<1>9. Exact(q) /\ Exact(named) /\ Exact(value)
  BY <1>1, ExactElsewhere
<1>10. \/ Fail(parser, <<>>, "UNEXPECTED_CONTENT_LENGTH")
       \/ Inner(named, FALSE)
       \/ ~(h = "h_content_length" /\ hs # h) /\ Inner(q, FALSE)
       \/ Fail(Counted, <<>>, "HEADER_OVERFLOW")
       \/ Break(value, Unmark("header_field"), Data("header_field", marks))
       \/ Fail(Counted, <<>>, "INVALID_HEADER_TOKEN")
  <2>1. named = [q EXCEPT !.flags = @ \cup {"F_CONTENTLENGTH"}]
    BY <1>8
  <2>2. q = [parser EXCEPT !.header_state = h,
               !.index = IF CountsIndex(parser.header_state) THEN @ + 1 ELSE @]
    BY DEF i, hs
  <2> HIDE DEF q, named, value, i
  <2> QED
    BY <2>1, <2>2 DEF HeaderField, h, hs, value
<1> HIDE DEF q
<1>11. CASE Fail(parser, <<>>, "UNEXPECTED_CONTENT_LENGTH")
  BY <1>1, <1>11, FailHere, WrongNames
<1>12. CASE Inner(named, FALSE)
  <2>1. /\ named.state = q.state /\ named.http_errno = q.http_errno
        /\ named.nread = q.nread /\ named.flags = fs
        /\ named.type = q.type /\ named.header_state = h /\ named.index = i
        /\ named.content_length = q.content_length
        /\ named.http_major = q.http_major
        /\ named.http_minor = q.http_minor
        /\ named.status_code = q.status_code
    BY <1>7, <1>8, SMT DEF Parsers
  <2>2. parser.flags \subseteq fs /\ "F_CONTENTLENGTH" \in fs
    OBVIOUS
  <2> HIDE DEF named, fs
  <2>3. ParserInv(named)
    BY <1>1, <1>4, <1>6, <1>7, <1>8, <2>1, <2>2, HeaderInv DEF s_now
  <2> QED
    BY <1>1, <1>2, <1>8, <1>9, <1>12, <2>1, <2>3, LoopHolds DEF s_now
<1>13. CASE ~(h = "h_content_length" /\ hs # h) /\ Inner(q, FALSE)
  <2>1. h = "h_content_length" => "F_CONTENTLENGTH" \in q.flags
    BY <1>1, <1>8, <1>13, HeaderFacts DEF hs
  <2>2. ParserInv(q)
    BY <1>1, <1>4, <1>6, <1>7, <1>8, <2>1, HeaderInv DEF s_now
  <2> QED
    BY <1>1, <1>2, <1>8, <1>9, <1>13, <2>2, LoopHolds DEF s_now
<1>14. CASE Fail(Counted, <<>>, "HEADER_OVERFLOW")
  BY <1>1, <1>14, LoopFails, WrongNames
<1>15. CASE Break(value, Unmark("header_field"), Data("header_field", marks))
  BY <1>1, <1>15, TextsOf, FieldMarks, EndOfLoop DEF HeaderStates
<1>16. CASE Fail(Counted, <<>>, "INVALID_HEADER_TOKEN")
  BY <1>1, <1>16, LoopFails, WrongNames
<1> QED
  BY <1>10, <1>11, <1>12, <1>13, <1>14, <1>15, <1>16

\* A mark is set on one text.
LEMMA MarkFits ==
    ASSUME NEW s, NEW t \in Texts, MarksOf(s, marks)
    PROVE  MARK(t) \in [Texts -> Nat \cup {NoMark}]
  BY SMT DEF MarksOf, MARK


\* The first byte of a value, where the header's name decides how it is read.
LEMMA StartOfValueHolds ==
    ASSUME Pass, s_now \in {"s_header_value_discard_ws", "s_header_value_start"},
           StartOfValue
    PROVE  Holds
<1> DEFINE q == [parser EXCEPT !.state = "s_header_value", !.index = 0]
           fs == parser.flags \cup {"F_UPGRADE"}
           upgrade == [q EXCEPT !.header_state = "h_general", !.flags = fs]
           d == Digit[byte]
           length == [q EXCEPT !.content_length = d]
           Starting == {"h_general", "h_matching_transfer_encoding_chunked",
                        "h_matching_connection_keep_alive",
                        "h_matching_connection_close",
                        "h_matching_connection_upgrade",
                        "h_matching_connection_token",
                        "h_matching_connection_token_start"}
<1>1. s_now \in HeaderStates /\ s_now # "s_header_field_start" /\ s_now \in Silent
        /\ s_now \notin {"s_header_value", "s_chunk_size", "s_header_field"}
  BY SilentNames, SMT DEF HeaderStates
<1>2. parser \in Parsers /\ parser.http_errno = "OK"
  BY <1>1, HeaderFacts
<1>3. q \in Parsers
  <2>1. q = [[parser EXCEPT !.state = "s_header_value"] EXCEPT !.index = 0]
    OBVIOUS
  <2>2. "s_header_value" \in States /\ 0 \in 0..127
    BY HeaderNames
  <2> HIDE DEF q
  <2> QED
    BY <1>2, <2>1, <2>2, Updates
<1>4. /\ q.state = "s_header_value" /\ q.http_errno = parser.http_errno
      /\ q.nread = parser.nread /\ q.flags = parser.flags
      /\ q.type = parser.type /\ q.header_state = parser.header_state
      /\ q.index = 0
      /\ q.content_length = parser.content_length
      /\ q.http_major = parser.http_major
      /\ q.http_minor = parser.http_minor
      /\ q.status_code = parser.status_code
  BY <1>2, SMT DEF Parsers
<1>5. 0 <= 98
  BY SMT
<1>6. \A h \in Starting : h \in ValueStates /\ h # "h_content_length"
  BY FieldMatchNames DEF ValueStates
<1>7. "h_content_length" \in ValueStates
  BY DEF ValueStates
<1>8. \/ \E h \in Starting : Break([q EXCEPT !.header_state = h], MARK("header_value"), <<>>)
      \/ Break(upgrade, MARK("header_value"), <<>>)
      \/ /\ parser.header_state = "h_content_length" /\ IsNum(byte)
         /\ Break(length, MARK("header_value"), <<>>)
      \/ /\ parser.header_state = "h_content_length"
         /\ Fail(q, <<>>, "INVALID_CONTENT_LENGTH")
  <2>1. upgrade = [q EXCEPT !.header_state = "h_general",
                            !.flags = @ \cup {"F_UPGRADE"}]
    BY <1>4
  <2> HIDE DEF upgrade, length
  <2>2. q = [parser EXCEPT !.state = "s_header_value", !.index = 0]
    OBVIOUS
  <2> HIDE DEF q
  <2> QED
    BY <2>1, <2>2 DEF StartOfValue, length
<1>9. s_now \notin OwingStates \cup {"s_header_field", "s_header_value"}
  BY <1>1, HeaderFacts
<1>10. /\ MarksOf("s_header_value", MARK("header_value"))
       /\ "s_header_value" \notin OwingStates \cup {"s_chunk_size_start"}
  <2>1. "header_value" \in Texts \ {"body"}
    BY DEF Texts
  <2> QED
    BY <1>1, <2>1, PassFacts, SilentFacts, TextsOf, MarksBegin DEF OwingStates
<1>11. \A r : Exact(r)
  BY <1>1, ExactElsewhere
<1> HIDE DEF q
<1>12. ASSUME NEW h \in Starting,
              Break([q EXCEPT !.header_state = h], MARK("header_value"), <<>>)
       PROVE  Holds
  <2> DEFINE r == [q EXCEPT !.header_state = h]
  <2>1. r \in Parsers
    BY <1>3, <1>6, Updates
  <2>2. /\ r.state = q.state /\ r.http_errno = q.http_errno
        /\ r.nread = q.nread /\ r.flags = q.flags
        /\ r.type = q.type /\ r.header_state = h /\ r.index = 0
        /\ r.content_length = q.content_length
        /\ r.http_major = q.http_major
        /\ r.http_minor = q.http_minor
        /\ r.status_code = q.status_code
    BY <1>3, <1>4, SMT DEF Parsers
  <2> HIDE DEF r, Starting
  <2>3. ParserInv(r)
    BY <1>1, <1>4, <1>5, <1>6, <2>1, <2>2, HeaderNames, HeaderInv
  <2> QED
    BY <1>2, <1>4, <1>9, <1>10, <1>11, <1>12, <2>2, <2>3, HeardNothing, TextBreak DEF r
<1>13. CASE Break(upgrade, MARK("header_value"), <<>>)
  <2>1. upgrade \in Parsers
    <3>1. upgrade = [[q EXCEPT !.header_state = "h_general"] EXCEPT !.flags = fs]
      OBVIOUS
    <3>2. fs \in SUBSET Flags
      <4>1. parser.flags \in SUBSET Flags
        BY <1>2, SMT DEF Parsers
      <4> QED
        BY <4>1 DEF Flags
    <3>3. "h_general" \in NameStates \cup ValueStates
      BY DEF ValueStates
    <3> HIDE DEF upgrade, fs
    <3> QED
      BY <1>3, <3>1, <3>2, <3>3, Updates
  <2>2. /\ upgrade.state = q.state /\ upgrade.http_errno = q.http_errno
        /\ upgrade.nread = q.nread /\ upgrade.flags = fs
        /\ upgrade.type = q.type /\ upgrade.header_state = "h_general"
        /\ upgrade.index = 0
        /\ upgrade.content_length = q.content_length
        /\ upgrade.http_major = q.http_major
        /\ upgrade.http_minor = q.http_minor
        /\ upgrade.status_code = q.status_code
    BY <1>3, <1>4, SMT DEF Parsers
  <2>3. parser.flags \subseteq fs /\ "h_general" \in ValueStates
    BY DEF ValueStates
  <2> HIDE DEF upgrade, fs
  <2>4. ParserInv(upgrade)
    BY <1>1, <1>4, <1>5, <2>1, <2>2, <2>3, HeaderNames, HeaderInv
  <2> QED
    BY <1>2, <1>4, <1>9, <1>10, <1>11, <1>13, <2>2, <2>4, HeardNothing, TextBreak
<1>14. CASE /\ parser.header_state = "h_content_length" /\ IsNum(byte)
            /\ Break(length, MARK("header_value"), <<>>)
  <2>1. d \in 0..ULLONG_MAX
    <3>1. d \in 0..9
      BY <1>14, DigitInRange
    <3> HIDE DEF d
    <3> QED
      BY <3>1, MaxIsNat, SMT
  <2> HIDE DEF d
  <2>2. length \in Parsers
    BY <1>3, <2>1, Updates
  <2>3. /\ length.state = q.state /\ length.http_errno = q.http_errno
        /\ length.nread = q.nread /\ length.flags = q.flags
        /\ length.type = q.type /\ length.header_state = q.header_state
        /\ length.index = 0
        /\ length.http_major = q.http_major
        /\ length.http_minor = q.http_minor
        /\ length.status_code = q.status_code
    BY <1>3, <1>4, SMT DEF Parsers
  <2> HIDE DEF length
  <2>4. "F_CONTENTLENGTH" \in parser.flags
    BY <1>1, <1>14, HeaderFacts
  <2>5. ParserInv(length)
    BY <1>1, <1>4, <1>5, <1>7, <1>14, <2>2, <2>3, <2>4, HeaderNames, FieldMatchNames, HeaderInv
  <2> QED
    BY <1>2, <1>4, <1>9, <1>10, <1>11, <1>14, <2>3, <2>5, HeardNothing, TextBreak
<1>15. CASE /\ parser.header_state = "h_content_length"
            /\ Fail(q, <<>>, "INVALID_CONTENT_LENGTH")
  <2>1. "F_CONTENTLENGTH" \in parser.flags
    BY <1>1, <1>15, HeaderFacts
  <2>2. ParserInv(q)
    BY <1>1, <1>3, <1>4, <1>5, <1>7, <1>15, <2>1, HeaderNames, FieldMatchNames, HeaderInv
  <2> QED
    BY <1>4, <1>9, <1>10, <1>11, <1>15, <2>2, HeardNothing, WrongNames, PlainFail
<1> QED
  BY <1>8, <1>12, <1>13, <1>14, <1>15

\* From one state of a header line to another.
LEMMA HeaderGoto ==
    ASSUME Pass, s_now \in HeaderStates \ {"s_header_field", "s_header_value",
                                           "s_header_field_start"},
           NEW s \in HeaderStates \ {"s_header_field", "s_header_value"}
    PROVE  /\ ParserInv(Goto(s)) /\ Goto(s).state = s /\ s \in Silent
           /\ Goto(s).http_errno = "OK" /\ Goto(s).nread = parser.nread
           /\ s_now \in Silent /\ Exact(Goto(s))
           /\ PARSING_HEADER(s_now) /\ PARSING_HEADER(s)
<1>1. s \in Silent /\ s_now \in Silent
  BY SilentNames
<1>2. s \in Heads \ Special /\ s_now \in Heads \ Special
  BY HeaderNames, SMT DEF Special, HeaderStates, ChunkSizeStates, ChunkDataStates
<1>3. s_now \notin {"s_start_req_or_res", "s_res_or_resp_H", "s_header_value",
                    "s_chunk_size"}
  BY SMT DEF HeaderStates
<1> QED
  BY <1>1, <1>2, <1>3, PassFacts, GotoInv, GotoFields, ExactElsewhere
     DEF Heads, PARSING_HEADER

\* The invariant is kept by the case ValueDiscardWs of the switch.
LEMMA ValueDiscardWsHolds == IInv /\ ValueDiscardWs => Holds
<1> SUFFICES ASSUME IInv, ValueDiscardWs PROVE Holds
  OBVIOUS
<1>1. Pass /\ s_now = "s_header_value_discard_ws"
        /\ s_now \in HeaderStates \ {"s_header_field", "s_header_value",
                                     "s_header_field_start"}
  BY DEF ValueDiscardWs, At, Pass, s_now, HeaderStates
<1>2. {"s_header_value_discard_ws_almost_done", "s_header_value_discard_lws"}
         \subseteq HeaderStates \ {"s_header_field", "s_header_value"}
  BY SMT DEF HeaderStates
<1>3. CASE Break(parser, marks, <<>>)
  BY <1>1, <1>3, <1>2, HeaderGoto, SilentStay, HeardNothing
<1>4. ASSUME NEW s \in {"s_header_value_discard_ws_almost_done",
                        "s_header_value_discard_lws"},
             Break(Goto(s), marks, <<>>)
      PROVE  Holds
  BY <1>1, <1>2, <1>4, HeaderGoto, HeardNothing, SilentBreak
<1>5. CASE StartOfValue
  BY <1>1, <1>5, StartOfValueHolds
<1> QED
  BY <1>3, <1>4, <1>5 DEF ValueDiscardWs

\* The invariant is kept by the case ValueStart of the switch.
LEMMA ValueStartHolds == IInv /\ ValueStart => Holds
<1> SUFFICES ASSUME IInv, ValueStart PROVE Holds
  OBVIOUS
<1>1. Pass /\ s_now = "s_header_value_start"
  BY DEF ValueStart, At, Pass, s_now
<1> QED
  BY <1>1, StartOfValueHolds DEF ValueStart

\* A value that matched earns flags of the parser.
LEMMA EarnedFlags == \A h : Earned(h) \in SUBSET Flags
<1>1. \A h \in DOMAIN ValueFlag : ValueFlag[h] \in Flags
  BY SMT DEF ValueFlag, Flags
<1> QED
  BY <1>1 DEF Earned

\* The flag that is earned at the end of a value.
LEMMA EarningHolds ==
    ASSUME Pass, s_now \in {"s_header_value_lws", "s_header_value_discard_lws"}
    PROVE  LET q == [Earning EXCEPT !.state = "s_header_field_start"]
           IN  /\ ParserInv(q) /\ q.state = "s_header_field_start"
               /\ q.http_errno = "OK" /\ q.nread = parser.nread /\ Exact(q)
<1> DEFINE fs == parser.flags \cup Earned(parser.header_state)
           p == [parser EXCEPT !.flags = fs]
           q == [p EXCEPT !.state = "s_header_field_start"]
<1>1. s_now \in HeaderStates
  BY DEF HeaderStates
<1>2. parser \in Parsers /\ parser.http_errno = "OK"
  BY <1>1, HeaderFacts
<1>3. fs \in SUBSET Flags
  <2>1. parser.flags \in SUBSET Flags
    BY <1>2, SMT DEF Parsers
  <2> QED
    BY <2>1, EarnedFlags
<1>4. Earning = p
  BY DEF Earning
<1>5. parser.flags \subseteq fs
  OBVIOUS
<1> HIDE DEF fs
<1>6. p \in Parsers
  BY <1>2, <1>3, Updates
<1>7. q \in Parsers
  <2> HIDE DEF p
  <2> QED
    BY <1>6, HeaderNames, Updates
<1>8. /\ q.state = "s_header_field_start" /\ q.http_errno = parser.http_errno
      /\ q.nread = parser.nread /\ q.flags = fs
      /\ q.type = parser.type
      /\ q.content_length = parser.content_length
      /\ q.http_major = parser.http_major
      /\ q.http_minor = parser.http_minor
      /\ q.status_code = parser.status_code
  BY <1>2, SMT DEF Parsers
<1>9. Exact(q)
  BY ExactElsewhere
<1>10. ParserInv(q)
  <2> HIDE DEF q
  <2> QED
    BY <1>1, <1>5, <1>7, <1>8, HeaderNames, HeaderInv
<1> QED
  BY <1>2, <1>4, <1>8, <1>9, <1>10

\* The invariant is kept by the case ValueLws of the switch.
LEMMA ValueLwsHolds == IInv /\ ValueLws => Holds
<1> SUFFICES ASSUME IInv, ValueLws PROVE Holds
  OBVIOUS
<1> DEFINE q == [Earning EXCEPT !.state = "s_header_field_start"]
<1>1. Pass /\ s_now = "s_header_value_lws"
        /\ s_now \in HeaderStates \ {"s_header_field", "s_header_value",
                                     "s_header_field_start"}
  BY DEF ValueLws, At, Pass, s_now, HeaderStates
<1>2. {"s_header_value_start", "s_header_field_start"}
         \subseteq HeaderStates \ {"s_header_field", "s_header_value"}
  BY SMT DEF HeaderStates
<1>3. CASE Reexecute(Goto("s_header_value_start"), marks, <<>>)
  BY <1>1, <1>2, <1>3, HeaderGoto, HeardNothing, SilentReexecute
<1>4. CASE Reexecute(q, marks, <<>>)
  <2>1. /\ ParserInv(q) /\ q.state = "s_header_field_start"
        /\ q.http_errno = "OK" /\ q.nread = parser.nread /\ Exact(q)
    BY <1>1, EarningHolds
  <2> HIDE DEF q
  <2> QED
    BY <1>1, <1>2, <1>4, <2>1, HeaderGoto, HeardNothing, SilentReexecute
<1> QED
  BY <1>3, <1>4 DEF ValueLws

\* The invariant is kept by the case ValueDiscardLws of the switch.
LEMMA ValueDiscardLwsHolds == IInv /\ ValueDiscardLws => Holds
<1> SUFFICES ASSUME IInv, ValueDiscardLws PROVE Holds
  OBVIOUS
<1> DEFINE q == [Earning EXCEPT !.state = "s_header_field_start"]
           c == Data("header_value", MARK("header_value"))
           m == Unmark("header_value")
<1>1. Pass /\ s_now = "s_header_value_discard_lws"
        /\ s_now \in HeaderStates \ {"s_header_field", "s_header_value",
                                     "s_header_field_start"}
  BY DEF ValueDiscardLws, At, Pass, s_now, HeaderStates
<1>2. {"s_header_value_discard_ws", "s_header_field_start"}
         \subseteq HeaderStates \ {"s_header_field", "s_header_value"}
  BY SMT DEF HeaderStates
<1>3. CASE Break(Goto("s_header_value_discard_ws"), marks, <<>>)
  BY <1>1, <1>2, <1>3, HeaderGoto, HeardNothing, SilentBreak
<1>4. CASE Reexecute(q, m, c)
  <2>1. /\ ParserInv(q) /\ q.state = "s_header_field_start"
        /\ q.http_errno = "OK" /\ q.nread = parser.nread /\ Exact(q)
    BY <1>1, EarningHolds
  <2>2. s_now \in Silent /\ "s_header_field_start" \in Silent
          /\ PARSING_HEADER(s_now)
    BY <1>1, <1>2, HeaderGoto
  <2>3. "header_value" \in Texts
    BY DEF Texts
  <2>4. MarksOf("s_header_field_start", m)
    BY <1>1, <2>2, <2>3, PassFacts, SilentFacts, MarksEnd
  <2>5. Heard(c) /\ Quiet(c)
    <3>1. MARK("header_value") \in [Texts -> Nat \cup {NoMark}]
      BY <1>1, <2>3, PassFacts, MarkFits
    <3> QED
      BY <2>3, <3>1, HeardData
  <2> HIDE DEF q, m, c
  <2>6. Owes(q, m, c)
    BY <1>1, <2>1, <2>2, <2>5, SilentFacts, PlainlyOwes
  <2>7. seen <= q.nread /\ q.nread <= HTTP_MAX_HEADER_SIZE
    BY <1>1, <2>1, <2>2, AllCounted
  <2> QED
    BY <1>1, <1>4, <2>1, <2>4, <2>5, <2>6, <2>7, ReexecuteHolds DEF Legal
<1> QED
  BY <1>3, <1>4 DEF ValueDiscardLws

\* The keywords of header values, and what a match or a miss means.
LEMMA ValueMatchTable ==
    \A h \in DOMAIN ValueMatch :
       /\ ValueMatch[h].word \in HeaderKeywords
       /\ ValueMatch[h].hit \in DOMAIN ValueFlag
       /\ ValueMatch[h].miss \in {"h_general", "h_matching_connection_token"}
<1>1. \A h \in DOMAIN ValueMatch : ValueMatch[h].word \in HeaderKeywords
  BY SMT DEF ValueMatch, HeaderKeywords
<1>2. \A h \in DOMAIN ValueMatch :
         ValueMatch[h].hit \in {"h_connection_keep_alive", "h_connection_close",
                           "h_connection_upgrade", "h_transfer_encoding_chunked"}
  BY SMT DEF ValueMatch
<1>3. \A h \in DOMAIN ValueMatch :
         ValueMatch[h].miss \in {"h_general", "h_matching_connection_token"}
  BY SMT DEF ValueMatch
<1> QED
  BY <1>1, <1>2, <1>3, FieldMatchNames

\* The next state of a value.
LEMMA ValueStep ==
    ASSUME NEW b, parser.index \in Nat, parser.header_state \in ValueStates,
           parser.header_state # "h_content_length"
    PROVE  LET h == ValueState(b)
           IN  /\ h \in ValueStates /\ h # "h_content_length"
               /\ h \in DOMAIN ValueMatch =>
                    \/ parser.header_state = "h_matching_connection_token_start"
                    \/ /\ parser.header_state \in DOMAIN ValueMatch
                       /\ parser.index + 1 <= 98
               /\ h = "h_matching_connection_token_start" =>
                    /\ parser.header_state \notin DOMAIN ValueMatch
                    /\ parser.header_state = h \/ b = ","
<1> DEFINE h == ValueState(b)
           hs == parser.header_state
           w == ValueMatch[hs].word
           hit == ValueMatch[hs].hit
           miss == ValueMatch[hs].miss
<1>1. CASE hs \in DOMAIN ValueMatch
  <2>1. h = Match(w, parser.index + 1, LOWER(b), hit, miss)
    BY <1>1, FieldMatchNames DEF ValueState
  <2>2. /\ w \in HeaderKeywords /\ parser.index + 1 \in Nat
        /\ hit \in DOMAIN ValueFlag
        /\ miss \in {"h_general", "h_matching_connection_token"}
    BY <1>1, ValueMatchTable, SMT
  <2>3. h \in {hit, miss} \/ (h = hs /\ parser.index + 1 <= 98)
    <3> HIDE DEF w, hit, miss, h, hs
    <3> QED
      BY <2>1, <2>2, MatchFacts DEF hs
  <2> HIDE DEF h, hit, miss, w
  <2> QED
    BY <1>1, <2>2, <2>3, FieldMatchNames DEF ValueStates, h
<1>2. CASE hs = "h_matching_connection_token_start"
  <2>1. h \in {"h_matching_connection_keep_alive", "h_matching_connection_close",
               "h_matching_connection_upgrade", "h_matching_connection_token",
               hs, "h_general"}
    BY <1>2, FieldMatchNames DEF ValueState
  <2> HIDE DEF h
  <2> QED
    BY <1>2, <2>1, FieldMatchNames DEF ValueStates, h
<1>3. CASE hs \notin DOMAIN ValueMatch \cup {"h_matching_connection_token_start"}
  <2>1. \/ h = "h_general"
        \/ h = "h_matching_connection_token_start" /\ b = ","
        \/ h = "h_matching_connection_token"
        \/ h = hs
    BY <1>3, FieldMatchNames DEF ValueState
  <2> HIDE DEF h
  <2> QED
    BY <1>3, <2>1, FieldMatchNames DEF ValueStates, h
<1> QED
  BY <1>1, <1>2, <1>3

\* One more digit of a length.
LEMMA DigitAdded ==
    ASSUME parser \in Parsers, NEW base \in {10, 16}, NEW d \in 0..(base - 1),
           ~Overflows(parser.content_length, base)
    PROVE  LET v == AddDigit(parser.content_length, base, d)
           IN  /\ v \in 0..ULLONG_MAX /\ v # ULLONG_MAX
               /\ v >= parser.content_length
<1> DEFINE n == parser.content_length
           v == AddDigit(n, base, d)
<1>1. n \in 0..ULLONG_MAX
  BY SMT DEF Parsers
<1> HIDE DEF n
<1>2. v = n * base + d /\ v < ULLONG_MAX /\ v >= n
  BY <1>1, AcceptedDigitsAreExact DEF n
<1>3. v \in Nat
  <2>1. CASE base = 10
    BY <1>1, <1>2, <2>1, MaxIsNat, SMT
  <2>2. CASE base = 16
    BY <1>1, <1>2, <2>2, MaxIsNat, SMT
  <2> QED
    BY <2>1, <2>2
<1> HIDE DEF v
<1>4. v \in 0..ULLONG_MAX /\ v # ULLONG_MAX
  BY <1>2, <1>3, MaxIsNat, SMT
<1> QED
  BY <1>2, <1>4 DEF n, v

\* The parser at the end of a header's value.
LEMMA EndOfValue ==
    ASSUME Pass, s_now = "s_header_value",
           LET q == [Counted EXCEPT !.state = "s_header_almost_done"]
               c == Data("header_value", marks)
           IN  \/ Fail(q, c, "HEADER_OVERFLOW")
               \/ Break(q, Unmark("header_value"), c)
               \/ Fail(q, <<>>, "HEADER_OVERFLOW")
               \/ ~TooLong(q) /\ Reexecute(q, Unmark("header_value"), c)
    PROVE  Holds
<1> DEFINE s == "s_header_almost_done"
           q == [Counted EXCEPT !.state = s]
           m == Unmark("header_value")
           c == Data("header_value", marks)
<1>1. s \in HeaderStates \ {"s_header_field", "s_header_value"}
  BY DEF HeaderStates
<1>2. /\ ParserInv(q) /\ q.state = s /\ q.http_errno = "OK" /\ Exact(q)
      /\ q.nread = Counted.nread
  BY <1>1, EndedFacts
<1>3. s \in Silent /\ s_now \notin OwingStates /\ s_now \in HeaderStates
  BY <1>1, SilentNames, HeaderNames, HeaderFacts
<1>4. "header_value" \in Texts \ {"body"} /\ TextOf(s_now) = {"header_value"}
  BY TextsOf DEF Texts
<1>5. Heard(c) /\ Quiet(c)
  BY <1>4, FieldMarks, HeardData DEF MarksOf
<1>6. MarksOf(s, m)
  BY <1>3, <1>4, FieldMarks, SilentFacts
<1>7. seen <= q.nread
  BY <1>2, CountedSeen
<1>8. CASE Break(q, m, c)
  BY <1>1, <1>4, <1>8, EndOfLoop
<1> HIDE DEF q, m, c
<1>9. CASE Fail(q, c, "HEADER_OVERFLOW")
  BY <1>2, <1>3, <1>5, <1>9, SilentFacts, WrongNames, PlainFail
<1>10. CASE Fail(q, <<>>, "HEADER_OVERFLOW")
  BY <1>2, <1>3, <1>10, HeardNothing, SilentFacts, WrongNames, PlainFail
<1>11. CASE ~TooLong(q) /\ Reexecute(q, m, c)
  <2>1. q.nread <= HTTP_MAX_HEADER_SIZE
    <3>1. q.nread \in Nat
      BY <1>2, SMT DEF ParserInv, Parsers
    <3> QED
      BY <1>11, <3>1, LimitIsNat, SMT DEF TooLong
  <2>2. Owes(q, m, c)
    BY <1>2, <1>3, <1>5, SilentFacts, PlainlyOwes
  <2> QED
    BY <1>2, <1>3, <1>5, <1>6, <1>7, <1>11, <2>1, <2>2, SilentFacts,
       ReexecuteHolds DEF Legal
<1> QED
  BY <1>8, <1>9, <1>10, <1>11 DEF q, m, c

\* The invariant is kept by the case HeaderValue of the switch.
LEMMA HeaderValueHolds == IInv /\ HeaderValue => Holds
<1> SUFFICES ASSUME IInv, HeaderValue PROVE Holds
  OBVIOUS
<1> DEFINE hs == parser.header_state
           to == ValueState(byte)
           next == byte = "," /\ to = "h_matching_connection_token_start"
           fs == IF next THEN parser.flags \cup Earned(hs) ELSE parser.flags
           i == CASE hs \in DOMAIN ValueMatch -> parser.index + 1
                  [] next -> 0
                  [] OTHER -> parser.index
           q == [parser EXCEPT !.header_state = to, !.flags = fs, !.index = i]
           v == AddDigit(parser.content_length, 10, Digit[byte])
           longer == [parser EXCEPT !.content_length = v]
           ended == [Counted EXCEPT !.state = "s_header_almost_done"]
           c == Data("header_value", marks)
           m == Unmark("header_value")
<1>1. Pass /\ s_now = "s_header_value" /\ s_now \in HeaderStates
  BY HeaderNames DEF HeaderValue, At, Pass, s_now
<1>2. ParserInv(parser) /\ parser.http_errno = "OK" /\ parser \in Parsers
        /\ parser.content_length \in Nat
  BY <1>1, PassFacts, MaxIsNat, SMT DEF ParserInv, Parsers
<1>3. /\ parser.index \in 0..127 /\ parser.index \in Nat
      /\ hs \in ValueStates
      /\ hs \in DOMAIN ValueMatch => parser.index <= 98
      /\ hs = "h_matching_connection_token_start" => parser.index = 0
  BY <1>1, <1>2, SMT DEF ParserInv, Parsers, IndexInv, s_now
<1>4. \/ Fail(ended, c, "HEADER_OVERFLOW")
      \/ Break(ended, m, c)
      \/ Fail(ended, <<>>, "HEADER_OVERFLOW")
      \/ ~TooLong(Counted) /\ Reexecute(ended, m, c)
      \/ Inner(parser, TRUE)
      \/ Inner(parser, FALSE)
      \/ Fail(parser, <<>>, "INVALID_HEADER_TOKEN")
      \/ Fail(parser, <<>>, "INVALID_CONTENT_LENGTH")
      \/ /\ hs = "h_content_length" /\ IsNum(byte)
         /\ ~Overflows(parser.content_length, 10) /\ Inner(longer, FALSE)
      \/ hs # "h_content_length" /\ Inner(q, FALSE)
  <2>1. longer = [parser EXCEPT !.content_length = AddDigit(@, 10, Digit[byte])]
    OBVIOUS
  <2>2. q = [parser EXCEPT !.header_state = to,
               !.flags = IF next THEN @ \cup Earned(hs) ELSE @,
               !.index = CASE hs \in DOMAIN ValueMatch -> @ + 1
                           [] next -> 0
                           [] OTHER -> @]
    OBVIOUS
  <2> HIDE DEF q, longer, ended, c, m, i, fs, v
  <2> QED
    BY <2>1, <2>2 DEF HeaderValue, ended, c, m
<1>5. CASE \/ Fail(ended, c, "HEADER_OVERFLOW")
           \/ Break(ended, m, c)
           \/ Fail(ended, <<>>, "HEADER_OVERFLOW")
           \/ ~TooLong(Counted) /\ Reexecute(ended, m, c)
  <2>1. ended.nread = Counted.nread
    BY <1>1, EndedFacts DEF HeaderStates
  <2>2. TooLong(ended) <=> TooLong(Counted)
    BY <2>1 DEF TooLong
  <2> QED
    BY <1>1, <1>5, <2>2, EndOfValue
<1> HIDE DEF ended, c, m
<1>6. ASSUME NEW j \in BOOLEAN, Inner(parser, j) PROVE Holds
  BY <1>1, <1>2, <1>6, ExactHere, LoopHolds DEF s_now
<1>7. ASSUME NEW e \in {"INVALID_HEADER_TOKEN", "INVALID_CONTENT_LENGTH"},
             Fail(parser, <<>>, e)
      PROVE  Holds
  BY <1>1, <1>7, FailHere, WrongNames
<1>8. CASE /\ hs = "h_content_length" /\ IsNum(byte)
           /\ ~Overflows(parser.content_length, 10) /\ Inner(longer, FALSE)
  <2>1. v \in 0..ULLONG_MAX /\ v # ULLONG_MAX /\ v >= parser.content_length
    <3> DEFINE d == Digit[byte]
    <3>1. d \in 0..(10 - 1)
      <4>1. d \in 0..9
        BY <1>8, DigitInRange
      <4> HIDE DEF d
      <4> QED
        BY <4>1, SMT
    <3> HIDE DEF d
    <3>2. v = AddDigit(parser.content_length, 10, d)
      BY DEF d
    <3> HIDE DEF v
    <3> QED
      BY <1>2, <1>8, <3>1, <3>2, DigitAdded
  <2> HIDE DEF v
  <2>2. longer \in Parsers
    BY <1>2, <2>1, Updates
  <2>3. /\ longer.state = parser.state /\ longer.http_errno = parser.http_errno
        /\ longer.nread = parser.nread /\ longer.flags = parser.flags
        /\ longer.type = parser.type /\ longer.header_state = hs
        /\ longer.index = parser.index /\ longer.content_length = v
        /\ longer.http_major = parser.http_major
        /\ longer.http_minor = parser.http_minor
        /\ longer.status_code = parser.status_code
    BY <1>2, SMT DEF Parsers
  <2> HIDE DEF longer
  <2>4. "F_CONTENTLENGTH" \in parser.flags
    BY <1>1, <1>8, HeaderFacts
  <2>5. ParserInv(longer)
    BY <1>1, <1>3, <1>8, <2>2, <2>3, <2>4, HeaderNames, HeaderInv DEF s_now
  <2>6. Exact(longer)
    BY <2>1, <2>3 DEF Exact
  <2> QED
    BY <1>1, <1>2, <1>8, <2>3, <2>5, <2>6, LoopHolds DEF s_now
<1>9. CASE hs # "h_content_length" /\ Inner(q, FALSE)
  <2>1. /\ to \in ValueStates /\ to # "h_content_length"
        /\ to \in DOMAIN ValueMatch =>
             \/ hs = "h_matching_connection_token_start"
             \/ hs \in DOMAIN ValueMatch /\ parser.index + 1 <= 98
        /\ to = "h_matching_connection_token_start" =>
             hs \notin DOMAIN ValueMatch /\ (hs = to \/ byte = ",")
    BY <1>3, <1>9, ValueStep
  <2>2. fs \in SUBSET Flags /\ parser.flags \subseteq fs
    <3>1. parser.flags \in SUBSET Flags
      BY <1>2, SMT DEF Parsers
    <3>2. Earned(hs) \in SUBSET Flags
      BY EarnedFlags
    <3> QED
      BY <3>1, <3>2
  <2> HIDE DEF to, hs, fs
  <2>3. /\ i \in 0..127
        /\ to \in DOMAIN ValueMatch => i <= 98
        /\ to = "h_matching_connection_token_start" => i = 0
    <3>1. CASE hs \in DOMAIN ValueMatch
      <4>1. i = parser.index + 1
        BY <2>1, <3>1
      <4>2. to # "h_matching_connection_token_start"
        BY <2>1, <3>1
      <4>3. to \in DOMAIN ValueMatch => parser.index + 1 <= 98
        BY <2>1, <3>1, FieldMatchNames
      <4>4. parser.index \in Nat /\ parser.index <= 98
        BY <1>3, <3>1
      <4> HIDE DEF i
      <4>5. i \in 0..127
        BY <4>1, <4>4, SMT
      <4> QED
        BY <4>1, <4>2, <4>3, <4>5
    <3>2. CASE hs \notin DOMAIN ValueMatch /\ next
      <4>1. i = 0
        BY <3>2
      <4> HIDE DEF i
      <4> QED
        BY <4>1, SMT
    <3>3. CASE hs \notin DOMAIN ValueMatch /\ ~next
      <4>1. i = parser.index
        BY <3>3
      <4>2. to = "h_matching_connection_token_start" => hs = to
        BY <2>1, <3>3
      <4>3. to \in DOMAIN ValueMatch => i = 0
        BY <1>3, <2>1, <3>3, <4>1
      <4>4. to = "h_matching_connection_token_start" => i = 0
        BY <1>3, <4>1, <4>2
      <4>5. i \in 0..127
        BY <1>3, <4>1
      <4> HIDE DEF i, next
      <4> QED
        BY <4>3, <4>4, <4>5, SMT
    <3> QED
      BY <3>1, <3>2, <3>3
  <2> HIDE DEF i
  <2>4. q \in Parsers
    <3>1. q = [[[parser EXCEPT !.header_state = to] EXCEPT !.flags = fs]
                  EXCEPT !.index = i]
      OBVIOUS
    <3>2. to \in NameStates \cup ValueStates
      BY <2>1
    <3> HIDE DEF q
    <3> QED
      BY <1>2, <2>2, <2>3, <3>1, <3>2, Updates
  <2>5. /\ q.state = parser.state /\ q.http_errno = parser.http_errno
        /\ q.nread = parser.nread /\ q.flags = fs
        /\ q.type = parser.type /\ q.header_state = to /\ q.index = i
        /\ q.content_length = parser.content_length
        /\ q.http_major = parser.http_major
        /\ q.http_minor = parser.http_minor
        /\ q.status_code = parser.status_code
    BY <1>2, SMT DEF Parsers
  <2> HIDE DEF q
  <2>6. ParserInv(q)
    BY <1>1, <2>1, <2>2, <2>3, <2>4, <2>5, HeaderNames, HeaderInv DEF s_now
  <2>7. Exact(q)
    BY <1>2, <2>5, SMT DEF Exact
  <2> QED
    BY <1>1, <1>2, <1>9, <2>5, <2>6, <2>7, LoopHolds DEF s_now
<1> QED
  BY <1>4, <1>5, <1>6, <1>7, <1>8, <1>9
-----------------------------------------------------------------------------
(* The end of the headers. *)

\* What is known beyond the first states of a start line.
LEMMA BodyFacts ==
    ASSUME Pass, s_now \notin {"s_start_req_or_res", "s_res_or_resp_H"}
    PROVE  /\ parser \in Parsers /\ parser.http_errno = "OK"
           /\ parser.type \in {"HTTP_REQUEST", "HTTP_RESPONSE"}
           /\ parser.http_major <= 999 /\ parser.http_minor <= 999
           /\ parser.status_code <= 999
           /\ parser.content_length \in Nat /\ parser.content_length <= ULLONG_MAX
           /\ FramingInv(parser) /\ CountInv(parser)
<1>1. ParserInv(parser) /\ parser.http_errno = "OK"
  BY PassFacts
<1>2. parser.content_length \in Nat /\ parser.content_length <= ULLONG_MAX
  BY <1>1, MaxIsNat, SMT DEF ParserInv, Parsers
<1>3. parser.type \in {"HTTP_REQUEST", "HTTP_RESPONSE", "HTTP_BOTH"}
  BY <1>1, SMT DEF ParserInv, Parsers
<1>4. parser.type # "HTTP_BOTH"
  BY <1>1 DEF ParserInv, FramingInv, s_now
<1> QED
  BY <1>1, <1>2, <1>3, <1>4 DEF ParserInv, IndexInv

\* A state of a body or a chunk.
LEMMA BodyInv ==
    ASSUME NEW q \in Parsers,
           q.state \in ChunkSizeStates \cup ChunkDataStates
             \cup {"s_body_identity", "s_body_identity_eof"},
           q.type # "HTTP_BOTH",
           q.http_major <= 999, q.http_minor <= 999, q.status_code <= 999,
           q.state \in ChunkSizeStates \cup ChunkDataStates =>
             "F_CHUNKED" \in q.flags /\ "F_CONTENTLENGTH" \notin q.flags,
           q.state = "s_body_identity" =>
             "F_CONTENTLENGTH" \in q.flags /\ "F_CHUNKED" \notin q.flags,
           q.state = "s_body_identity_eof" =>
             q.type = "HTTP_RESPONSE" /\ "F_CHUNKED" \notin q.flags,
           CountInv(q)
    PROVE  ParserInv(q)
<1>1. q.state \notin HeaderStates \cup {"s_req_method", "s_headers_done"}
  BY SMT DEF HeaderStates, ChunkSizeStates, ChunkDataStates
<1>2. q.state \in StartStates \cup ChunkSizeStates \cup BodyStates
  BY DEF BodyStates
<1>3. IndexInv(q)
  BY <1>1 DEF IndexInv, HeaderStates
<1>4. FramingInv(q)
  BY <1>1, <1>2 DEF FramingInv
<1> QED
  BY <1>3, <1>4 DEF ParserInv

\* The names of the states of a body.
LEMMA BodyNames ==
    /\ "s_headers_done" \in Heads
    /\ "s_message_done" \notin Special \cup Heads \cup HeaderStates
    /\ \A s \in {"s_dead", "s_start_req", "s_start_res"} :
          s \notin Special \cup Heads \cup HeaderStates \cup OwingStates
    /\ \A s \in ChunkSizeStates \cup ChunkDataStates
                  \cup {"s_body_identity", "s_body_identity_eof"} :
          s \in States \ UrlStates /\ TextOf(s) = {}
    /\ \A s \in ChunkSizeStates : s \notin OwingStates \cup BodyMarked
    /\ ~PARSING_HEADER("s_message_done")
<1>1. "s_headers_done" \in Heads
  BY StateNames, SMT DEF Heads, StartStates, ChunkSizeStates, BodyStates,
     ChunkDataStates
<1>2. "s_message_done" \notin Special \cup Heads \cup HeaderStates
  BY SMT DEF Special, Heads, BodyStates, HeaderStates, ChunkSizeStates,
     ChunkDataStates
<1>3. \A s \in {"s_dead", "s_start_req", "s_start_res"} :
          s \notin Special \cup Heads \cup HeaderStates \cup OwingStates
  BY SMT DEF Special, Heads, StartStates, HeaderStates, ChunkSizeStates,
     ChunkDataStates, OwingStates
<1>4. \A s \in ChunkSizeStates \cup ChunkDataStates
                  \cup {"s_body_identity", "s_body_identity_eof"} :
          s \in States \ UrlStates
            /\ s \notin {"s_header_field", "s_header_value", "s_res_status"}
  BY StateNames, SMT DEF UrlStates, UrlHeads, UrlTails, ChunkSizeStates,
     ChunkDataStates
<1>5. \A s \in ChunkSizeStates : s \notin OwingStates \cup BodyMarked
  BY SMT DEF ChunkSizeStates, OwingStates, BodyMarked
<1> QED
  BY <1>1, <1>2, <1>3, <1>4, <1>5, TextsOf DEF PARSING_HEADER, BodyStates

\* The invariant is kept by the case HeadersAlmostDone of the switch.
LEMMA HeadersAlmostDoneHolds == IInv /\ HeadersAlmostDone => Holds
<1> SUFFICES ASSUME IInv, HeadersAlmostDone PROVE Holds
  OBVIOUS
<1> DEFINE u == \/ {"F_UPGRADE", "F_CONNECTION_UPGRADE"} \subseteq parser.flags
                \/ parser.method = "CONNECT"
           p == Goto("s_headers_done")
           q == [p EXCEPT !.upgrade = u]
           done == Goto("s_message_done")
<1>1. Pass /\ s_now = "s_headers_almost_done"
  BY DEF HeadersAlmostDone, At, Pass, s_now
<1>2. s_now \in Silent /\ s_now \in Heads /\ PARSING_HEADER(s_now)
  BY <1>1, HeaderNames DEF Heads, PARSING_HEADER
<1>3. /\ parser \in Parsers /\ parser.http_errno = "OK"
      /\ parser.type \in {"HTTP_REQUEST", "HTTP_RESPONSE"}
      /\ parser.http_major <= 999 /\ parser.http_minor <= 999
      /\ parser.status_code <= 999 /\ FramingInv(parser)
  BY <1>1, BodyFacts
<1>4. \/ Fail(parser, <<>>, "STRICT")
      \/ Reexecute(done, marks, Notify("chunk_complete"))
      \/ Fail(parser, <<>>, "UNEXPECTED_CONTENT_LENGTH")
      \/ /\ "F_TRAILING" \notin parser.flags
         /\ ~({"F_CHUNKED", "F_CONTENTLENGTH"} \subseteq parser.flags)
         /\ Reexecute(q, marks, Notify("headers_complete"))
  <2>1. q = [parser EXCEPT !.state = "s_headers_done", !.upgrade = u]
    BY DEF Goto
  <2> HIDE DEF q, u
  <2> QED
    BY <2>1 DEF HeadersAlmostDone, u
<1> HIDE DEF u
<1>5. CASE \/ Fail(parser, <<>>, "STRICT")
           \/ Fail(parser, <<>>, "UNEXPECTED_CONTENT_LENGTH")
  BY <1>1, <1>5, FailHere, WrongNames
<1>6. CASE Reexecute(done, marks, Notify("chunk_complete"))
  <2>1. ParserInv(done)
    BY <1>1, PassFacts, BodyNames, StateNames, GotoInv
  <2>2. /\ done.state = "s_message_done" /\ done.http_errno = "OK"
        /\ done.nread = parser.nread
    BY <1>1, PassFacts, GotoFields
  <2>3. Exact(done)
    BY <1>1, ExactElsewhere
  <2> HIDE DEF done
  <2> QED
    BY <1>1, <1>2, <1>6, <2>1, <2>2, <2>3, SilentNames, BodyNames, CallbackNames,
       HeardNotify, SilentReexecute
<1>7. CASE /\ "F_TRAILING" \notin parser.flags
           /\ ~({"F_CHUNKED", "F_CONTENTLENGTH"} \subseteq parser.flags)
           /\ Reexecute(q, marks, Notify("headers_complete"))
  <2>1. p \in Parsers
    BY <1>3, StateNames, Updates DEF Goto
  <2>2. u \in BOOLEAN
    BY DEF u
  <2>3. /\ p.state = "s_headers_done" /\ p.http_errno = "OK"
        /\ p.nread = parser.nread /\ p.flags = parser.flags
        /\ p.type = parser.type
        /\ p.content_length = parser.content_length
        /\ p.http_major = parser.http_major /\ p.http_minor = parser.http_minor
        /\ p.status_code = parser.status_code
    BY <1>3, SMT DEF Parsers, Goto
  <2> HIDE DEF p
  <2>4. q \in Parsers
    BY <2>1, <2>2, Updates
  <2>5. /\ q.state = p.state /\ q.http_errno = p.http_errno
        /\ q.nread = p.nread /\ q.flags = p.flags
        /\ q.type = p.type
        /\ q.content_length = p.content_length
        /\ q.http_major = p.http_major /\ q.http_minor = p.http_minor
        /\ q.status_code = p.status_code
    BY <2>1, SMT DEF Parsers
  <2>6. Exact(q)
    BY <1>1, ExactElsewhere
  <2> HIDE DEF q
  <2>7. \/ q.content_length = ULLONG_MAX
        \/ "F_TRAILING" \in q.flags \/ "F_CONTENTLENGTH" \in q.flags
    BY <1>2, <1>3, <2>3, <2>5 DEF FramingInv, Heads, s_now
  <2>8. q.state \notin HeaderStates \cup ChunkSizeStates \cup ChunkDataStates
    BY <2>3, <2>5, SMT DEF HeaderStates, ChunkSizeStates, ChunkDataStates
  <2>9. IndexInv(q)
    BY <1>3, <2>3, <2>5 DEF IndexInv
  <2>10. FramingInv(q)
    BY <1>3, <1>7, <2>3, <2>5, <2>7, <2>8 DEF FramingInv
  <2>11. CountInv(q)
    BY <2>3, <2>5, <2>8 DEF CountInv
  <2>12. ParserInv(q)
    BY <2>4, <2>9, <2>10, <2>11 DEF ParserInv
  <2>13. seen <= HTTP_MAX_HEADER_SIZE
    BY <1>1, <1>2, AllCounted
  <2>14. Heard(Notify("headers_complete")) /\ Quiet(Notify("headers_complete"))
    BY <2>13, CallbackNames, HeardNotify
  <2> QED
    BY <1>1, <1>2, <1>7, <2>3, <2>5, <2>6, <2>12, <2>14, SilentNames,
       SilentReexecute
<1> QED
  BY <1>4, <1>5, <1>6, <1>7

\* The parser in another state, with its bytes counted anew.
LEMMA ResetFacts ==
    ASSUME parser \in Parsers, NEW s \in States
    PROVE  LET q == [[parser EXCEPT !.nread = 0] EXCEPT !.state = s]
           IN  /\ q \in Parsers /\ q.state = s /\ q.nread = 0
               /\ q.http_errno = parser.http_errno
               /\ q.flags = parser.flags /\ q.type = parser.type
               /\ q.header_state = parser.header_state
               /\ q.content_length = parser.content_length
               /\ q.http_major = parser.http_major
               /\ q.http_minor = parser.http_minor
               /\ q.status_code = parser.status_code
<1> DEFINE p == [parser EXCEPT !.nread = 0]
           q == [p EXCEPT !.state = s]
<1>1. p \in Parsers
  BY Updates
<1>2. q \in Parsers
  <2> HIDE DEF p
  <2> QED
    BY <1>1, Updates
<1>3. /\ q.state = s /\ q.nread = 0
      /\ q.http_errno = parser.http_errno
      /\ q.flags = parser.flags /\ q.type = parser.type
      /\ q.header_state = parser.header_state
      /\ q.content_length = parser.content_length
      /\ q.http_major = parser.http_major
      /\ q.http_minor = parser.http_minor
      /\ q.status_code = parser.status_code
  BY SMT DEF Parsers
<1> QED
  BY <1>2, <1>3

\* The states that NEW_MESSAGE chooses from.
NewStates == {"s_dead", "s_start_req", "s_start_res"}

\* Where the next message starts.
LEMMA NewNames ==
    /\ NEW_MESSAGE \in NewStates
    /\ \A s \in NewStates :
         /\ s \in States /\ s \in Silent
         /\ s \notin Special \cup Heads \cup HeaderStates \cup OwingStates
<1>1. NEW_MESSAGE \in NewStates
  BY DEF NEW_MESSAGE, NewStates
<1> QED
  BY <1>1, BodyNames, SilentNames DEF NewStates, StartStates, Silent

\* The parser when the message is over, as HeadersDone and MessageDone leave it.
LEMMA FinishedFacts ==
    ASSUME Pass, s_now \in {"s_headers_done", "s_message_done"}
    PROVE  \A q \in {[[parser EXCEPT !.nread = 0] EXCEPT !.state = NEW_MESSAGE],
                     Goto(NEW_MESSAGE)} :
              /\ ParserInv(q) /\ q.state \in NewStates /\ q.http_errno = "OK"
              /\ q.nread = 0 \/ q.nread = parser.nread
              /\ Exact(q)
<1> DEFINE p == [[parser EXCEPT !.nread = 0] EXCEPT !.state = NEW_MESSAGE]
           g == Goto(NEW_MESSAGE)
<1>1. /\ parser \in Parsers /\ parser.http_errno = "OK"
      /\ parser.type \in {"HTTP_REQUEST", "HTTP_RESPONSE"}
      /\ parser.http_major <= 999 /\ parser.http_minor <= 999
      /\ parser.status_code <= 999
  BY BodyFacts
<1>2. NEW_MESSAGE \in NewStates /\ NEW_MESSAGE \in States
  BY NewNames
<1>3. ParserInv(g) /\ g.state \in NewStates /\ g.http_errno = "OK"
        /\ g.nread = parser.nread
  BY <1>1, <1>2, PassFacts, NewNames, GotoInv, GotoFields
<1>4. /\ p \in Parsers /\ p.state = NEW_MESSAGE /\ p.nread = 0
      /\ p.http_errno = parser.http_errno /\ p.type = parser.type
      /\ p.http_major = parser.http_major /\ p.http_minor = parser.http_minor
      /\ p.status_code = parser.status_code
  BY <1>1, <1>2, ResetFacts
<1>5. Exact(p) /\ Exact(g)
  BY ExactElsewhere
<1> HIDE DEF p, g
<1>6. ParserInv(p)
  BY <1>1, <1>2, <1>4, NewNames, StateInv
<1> QED
  BY <1>1, <1>2, <1>3, <1>4, <1>5, <1>6 DEF p, g

\* The end of a message: NEW_MESSAGE, on_message_complete.
LEMMA CompleteHolds ==
    ASSUME Pass, s_now \in Silent, NEW q, ParserInv(q), q.state \in NewStates,
           q.http_errno = "OK", q.nread = 0 \/ q.nread = parser.nread, Exact(q),
           Complete(q, marks)
    PROVE  Holds
<1> DEFINE c == Notify("message_complete")
<1>1. q.state \in Silent /\ Heard(c) /\ Quiet(c)
  BY NewNames, Notified
<1>2. (\E r \in {"all", "short"} : Return(q, c, r)) \/ Break(q, marks, c)
  BY DEF Complete
<1> HIDE DEF c
<1>3. ASSUME NEW r \in {"all", "short"}, Return(q, c, r) PROVE Holds
  <2>1. Owes(q, NoMarks, c)
    BY <1>1, SilentFacts, PlainlyOwes
  <2>2. /\ q.nread = 0 \/ seen <= q.nread
        /\ q.state # "s_chunk_size_start"
    BY <1>1, SilentFacts, AllCounted
  <2> QED
    BY <1>1, <1>3, <2>1, <2>2, ReturnHolds DEF Pass
<1>4. CASE Break(q, marks, c)
  BY <1>1, <1>4, SilentBreak
<1> QED
  BY <1>2, <1>3, <1>4

\* The invariant is kept by the case MessageDone of the switch.
LEMMA MessageDoneHolds == IInv /\ MessageDone => Holds
<1> SUFFICES ASSUME IInv, MessageDone PROVE Holds
  OBVIOUS
<1> DEFINE q == Goto(NEW_MESSAGE)
<1>1. Pass /\ s_now = "s_message_done" /\ Complete(q, marks)
  BY DEF MessageDone, At, Pass, s_now
<1>2. s_now \in Silent
  BY <1>1, SilentNames
<1>3. ParserInv(q) /\ q.state \in NewStates /\ q.http_errno = "OK"
        /\ (q.nread = 0 \/ q.nread = parser.nread) /\ Exact(q)
  BY <1>1, FinishedFacts
<1> HIDE DEF q
<1> QED
  BY <1>1, <1>2, <1>3, CompleteHolds

\* A body begins.
LEMMA BodyBegins ==
    ASSUME Pass, s_now \in Silent, NEW q, NEW c, Break(q, marks, c),
           ParserInv(q), q.http_errno = "OK", q.nread = 0,
           q.state \in {"s_chunk_size_start", "s_body_identity",
                        "s_body_identity_eof", "s_chunk_data"},
           Heard(c), Quiet(c), Exact(q)
    PROVE  Holds
<1>1. TextOf(q.state) = {}
  BY BodyNames DEF ChunkSizeStates, ChunkDataStates
<1>2. MarksOf(q.state, Advance(marks))
  BY <1>1, SilentMarks, AdvanceFits
<1>3. Advance(marks)["body"] = NoMark
  <2>1. "body" \in Texts /\ marks["body"] = NoMark
    BY PassFacts, SilentFacts DEF MarksOf, Texts
  <2> QED
    BY <2>1 DEF Advance
<1>4. Owes(q, Advance(marks), c)
  <2>1. CASE q.state \in {"s_chunk_size_start", "s_body_identity_eof"}
    <3>1. q.state \notin OwingStates
      BY <2>1 DEF OwingStates
    <3> QED
      BY <3>1, SilentFacts, PlainlyOwes
  <2>2. CASE q.state \in {"s_body_identity", "s_chunk_data"}
    <3>1. q.state # s_now /\ q.state \in OwingStates
      BY <2>2, SilentFacts DEF OwingStates
    <3>2. OwedBy(q, c) = q.content_length
      BY <2>2, <3>1 DEF OwedBy, Quiet, s_now
    <3>3. q.content_length \in Int
      BY MaxIsNat, SMT DEF ParserInv, Parsers
    <3> QED
      BY <1>3, <3>1, <3>2, <3>3, SMT DEF Owes
  <2> QED
    BY <2>1, <2>2
<1> QED
  BY <1>2, <1>4, BreakHolds DEF Legal

\* The invariant is kept by the case HeadersDone of the switch.
LEMMA HeadersDoneHolds == IInv /\ HeadersDone => Holds
<1> SUFFICES ASSUME IInv, HeadersDone PROVE Holds
  OBVIOUS
<1> DEFINE To(s) == [[parser EXCEPT !.nread = 0] EXCEPT !.state = s]
           finished == To(NEW_MESSAGE)
           n == parser.content_length
           chunked == "F_CHUNKED" \in parser.flags
<1>1. Pass /\ s_now = "s_headers_done" /\ s_now \in Silent
  BY SilentNames DEF HeadersDone, At, Pass, s_now
<1>2. /\ parser \in Parsers /\ parser.http_errno = "OK"
      /\ parser.type \in {"HTTP_REQUEST", "HTTP_RESPONSE"}
      /\ parser.http_major <= 999 /\ parser.http_minor <= 999
      /\ parser.status_code <= 999 /\ FramingInv(parser)
  BY <1>1, BodyFacts
<1>3. /\ n = ULLONG_MAX \/ "F_CONTENTLENGTH" \in parser.flags
      /\ ~({"F_CHUNKED", "F_CONTENTLENGTH"} \subseteq parser.flags)
  BY <1>1, <1>2, BodyNames DEF FramingInv, s_now, Heads
<1>4. ParserInv(finished) /\ finished.state \in NewStates
        /\ finished.http_errno = "OK"
        /\ (finished.nread = 0 \/ finished.nread = parser.nread)
        /\ Exact(finished)
  BY <1>1, FinishedFacts
<1>5. \/ Fail(parser, <<>>, "STRICT")
      \/ Complete(finished, marks)
      \/ chunked /\ Break(To("s_chunk_size_start"), marks, <<>>)
      \/ Break(finished, marks, Notify("message_complete"))
      \/ ~chunked /\ n \notin {0, ULLONG_MAX}
           /\ Break(To("s_body_identity"), marks, <<>>)
      \/ ~chunked /\ MessageNeedsEof
           /\ Break(To("s_body_identity_eof"), marks, <<>>)
  <2> HIDE DEF chunked, n
  <2> QED
    BY DEF HeadersDone, chunked, n
<1> HIDE DEF finished
<1>6. CASE Fail(parser, <<>>, "STRICT")
  BY <1>1, <1>6, FailHere, WrongNames
<1>7. CASE Complete(finished, marks)
  BY <1>1, <1>4, <1>7, CompleteHolds
<1>8. CASE Break(finished, marks, Notify("message_complete"))
  BY <1>1, <1>4, <1>8, NewNames, Notified, SilentBreak
<1>9. ASSUME NEW s \in {"s_chunk_size_start", "s_body_identity",
                        "s_body_identity_eof"},
             s = "s_chunk_size_start" => chunked,
             s = "s_body_identity" => ~chunked /\ n \notin {0, ULLONG_MAX},
             s = "s_body_identity_eof" => ~chunked /\ MessageNeedsEof,
             Break(To(s), marks, <<>>)
      PROVE  Holds
  <2> DEFINE q == To(s)
  <2>1. s \in ChunkSizeStates \cup {"s_body_identity", "s_body_identity_eof"}
    BY DEF ChunkSizeStates
  <2>2. /\ q \in Parsers /\ q.state = s /\ q.nread = 0
        /\ q.http_errno = parser.http_errno
        /\ q.flags = parser.flags /\ q.type = parser.type
        /\ q.content_length = n
        /\ q.http_major = parser.http_major /\ q.http_minor = parser.http_minor
        /\ q.status_code = parser.status_code
    BY <1>2, <2>1, BodyNames, ResetFacts
  <2>3. Exact(q)
    BY <1>1, ExactElsewhere
  <2> HIDE DEF q, To
  <2>4. CountInv(q)
    BY <1>9, <2>2 DEF CountInv, ChunkSizeStates
  <2>5. s \in ChunkSizeStates \cup ChunkDataStates => s = "s_chunk_size_start"
    BY SMT DEF ChunkSizeStates, ChunkDataStates
  <2>6. s = "s_body_identity_eof" => parser.type = "HTTP_RESPONSE"
    BY <1>2, <1>9 DEF MessageNeedsEof
  <2>7. ParserInv(q)
    BY <1>2, <1>3, <1>9, <2>1, <2>2, <2>4, <2>5, <2>6, BodyInv
  <2> QED
    BY <1>1, <1>2, <1>9, <2>2, <2>3, <2>7, HeardNothing, BodyBegins DEF q
<1> QED
  BY <1>5, <1>6, <1>7, <1>8, <1>9
-----------------------------------------------------------------------------
(* Bodies. *)

\* One more byte of the body under its mark.
LEMMA BodyMark ==
    ASSUME Pass, s_now \in BodyMarked
    PROVE  LET mk == Advance(MARK("body"))
               n == IF marks["body"] = NoMark THEN 0 ELSE marks["body"]
           IN  /\ n \in Nat /\ mk["body"] = n + 1 /\ mk["body"] # NoMark
               /\ MARK("body") \in [Texts -> Nat \cup {NoMark}]
               /\ mk \in [Texts -> Nat \cup {NoMark}]
               /\ \A s \in BodyMarked : MarksOf(s, mk)
<1> DEFINE mk == Advance(MARK("body"))
<1>1. marks \in [Texts -> Nat \cup {NoMark}] /\ "body" \in Texts
        /\ MarksOf(s_now, marks)
  BY PassFacts DEF MarksOf, Texts
<1>2. MARK("body") \in [Texts -> Nat \cup {NoMark}]
  BY <1>1, MarkFits
<1>3. \A s \in BodyMarked : TextOf(s) = {}
  BY BodyNames DEF BodyMarked, OwingStates, ChunkDataStates
<1>4. \A t \in Texts \ {"body"} : marks[t] = NoMark
  BY <1>1, <1>3 DEF MarksOf
<1>5. MARK("body")["body"] = (IF marks["body"] = NoMark THEN 0 ELSE marks["body"])
  BY <1>1, SMT DEF MARK
<1>6. \A t \in Texts \ {"body"} : MARK("body")[t] = NoMark
  BY <1>1, <1>4, SMT DEF MARK
<1>7. mk \in [Texts -> Nat \cup {NoMark}]
  BY <1>2, SMT DEF Advance, NoMark
<1>8. /\ marks["body"] \in Nat \cup {NoMark}
      /\ mk["body"] = IF MARK("body")["body"] = NoMark THEN NoMark
                        ELSE MARK("body")["body"] + 1
  BY <1>1 DEF Advance
<1>9. \A t \in Texts \ {"body"} : mk[t] = NoMark
  BY <1>6 DEF Advance
<1> DEFINE n == IF marks["body"] = NoMark THEN 0 ELSE marks["body"]
<1>10. n \in Nat /\ mk["body"] = n + 1 /\ mk["body"] # NoMark
  <2> DEFINE a == marks["body"]
             b == mk["body"]
  <2>1. a \in Nat \cup {NoMark}
          /\ (b = IF n = NoMark THEN NoMark ELSE n + 1)
    BY <1>5, <1>8
  <2> HIDE DEF a, b
  <2>2. n = IF a = NoMark THEN 0 ELSE a
    BY DEF a
  <2> HIDE DEF n
  <2>3. n \in Nat /\ b = n + 1 /\ b # NoMark
    BY <2>1, <2>2, SMT DEF NoMark
  <2> QED
    BY <2>3 DEF b
<1> HIDE DEF mk, n
<1>11. \A s \in BodyMarked : MarksOf(s, mk)
  BY <1>3, <1>7, <1>9 DEF MarksOf
<1> QED
  BY <1>2, <1>7, <1>10, <1>11 DEF mk, n

\* What is left of the body.
LEMMA OwedNow ==
    ASSUME Pass, s_now \in OwingStates
    PROVE  owed = parser.content_length
                    + (IF marks["body"] = NoMark THEN 0 ELSE marks["body"])
  BY PassFacts DEF Pass, IInv, OwedInv

\* The invariant is kept by the case BodyIdentityEof of the switch.
LEMMA BodyIdentityEofHolds == IInv /\ BodyIdentityEof => Holds
<1> SUFFICES ASSUME IInv, BodyIdentityEof PROVE Holds
  OBVIOUS
<1>1. Pass /\ s_now = "s_body_identity_eof" /\ Break(parser, MARK("body"), <<>>)
  BY DEF BodyIdentityEof, At, Pass, s_now
<1>2. s_now \in BodyMarked /\ s_now \notin OwingStates
  BY <1>1 DEF BodyMarked, OwingStates
<1>3. MarksOf(s_now, Advance(MARK("body")))
  BY <1>1, <1>2, BodyMark
<1>4. Owes(parser, Advance(MARK("body")), <<>>)
  BY <1>1, <1>2, HeardNothing, PlainlyOwes DEF s_now
<1>5. seen <= parser.nread
  BY <1>1, AllCounted
<1> QED
  BY <1>1, <1>3, <1>4, <1>5, PassFacts, HeardNothing, ExactHere, BreakHolds
     DEF Legal, s_now

\* A byte of a body whose length is known.
LEMMA ByteOfBody ==
    ASSUME Pass, s_now \in {"s_body_identity", "s_chunk_data"}
    PROVE  LET q == [parser EXCEPT !.content_length = @ - 1]
           IN  /\ q \in Parsers /\ q.state = s_now /\ q.http_errno = "OK"
               /\ q.content_length = parser.content_length - 1
               /\ q.content_length \in Nat /\ q.content_length # ULLONG_MAX
               /\ q.nread = parser.nread
               /\ q.flags = parser.flags /\ q.type = parser.type
               /\ q.http_major = parser.http_major
               /\ q.http_minor = parser.http_minor
               /\ q.status_code = parser.status_code
<1> DEFINE n == parser.content_length
           v == n - 1
           q == [parser EXCEPT !.content_length = v]
<1>1. /\ parser \in Parsers /\ parser.http_errno = "OK"
      /\ n \in Nat /\ n <= ULLONG_MAX /\ CountInv(parser)
  BY BodyFacts
<1>2. n # 0 /\ n # ULLONG_MAX
  BY <1>1 DEF CountInv, s_now
<1> HIDE DEF n
<1>3. v \in 0..ULLONG_MAX /\ v \in Nat /\ v # ULLONG_MAX
  BY <1>1, <1>2, MaxIsNat, SMT
<1> HIDE DEF v
<1>4. q \in Parsers
  BY <1>1, <1>3, Updates
<1>5. /\ q.state = parser.state /\ q.http_errno = parser.http_errno
      /\ q.content_length = v /\ q.nread = parser.nread
      /\ q.flags = parser.flags /\ q.type = parser.type
      /\ q.http_major = parser.http_major
      /\ q.http_minor = parser.http_minor
      /\ q.status_code = parser.status_code
  BY <1>1, SMT DEF Parsers
<1>6. q = [parser EXCEPT !.content_length = @ - 1]
  BY DEF v, n
<1> HIDE DEF q
<1> QED
  BY <1>1, <1>3, <1>4, <1>5, <1>6 DEF v, n, s_now

\* The invariant is kept by the case BodyIdentity of the switch.
LEMMA BodyIdentityHolds == IInv /\ BodyIdentity => Holds
<1> SUFFICES ASSUME IInv, BodyIdentity PROVE Holds
  OBVIOUS
<1> DEFINE q == [parser EXCEPT !.content_length = @ - 1]
           done == [q EXCEPT !.state = "s_message_done"]
           mk == Advance(MARK("body"))
           n == IF marks["body"] = NoMark THEN 0 ELSE marks["body"]
           c == Data("body", mk)
<1>1. Pass /\ s_now = "s_body_identity"
  BY DEF BodyIdentity, At, Pass, s_now
<1>2. /\ parser.type \in {"HTTP_REQUEST", "HTTP_RESPONSE"}
      /\ parser.http_major <= 999 /\ parser.http_minor <= 999
      /\ parser.status_code <= 999 /\ FramingInv(parser)
      /\ parser.content_length \in Nat
  BY <1>1, BodyFacts
<1>3. /\ q \in Parsers /\ q.state = s_now /\ q.http_errno = "OK"
      /\ q.content_length = parser.content_length - 1
      /\ q.content_length \in Nat /\ q.content_length # ULLONG_MAX
      /\ q.nread = parser.nread
      /\ q.flags = parser.flags /\ q.type = parser.type
      /\ q.http_major = parser.http_major
      /\ q.http_minor = parser.http_minor
      /\ q.status_code = parser.status_code
  BY <1>1, ByteOfBody
<1>4. s_now \in BodyMarked /\ s_now \in OwingStates
  BY <1>1 DEF BodyMarked, OwingStates
<1>5. /\ n \in Nat /\ mk["body"] = n + 1 /\ mk["body"] # NoMark
      /\ mk \in [Texts -> Nat \cup {NoMark}] /\ MarksOf(s_now, mk)
  BY <1>1, <1>4, BodyMark
<1>6. owed = parser.content_length + n
  BY <1>1, <1>4, OwedNow
<1>7. seen <= parser.nread
  BY <1>1, AllCounted
<1>8. \/ q.content_length = 0 /\ Reexecute(done, Unmark("body"), c)
      \/ q.content_length # 0 /\ Break(q, MARK("body"), <<>>)
  <2> HIDE DEF c, mk
  <2> QED
    BY DEF BodyIdentity, c, mk
<1> HIDE DEF q
<1>9. CASE q.content_length # 0 /\ Break(q, MARK("body"), <<>>)
  <2>1. CountInv(q)
    BY <1>1, <1>3, <1>9 DEF CountInv, ChunkSizeStates
  <2>2. q.state = "s_body_identity" /\ q.state \notin ChunkSizeStates \cup ChunkDataStates
    BY <1>1, <1>3, SMT DEF ChunkSizeStates, ChunkDataStates
  <2>3. ParserInv(q)
    BY <1>1, <1>2, <1>3, <2>1, <2>2, BodyInv DEF FramingInv, s_now
  <2>4. Exact(q)
    BY <1>1, ExactElsewhere
  <2>5. OwedBy(q, <<>>) = owed
    BY <1>3 DEF OwedBy, s_now
  <2>6. Owes(q, mk, <<>>)
    <3> DEFINE a == parser.content_length
               b == q.content_length
               e == mk["body"]
    <3>1. a \in Nat /\ b = a - 1 /\ e = n + 1 /\ n \in Nat /\ owed = a + n
      BY <1>2, <1>3, <1>5, <1>6
    <3> HIDE DEF a, b, e, n
    <3>2. owed \in Int /\ owed = b + e
      BY <3>1, SMT
    <3> QED
      BY <1>3, <1>4, <1>5, <2>5, <3>2 DEF Owes, b, e
  <2> HIDE DEF n
  <2> QED
    BY <1>1, <1>3, <1>5, <1>7, <1>9, <2>2, <2>3, <2>4, <2>6, HeardNothing,
       BreakHolds DEF Legal
<1>10. CASE q.content_length = 0 /\ Reexecute(done, Unmark("body"), c)
  <2>1. done \in Parsers
    BY <1>3, StateNames, Updates
  <2>2. /\ done.state = "s_message_done" /\ done.http_errno = q.http_errno
        /\ done.nread = q.nread /\ done.type = q.type
        /\ done.http_major = q.http_major /\ done.http_minor = q.http_minor
        /\ done.status_code = q.status_code
    BY <1>3, SMT DEF Parsers
  <2>3. Exact(done)
    BY <1>1, ExactElsewhere
  <2> HIDE DEF done
  <2>4. ParserInv(done)
    BY <1>2, <1>3, <2>1, <2>2, BodyNames, StateInv
  <2>5. "s_message_done" \in Silent
    BY SilentNames
  <2>6. MarksOf("s_message_done", Unmark("body"))
    <3>1. "body" \in Texts
      BY DEF Texts
    <3>2. TextOf(s_now) = {} /\ TextOf("s_message_done") = {}
      BY <1>1, <2>5, BodyNames, SilentFacts
    <3> QED
      BY <1>1, <3>1, <3>2, PassFacts, MarksEnd
  <2>7. Heard(c)
    BY <1>5, HeardData DEF Texts
  <2>8. c # <<>> /\ c[1].on = "body" /\ c[1].len = n + 1
    <3> DEFINE x == [on |-> "body", len |-> mk["body"]]
    <3>1. x.on = "body" /\ x.len = n + 1
      BY <1>5
    <3>2. c = <<x>>
      BY <1>5 DEF Data
    <3> HIDE DEF x, c
    <3>3. c # <<>> /\ c[1] = x
      BY <3>2, SMT
    <3> QED
      BY <3>1, <3>3
  <2>9. OwedBy(done, c) = 0
    <3>1. OwedBy(done, c) = owed - (n + 1)
      <4> HIDE DEF c, n
      <4> QED
        BY <1>1, <2>2, <2>8 DEF OwedBy, s_now
    <3> DEFINE a == parser.content_length
    <3>2. a \in Nat /\ a - 1 = 0 /\ owed = a + n
      BY <1>2, <1>3, <1>6, <1>10
    <3> HIDE DEF a, n
    <3> QED
      BY <1>5, <3>1, <3>2, SMT DEF n
  <2> HIDE DEF c
  <2>10. Owes(done, Unmark("body"), c)
    BY <2>2, <2>5, <2>9, SilentFacts, SMT DEF Owes
  <2> QED
    BY <1>1, <1>3, <1>7, <1>10, <2>2, <2>3, <2>4, <2>6, <2>7, <2>10, BodyNames,
       ReexecuteHolds DEF Legal
<1> QED
  BY <1>8, <1>9, <1>10
-----------------------------------------------------------------------------
(* Chunks. *)

\* The states of a chunk, by name.
LEMMA ChunkNames ==
    /\ {"s_chunk_size", "s_chunk_parameters", "s_chunk_size_almost_done"}
         \subseteq (Silent \cap ChunkSizeStates) \ {"s_chunk_size_start"}
    /\ "s_chunk_size_start" \in ChunkSizeStates
    /\ \A s \in ChunkDataStates : s \notin ChunkSizeStates
    /\ {"s_chunk_data", "s_chunk_data_almost_done", "s_chunk_data_done"}
         \subseteq ChunkDataStates
    /\ \A s \in ChunkSizeStates \cup ChunkDataStates :
         s \notin {"s_body_identity", "s_body_identity_eof", "s_start_req_or_res",
                   "s_res_or_resp_H"}
  BY SilentNames, SMT DEF ChunkSizeStates, ChunkDataStates

\* From one state of a chunk to another, with the flags of the message.
LEMMA ChunkInv ==
    ASSUME Pass, s_now \in ChunkSizeStates \cup ChunkDataStates, NEW q \in Parsers,
           q.state \in ChunkSizeStates \cup ChunkDataStates,
           q.type = parser.type, q.flags = parser.flags,
           q.http_major = parser.http_major, q.http_minor = parser.http_minor,
           q.status_code = parser.status_code,
           CountInv(q)
    PROVE  ParserInv(q)
<1>1. /\ parser.type \in {"HTTP_REQUEST", "HTTP_RESPONSE"}
      /\ parser.http_major <= 999 /\ parser.http_minor <= 999
      /\ parser.status_code <= 999 /\ FramingInv(parser)
  BY ChunkNames, BodyFacts
<1>2. "F_CHUNKED" \in parser.flags /\ "F_CONTENTLENGTH" \notin parser.flags
  BY <1>1 DEF FramingInv, s_now
<1> QED
  BY <1>1, <1>2, ChunkNames, BodyInv

\* A case that moves on within a chunk.
LEMMA ChunkGoto ==
    ASSUME Pass, s_now \in ChunkSizeStates \cup ChunkDataStates,
           NEW s \in ChunkSizeStates \cup ChunkDataStates,
           s # "s_chunk_data",
           s \in ChunkSizeStates \ {"s_chunk_size_start"}
             => s_now \in ChunkSizeStates \ {"s_chunk_size_start"},
           s # "s_chunk_data_almost_done"
    PROVE  /\ ParserInv(Goto(s)) /\ Goto(s).state = s /\ Goto(s).http_errno = "OK"
           /\ Goto(s).nread = parser.nread
           /\ Goto(s).content_length = parser.content_length
<1> DEFINE q == Goto(s)
<1>1. parser \in Parsers /\ parser.http_errno = "OK" /\ CountInv(parser)
  BY ChunkNames, BodyFacts
<1>2. q \in Parsers
  BY <1>1, BodyNames, Updates DEF Goto
<1>3. /\ q.state = s /\ q.http_errno = parser.http_errno
      /\ q.nread = parser.nread /\ q.flags = parser.flags
      /\ q.type = parser.type
      /\ q.content_length = parser.content_length
      /\ q.http_major = parser.http_major
      /\ q.http_minor = parser.http_minor
      /\ q.status_code = parser.status_code
  BY <1>1, SMT DEF Parsers, Goto
<1> HIDE DEF q
<1>4. CountInv(q)
  BY <1>1, <1>3, ChunkNames DEF CountInv, s_now
<1>5. ParserInv(q)
  BY <1>2, <1>3, <1>4, ChunkInv
<1> QED
  BY <1>1, <1>3, <1>5 DEF q

\* The invariant is kept by the case ChunkSizeStart of the switch.
LEMMA ChunkSizeStartHolds == IInv /\ ChunkSizeStart => Holds
<1> SUFFICES ASSUME IInv, ChunkSizeStart PROVE Holds
  OBVIOUS
<1> DEFINE v == Unhex(byte)
           p == [parser EXCEPT !.content_length = v]
           q == [p EXCEPT !.state = "s_chunk_size"]
<1>1. Pass /\ s_now = "s_chunk_size_start" /\ s_now \in ChunkSizeStates
  BY ChunkNames DEF ChunkSizeStart, At, Pass, s_now
<1>2. parser \in Parsers /\ parser.http_errno = "OK"
  BY <1>1, BodyFacts
<1>3. \/ IsHex(byte) /\ Break(q, marks, <<>>)
      \/ Fail(parser, <<>>, "INVALID_CHUNK_SIZE")
  <2>1. q = [parser EXCEPT !.content_length = v, !.state = "s_chunk_size"]
    OBVIOUS
  <2> HIDE DEF q
  <2> QED
    BY <2>1 DEF ChunkSizeStart
<1>4. CASE IsHex(byte) /\ Break(q, marks, <<>>)
  <2>1. v \in 0..ULLONG_MAX /\ v # ULLONG_MAX
    <3>1. v \in 0..15
      BY <1>4, UnhexInRange
    <3> HIDE DEF v
    <3> QED
      BY <3>1, MaxIsNat, SMT
  <2> HIDE DEF v
  <2>2. p \in Parsers
    BY <1>2, <2>1, Updates
  <2>3. q \in Parsers
    <3> HIDE DEF p
    <3> QED
      BY <2>2, ChunkNames, BodyNames, Updates
  <2>4. /\ q.state = "s_chunk_size" /\ q.http_errno = parser.http_errno
        /\ q.nread = parser.nread /\ q.flags = parser.flags
        /\ q.type = parser.type /\ q.content_length = v
        /\ q.http_major = parser.http_major
        /\ q.http_minor = parser.http_minor
        /\ q.status_code = parser.status_code
    BY <1>2, SMT DEF Parsers
  <2>5. Exact(q)
    BY <1>1, ExactElsewhere
  <2> HIDE DEF q, p
  <2>6. CountInv(q)
    BY <2>1, <2>4 DEF CountInv
  <2>7. ParserInv(q)
    BY <1>1, <2>3, <2>4, <2>6, ChunkNames, ChunkInv
  <2>8. MarksOf("s_chunk_size", marks)
    BY <1>1, PassFacts, BodyNames, ChunkNames, MarksStay
  <2>9. /\ s_now \notin OwingStates \cup {"s_header_field", "s_header_value"}
        /\ "s_chunk_size" \notin OwingStates \cup {"s_chunk_size_start"}
    BY <1>1, BodyNames, ChunkNames
  <2> QED
    BY <1>1, <1>2, <1>4, <2>4, <2>5, <2>7, <2>8, <2>9, HeardNothing, TextBreak
<1>5. CASE Fail(parser, <<>>, "INVALID_CHUNK_SIZE")
  BY <1>1, <1>5, FailHere, WrongNames
<1> QED
  BY <1>3, <1>4, <1>5

\* The invariant is kept by the case ChunkSize of the switch.
LEMMA ChunkSizeHolds == IInv /\ ChunkSize => Holds
<1> SUFFICES ASSUME IInv, ChunkSize PROVE Holds
  OBVIOUS
<1> DEFINE d == Unhex(byte)
           v == AddDigit(parser.content_length, 16, d)
           q == [parser EXCEPT !.content_length = v]
<1>1. Pass /\ s_now = "s_chunk_size" /\ s_now \in ChunkSizeStates /\ s_now \in Silent
  BY ChunkNames DEF ChunkSize, At, Pass, s_now
<1>2. parser \in Parsers /\ parser.http_errno = "OK"
  BY <1>1, BodyFacts
<1>3. \/ Break(Goto("s_chunk_size_almost_done"), marks, <<>>)
      \/ Break(Goto("s_chunk_parameters"), marks, <<>>)
      \/ Fail(parser, <<>>, "INVALID_CONTENT_LENGTH")
      \/ Fail(parser, <<>>, "INVALID_CHUNK_SIZE")
      \/ /\ IsHex(byte) /\ ~Overflows(parser.content_length, 16)
         /\ Break(q, marks, <<>>)
  <2>1. q = [parser EXCEPT !.content_length = AddDigit(@, 16, d)]
    OBVIOUS
  <2> HIDE DEF q, v
  <2> QED
    BY <2>1 DEF ChunkSize
<1>4. ASSUME NEW s \in {"s_chunk_size_almost_done", "s_chunk_parameters"},
             Break(Goto(s), marks, <<>>)
      PROVE  Holds
  <2>1. Exact(Goto(s))
    BY <1>1, <1>2, PassFacts, GotoFields, ExactElsewhere
  <2> QED
    BY <1>1, <1>4, <2>1, ChunkNames, ChunkGoto, HeardNothing, SilentBreak
<1>5. ASSUME NEW e \in {"INVALID_CONTENT_LENGTH", "INVALID_CHUNK_SIZE"},
             Fail(parser, <<>>, e)
      PROVE  Holds
  BY <1>1, <1>5, FailHere, WrongNames
<1>6. CASE /\ IsHex(byte) /\ ~Overflows(parser.content_length, 16)
           /\ Break(q, marks, <<>>)
  <2>1. v \in 0..ULLONG_MAX /\ v # ULLONG_MAX /\ v >= parser.content_length
    <3>1. d \in 0..(16 - 1)
      <4>1. d \in 0..15
        BY <1>6, UnhexInRange
      <4> HIDE DEF d
      <4> QED
        BY <4>1, SMT
    <3> HIDE DEF d
    <3> QED
      BY <1>2, <1>6, <3>1, DigitAdded
  <2> HIDE DEF v
  <2>2. q \in Parsers
    BY <1>2, <2>1, Updates
  <2>3. /\ q.state = s_now /\ q.http_errno = parser.http_errno
        /\ q.nread = parser.nread /\ q.flags = parser.flags
        /\ q.type = parser.type /\ q.content_length = v
        /\ q.http_major = parser.http_major
        /\ q.http_minor = parser.http_minor
        /\ q.status_code = parser.status_code
    BY <1>2, SMT DEF Parsers, s_now
  <2> HIDE DEF q
  <2>4. Exact(q)
    BY <2>1, <2>3 DEF Exact
  <2>5. CountInv(q)
    BY <1>1, <2>1, <2>3 DEF CountInv
  <2>6. ParserInv(q)
    BY <1>1, <2>2, <2>3, <2>5, ChunkInv
  <2> QED
    BY <1>1, <1>2, <1>6, <2>3, <2>4, <2>6, HeardNothing, SilentBreak
<1> QED
  BY <1>3, <1>4, <1>5, <1>6

\* The invariant is kept by the case ChunkParameters of the switch.
LEMMA ChunkParametersHolds == IInv /\ ChunkParameters => Holds
<1> SUFFICES ASSUME IInv, ChunkParameters PROVE Holds
  OBVIOUS
<1> DEFINE q == Goto("s_chunk_size_almost_done")
<1>1. Pass /\ s_now = "s_chunk_parameters"
        /\ s_now \in ChunkSizeStates \ {"s_chunk_size_start"} /\ s_now \in Silent
  BY ChunkNames DEF ChunkParameters, At, Pass, s_now
<1>2. Break(q, marks, <<>>) \/ Break(parser, marks, <<>>)
  BY DEF ChunkParameters
<1>3. CASE Break(q, marks, <<>>)
  <2>1. Exact(q)
    BY <1>1, ExactElsewhere
  <2> QED
    BY <1>1, <1>3, <2>1, ChunkNames, ChunkGoto, HeardNothing, SilentBreak
<1>4. CASE Break(parser, marks, <<>>)
  BY <1>1, <1>4, SilentStay, HeardNothing
<1> QED
  BY <1>2, <1>3, <1>4

\* The chunk of size zero: a trailer follows, in the states of the headers.
LEMMA TrailerHolds ==
    ASSUME Pass, s_now = "s_chunk_size_almost_done",
           Break([[[parser EXCEPT !.nread = 0] EXCEPT !.state = "s_header_field_start"]
                    EXCEPT !.flags = @ \cup {"F_TRAILING"}],
                 marks, Notify("chunk_header"))
    PROVE  Holds
<1> DEFINE p == [[parser EXCEPT !.nread = 0] EXCEPT !.state = "s_header_field_start"]
           fs == parser.flags \cup {"F_TRAILING"}
           q == [p EXCEPT !.flags = fs]
<1>1. /\ parser \in Parsers /\ parser.http_errno = "OK"
      /\ parser.type \in {"HTTP_REQUEST", "HTTP_RESPONSE"}
      /\ parser.http_major <= 999 /\ parser.http_minor <= 999
      /\ parser.status_code <= 999
  BY BodyFacts
<1>2. /\ p \in Parsers /\ p.state = "s_header_field_start" /\ p.nread = 0
      /\ p.http_errno = parser.http_errno
      /\ p.flags = parser.flags /\ p.type = parser.type
      /\ p.http_major = parser.http_major
      /\ p.http_minor = parser.http_minor
      /\ p.status_code = parser.status_code
  BY <1>1, HeaderNames, ResetFacts
<1>3. fs \in SUBSET Flags
  <2>1. parser.flags \in SUBSET Flags
    BY <1>1, SMT DEF Parsers
  <2> QED
    BY <2>1 DEF Flags
<1>4. [p EXCEPT !.flags = @ \cup {"F_TRAILING"}] = q
  BY <1>2
<1>5. "F_TRAILING" \in fs
  OBVIOUS
<1>6. Break(q, marks, Notify("chunk_header"))
  BY <1>4
<1> HIDE DEF p, fs
<1>7. /\ q.state = p.state /\ q.http_errno = p.http_errno
      /\ q.nread = p.nread /\ q.flags = fs /\ q.type = p.type
      /\ q.http_major = p.http_major
      /\ q.http_minor = p.http_minor
      /\ q.status_code = p.status_code
  BY <1>2, SMT DEF Parsers
<1>8. q \in Parsers
  BY <1>2, <1>3, Updates
<1>9. Exact(q)
  BY ExactElsewhere
<1> HIDE DEF q
<1>10. ParserInv(q)
  BY <1>1, <1>2, <1>5, <1>7, <1>8, StartOfHeaders, StateInv
<1> QED
  BY <1>1, <1>2, <1>6, <1>7, <1>9, <1>10, ChunkNames, StartOfHeaders, Notified,
     SilentBreak

\* The invariant is kept by the case ChunkSizeAlmostDone of the switch.
LEMMA ChunkSizeAlmostDoneHolds == IInv /\ ChunkSizeAlmostDone => Holds
<1> SUFFICES ASSUME IInv, ChunkSizeAlmostDone PROVE Holds
  OBVIOUS
<1> DEFINE p == [[parser EXCEPT !.nread = 0] EXCEPT !.state = "s_header_field_start"]
           trailer == [p EXCEPT !.flags = @ \cup {"F_TRAILING"}]
           q == [[parser EXCEPT !.nread = 0] EXCEPT !.state = "s_chunk_data"]
           c == Notify("chunk_header")
<1>1. Pass /\ s_now = "s_chunk_size_almost_done" /\ s_now \in Silent
        /\ s_now \in ChunkSizeStates
  BY ChunkNames DEF ChunkSizeAlmostDone, At, Pass, s_now
<1>2. /\ parser \in Parsers /\ parser.http_errno = "OK" /\ CountInv(parser)
  BY <1>1, BodyFacts
<1>3. \/ Fail(parser, <<>>, "STRICT")
      \/ Break(trailer, marks, c)
      \/ parser.content_length # 0 /\ Break(q, marks, c)
  <2>1. trailer = [[parser EXCEPT !.nread = 0]
                     EXCEPT !.flags = @ \cup {"F_TRAILING"},
                            !.state = "s_header_field_start"]
    OBVIOUS
  <2> HIDE DEF trailer
  <2> QED
    BY <2>1 DEF ChunkSizeAlmostDone
<1>4. CASE Fail(parser, <<>>, "STRICT")
  BY <1>1, <1>4, FailHere, WrongNames
<1>5. CASE Break(trailer, marks, c)
  BY <1>1, <1>5, TrailerHolds
<1>6. CASE parser.content_length # 0 /\ Break(q, marks, c)
  <2>1. /\ q \in Parsers /\ q.state = "s_chunk_data" /\ q.nread = 0
        /\ q.http_errno = parser.http_errno
        /\ q.flags = parser.flags /\ q.type = parser.type
        /\ q.content_length = parser.content_length
        /\ q.http_major = parser.http_major
        /\ q.http_minor = parser.http_minor
        /\ q.status_code = parser.status_code
    BY <1>2, ChunkNames, BodyNames, ResetFacts
  <2>2. Exact(q)
    BY <1>1, ExactElsewhere
  <2>3. parser.content_length # ULLONG_MAX
    BY <1>1, <1>2 DEF CountInv, s_now
  <2> HIDE DEF q
  <2>4. CountInv(q)
    BY <1>6, <2>1, <2>3 DEF CountInv
  <2>5. ParserInv(q)
    BY <1>1, <2>1, <2>4, ChunkNames, ChunkInv
  <2> QED
    BY <1>1, <1>2, <1>6, <2>1, <2>2, <2>5, Notified, BodyBegins
<1> QED
  BY <1>3, <1>4, <1>5, <1>6

\* A byte of a chunk.
LEMMA ByteOfChunkHolds ==
    ASSUME Pass, s_now = "s_chunk_data",
           Break([[parser EXCEPT !.content_length = @ - 1]
                    EXCEPT !.state = IF parser.content_length = 1
                                       THEN "s_chunk_data_almost_done" ELSE @],
                 MARK("body"), <<>>)
    PROVE  Holds
<1> DEFINE p == [parser EXCEPT !.content_length = @ - 1]
           s == IF parser.content_length = 1
                  THEN "s_chunk_data_almost_done" ELSE "s_chunk_data"
           q == [p EXCEPT !.state = s]
           mk == Advance(MARK("body"))
           n == IF marks["body"] = NoMark THEN 0 ELSE marks["body"]
<1>1. parser.content_length \in Nat
  BY ChunkNames, BodyFacts
<1>2. /\ p \in Parsers /\ p.state = s_now /\ p.http_errno = "OK"
      /\ p.content_length = parser.content_length - 1
      /\ p.content_length \in Nat /\ p.content_length # ULLONG_MAX
      /\ p.nread = parser.nread
      /\ p.flags = parser.flags /\ p.type = parser.type
      /\ p.http_major = parser.http_major
      /\ p.http_minor = parser.http_minor
      /\ p.status_code = parser.status_code
  BY ByteOfBody
<1>3. Break(q, MARK("body"), <<>>)
  <2>1. q = [p EXCEPT !.state = IF parser.content_length = 1
                                  THEN "s_chunk_data_almost_done" ELSE @]
    BY <1>2
  <2> HIDE DEF q
  <2> QED
    BY <2>1
<1>4. s_now \in BodyMarked /\ s_now \in OwingStates /\ s \in BodyMarked
        /\ s \in OwingStates /\ s \in ChunkDataStates /\ s \in States
  BY ChunkNames, BodyNames DEF BodyMarked, OwingStates
<1>5. /\ n \in Nat /\ mk["body"] = n + 1 /\ mk["body"] # NoMark
      /\ mk \in [Texts -> Nat \cup {NoMark}] /\ MarksOf(s, mk)
  BY <1>4, BodyMark
<1>6. owed = parser.content_length + n
  BY <1>4, OwedNow
<1>7. seen <= parser.nread
  BY AllCounted
<1>8. p.content_length = 0 <=> s = "s_chunk_data_almost_done"
  <2> DEFINE a == parser.content_length
             b == p.content_length
  <2>1. a \in Nat /\ b = a - 1
    BY <1>1, <1>2
  <2> HIDE DEF a, b
  <2>2. b = 0 <=> a = 1
    BY <2>1, SMT
  <2> QED
    BY <2>2 DEF a, b
<1>9. s \in {"s_chunk_data", "s_chunk_data_almost_done"}
  OBVIOUS
<1> HIDE DEF p, s
<1>10. q \in Parsers
  BY <1>2, <1>4, Updates
<1>11. /\ q.state = s /\ q.http_errno = p.http_errno
       /\ q.nread = p.nread /\ q.flags = p.flags
       /\ q.type = p.type /\ q.content_length = p.content_length
       /\ q.http_major = p.http_major
       /\ q.http_minor = p.http_minor
       /\ q.status_code = p.status_code
  BY <1>2, SMT DEF Parsers
<1>12. Exact(q)
  BY ExactElsewhere
<1> HIDE DEF q
<1>13. CountInv(q)
  BY <1>2, <1>4, <1>8, <1>9, <1>11, ChunkNames DEF CountInv
<1>14. ParserInv(q)
  BY <1>2, <1>4, <1>10, <1>11, <1>13, ChunkNames, ChunkInv
<1>15. OwedBy(q, <<>>) = owed
  BY <1>9, <1>11 DEF OwedBy, s_now
<1>16. Owes(q, mk, <<>>)
  <2> DEFINE a == parser.content_length
             b == q.content_length
             e == mk["body"]
  <2>1. a \in Nat /\ b = a - 1 /\ e = n + 1 /\ n \in Nat /\ owed = a + n
    BY <1>1, <1>2, <1>5, <1>6, <1>11
  <2> HIDE DEF a, b, e, n
  <2>2. owed \in Int /\ owed = b + e
    BY <2>1, SMT
  <2> QED
    BY <1>4, <1>5, <1>11, <1>15, <2>2 DEF Owes, b, e
<1>17. s # "s_chunk_size_start"
  BY <1>9
<1> QED
  BY <1>2, <1>3, <1>5, <1>7, <1>11, <1>12, <1>14, <1>16, <1>17, HeardNothing,
     BreakHolds DEF Legal

\* The end of a chunk, whose bytes are handed over.
LEMMA EndOfChunkHolds ==
    ASSUME Pass, s_now = "s_chunk_data_almost_done",
           Break(Goto("s_chunk_data_done"), Unmark("body"), Data("body", marks))
    PROVE  Holds
<1> DEFINE q == Goto("s_chunk_data_done")
           n == IF marks["body"] = NoMark THEN 0 ELSE marks["body"]
           c == Data("body", marks)
           m == Advance(Unmark("body"))
<1>1. CountInv(parser) /\ s_now \in ChunkDataStates /\ s_now \in OwingStates
        /\ s_now \in BodyMarked
  BY ChunkNames, BodyFacts DEF OwingStates, BodyMarked
<1>2. /\ ParserInv(q) /\ q.state = "s_chunk_data_done" /\ q.http_errno = "OK"
      /\ q.nread = parser.nread
  BY <1>1, ChunkNames, ChunkGoto
<1>3. Exact(q)
  BY ExactElsewhere
<1>4. "s_chunk_data_done" \in Silent /\ "body" \in Texts
  BY SilentNames DEF Texts
<1>5. MarksOf("s_chunk_data_done", m)
  <2>1. TextOf(s_now) = {} /\ TextOf("s_chunk_data_done") = {}
    BY <1>1, <1>4, BodyNames, SilentFacts
  <2> QED
    BY <1>4, <2>1, PassFacts, MarksEnd, AdvanceFits
<1>6. Heard(c)
  BY <1>4, PassFacts, HeardData DEF MarksOf
<1>7. owed = n
  <2>1. owed = 0 + n
    BY <1>1, OwedNow DEF CountInv, s_now
  <2>2. n \in Nat
    BY <1>4, PassFacts, SMT DEF MarksOf, NoMark
  <2> HIDE DEF n
  <2> QED
    BY <2>1, <2>2, SMT
<1>8. OwedBy(q, c) = 0
  <2>1. CASE marks["body"] = NoMark
    <3>1. c = <<>> /\ owed = 0
      BY <1>7, <2>1 DEF Data
    <3> HIDE DEF c, q
    <3> QED
      BY <1>2, <3>1 DEF OwedBy
  <2>2. CASE marks["body"] # NoMark
    <3> DEFINE x == [on |-> "body", len |-> n]
    <3>1. x.on = "body" /\ x.len = n
      OBVIOUS
    <3>2. c = <<x>>
      BY <2>2 DEF Data
    <3> HIDE DEF x, c
    <3>3. c # <<>> /\ c[1] = x
      BY <3>2, SMT
    <3>4. n \in Nat
      BY <1>4, PassFacts, SMT DEF MarksOf, NoMark
    <3> HIDE DEF n, q
    <3>5. OwedBy(q, c) = owed - n
      BY <1>2, <3>1, <3>3 DEF OwedBy, s_now
    <3> QED
      BY <1>7, <3>4, <3>5, SMT
  <2> QED
    BY <2>1, <2>2
<1> HIDE DEF q, c, m
<1>9. Owes(q, m, c)
  BY <1>2, <1>4, <1>8, SilentFacts, SMT DEF Owes
<1>10. seen <= parser.nread
  BY AllCounted
<1> QED
  BY <1>2, <1>3, <1>4, <1>5, <1>6, <1>9, <1>10, SilentFacts, BreakHolds
     DEF Legal, q, c, m

\* The invariant is kept by the case ChunkData of the switch.
LEMMA ChunkDataHolds == IInv /\ ChunkData => Holds
<1> SUFFICES ASSUME IInv, ChunkData PROVE Holds
  OBVIOUS
<1> DEFINE q == [[parser EXCEPT !.nread = 0] EXCEPT !.state = "s_chunk_size_start"]
           more == [[parser EXCEPT !.content_length = @ - 1]
                      EXCEPT !.state = IF parser.content_length = 1
                                         THEN "s_chunk_data_almost_done" ELSE @]
           c == Notify("chunk_complete")
<1>1. \/ At("s_chunk_data") /\ Break(more, MARK("body"), <<>>)
      \/ /\ At("s_chunk_data_almost_done") \/ At("s_chunk_data_done")
         /\ Fail(parser, <<>>, "STRICT")
      \/ /\ At("s_chunk_data_almost_done")
         /\ Break(Goto("s_chunk_data_done"), Unmark("body"), Data("body", marks))
      \/ At("s_chunk_data_done") /\ Break(q, marks, c)
  <2>1. more = [parser EXCEPT !.content_length = @ - 1,
                   !.state = IF parser.content_length = 1
                               THEN "s_chunk_data_almost_done" ELSE @]
    OBVIOUS
  <2>2. q = [parser EXCEPT !.nread = 0, !.state = "s_chunk_size_start"]
    OBVIOUS
  <2> HIDE DEF more, q
  <2> QED
    BY <2>1, <2>2 DEF ChunkData
<1>2. ASSUME NEW s, At(s) PROVE Pass /\ s_now = s
  BY <1>2 DEF At, Pass, s_now
<1>3. CASE At("s_chunk_data") /\ Break(more, MARK("body"), <<>>)
  BY <1>2, <1>3, ByteOfChunkHolds
<1>4. CASE /\ At("s_chunk_data_almost_done") \/ At("s_chunk_data_done")
           /\ Fail(parser, <<>>, "STRICT")
  BY <1>2, <1>4, FailHere, WrongNames
<1>5. CASE /\ At("s_chunk_data_almost_done")
           /\ Break(Goto("s_chunk_data_done"), Unmark("body"), Data("body", marks))
  BY <1>2, <1>5, EndOfChunkHolds
<1>6. CASE At("s_chunk_data_done") /\ Break(q, marks, c)
  <2>1. Pass /\ s_now = "s_chunk_data_done" /\ s_now \in Silent
          /\ s_now \in ChunkDataStates
    BY <1>2, <1>6, SilentNames, ChunkNames
  <2>2. parser \in Parsers /\ parser.http_errno = "OK"
    BY <2>1, BodyFacts
  <2>3. /\ q \in Parsers /\ q.state = "s_chunk_size_start" /\ q.nread = 0
        /\ q.http_errno = parser.http_errno
        /\ q.flags = parser.flags /\ q.type = parser.type
        /\ q.http_major = parser.http_major
        /\ q.http_minor = parser.http_minor
        /\ q.status_code = parser.status_code
    BY <2>2, ChunkNames, BodyNames, ResetFacts
  <2>4. Exact(q)
    BY <2>1, ExactElsewhere
  <2> HIDE DEF q
  <2>5. CountInv(q)
    BY <2>3 DEF CountInv
  <2>6. ParserInv(q)
    BY <2>1, <2>3, <2>5, ChunkNames, ChunkInv
  <2> QED
    BY <1>6, <2>1, <2>2, <2>3, <2>4, <2>6, Notified, BodyBegins
<1> QED
  BY <1>1, <1>3, <1>4, <1>5, <1>6
-----------------------------------------------------------------------------
(* The call as a whole. *)

\* A step of the caller keeps the length exact.
LEMMA ExactStays == ASSUME IInv PROVE Exact(parser)
<1>1. parser.content_length \in Nat
  BY MaxIsNat, SMT DEF IInv, ParserInv, Parsers
<1> QED
  BY <1>1, SMT DEF Exact

\* No text state is a state of a body.
LEMMA TextOrBody ==
    \A s : /\ "body" \notin TextOf(s)
           /\ TextOf(s) = {} \/ \E t \in Texts : TextOf(s) = {t}
           /\ s \in BodyMarked => TextOf(s) = {}
<1>1. \A s \in BodyMarked : TextOf(s) = {}
  BY BodyNames DEF BodyMarked, OwingStates, ChunkDataStates
<1> QED
  BY <1>1 DEF TextOf, Texts

\* More bytes are counted.
LEMMA NreadFacts ==
    ASSUME IInv, NEW v \in Nat
    PROVE  LET q == [parser EXCEPT !.nread = v]
           IN  /\ ParserInv(q) /\ q.state = s_now /\ q.nread = v
               /\ q.http_errno = parser.http_errno
               /\ q.content_length = parser.content_length
<1> DEFINE q == [parser EXCEPT !.nread = v]
<1>1. ParserInv(parser) /\ parser \in Parsers
  BY DEF IInv, ParserInv
<1>2. q \in Parsers
  BY <1>1, Updates
<1>3. /\ q.state = s_now /\ q.http_errno = parser.http_errno
      /\ q.nread = v
      /\ q.content_length = parser.content_length
      /\ q.flags = parser.flags /\ q.type = parser.type
      /\ q.header_state = parser.header_state
      /\ q.index = parser.index /\ q.method = parser.method
      /\ q.http_major = parser.http_major
      /\ q.http_minor = parser.http_minor
      /\ q.status_code = parser.status_code
  BY <1>1, SMT DEF Parsers, s_now
<1> HIDE DEF q
<1>4. IndexInv(q)
  BY <1>1, <1>3 DEF ParserInv, IndexInv, s_now
<1>5. FramingInv(q)
  BY <1>1, <1>3 DEF ParserInv, FramingInv, s_now
<1>6. CountInv(q)
  BY <1>1, <1>3 DEF ParserInv, CountInv, s_now
<1> QED
  BY <1>2, <1>3, <1>4, <1>5, <1>6 DEF ParserInv, q

\* A step that calls no callback.
LEMMA NothingCalled ==
    ASSUME cb' = <<>>
    PROVE  cb' \in Seq([on : Callbacks, len : Nat]) /\ HeadersAreLimited'
  BY SMT DEF HeadersAreLimited

\* A call of http_parser_execute begins.
LEMMA BeginCallHolds == IInv /\ BeginCall => Holds
<1> SUFFICES ASSUME IInv, BeginCall PROVE Holds
  OBVIOUS
<1>1. /\ call = "idle" /\ cb' = <<>> /\ parser' = parser /\ byte' = byte
      /\ rest' = rest /\ run' = run /\ jumped' = jumped /\ seen' = seen
      /\ owed' = owed
  BY DEF BeginCall
<1>2. /\ TypeOK /\ ParserInv(parser) /\ CallInv /\ NreadInv /\ OwedInv
  BY DEF IInv
<1>3. byte = NoByte /\ run = 0 /\ marks = NoMarks
  BY <1>1, <1>2 DEF CallInv
<1>4. cb' \in Seq([on : Callbacks, len : Nat]) /\ HeadersAreLimited'
  BY <1>1, NothingCalled
<1>5. Exact(parser')
  BY <1>1, ExactStays
<1>6. CASE /\ parser.http_errno # "OK" /\ ret' = "short"
           /\ call' = call /\ marks' = marks
  <2>1. TypeOK'
    BY <1>1, <1>2, <1>4, <1>6 DEF TypeOK
  <2>2. CallInv' /\ NreadInv' /\ OwedInv'
    BY <1>1, <1>2, <1>6 DEF CallInv, NreadInv, OwedInv, s_now
  <2> QED
    BY <1>1, <1>2, <1>4, <1>5, <2>1, <2>2 DEF Holds, IInv
<1>7. CASE /\ parser.http_errno = "OK" /\ call' = "begun" /\ ret' = ret
           /\ marks' = [t \in Texts |-> IF t \in TextOf(parser.state)
                                          THEN 0 ELSE NoMark]
  <2>1. marks' \in [Texts -> Nat \cup {NoMark}]
    <3>1. 0 \in Nat \cup {NoMark} /\ NoMark \in Nat \cup {NoMark}
      BY SMT
    <3> QED
      BY <1>7, <3>1
  <2>2. \A t \in Texts : marks'[t] # NoMark <=> t \in TextOf(s_now)
    <3>1. 0 # NoMark
      BY SMT DEF NoMark
    <3> QED
      BY <1>7, <3>1 DEF s_now
  <2>3. marks'["body"] = NoMark /\ marks["body"] = NoMark
    BY <1>3, <2>2, TextOrBody DEF NoMarks, Texts
  <2>4. TypeOK'
    BY <1>1, <1>2, <1>4, <1>7, <2>1 DEF TypeOK
  <2>5. CallInv'
    BY <1>1, <1>3, <1>7, <2>2, <2>3 DEF CallInv, s_now
  <2>6. NreadInv'
    BY <1>1, <1>2 DEF NreadInv, s_now
  <2>7. OwedInv'
    BY <1>1, <1>2, <2>3 DEF OwedInv, s_now
  <2> QED
    BY <1>1, <1>2, <1>4, <1>5, <2>4, <2>5, <2>6, <2>7 DEF Holds, IInv
<1> QED
  BY <1>6, <1>7 DEF BeginCall

\* The call with no bytes that ends the stream.
LEMMA ExecuteEofHolds == IInv /\ ExecuteEof => Holds
<1> SUFFICES ASSUME IInv, ExecuteEof PROVE Holds
  OBVIOUS
<1> DEFINE e == [parser EXCEPT !.http_errno = "INVALID_EOF_STATE"]
<1>1. /\ call = "idle" /\ call' = "ended" /\ byte' = byte /\ marks' = marks
      /\ rest' = rest /\ run' = run /\ jumped' = jumped /\ seen' = seen
      /\ owed' = owed
  BY DEF ExecuteEof
<1>2. /\ TypeOK /\ ParserInv(parser) /\ CallInv /\ NreadInv /\ OwedInv
  BY DEF IInv
<1>3. byte = NoByte /\ run = 0 /\ marks = NoMarks
  BY <1>1, <1>2 DEF CallInv
<1>4. cb' = <<>> \/ cb' = Notify("message_complete")
  BY DEF ExecuteEof
<1>5. cb' \in Seq([on : Callbacks, len : Nat]) /\ HeadersAreLimited'
  <2>1. Heard(<<>>) /\ Heard(Notify("message_complete"))
    BY HeardNothing, Notified
  <2> QED
    BY <1>1, <1>4, <2>1 DEF Heard, HeadersAreLimited
<1>6. ret' \in {"all", "short"}
  BY DEF ExecuteEof
<1>7. parser' = parser \/ parser' = e
  BY DEF ExecuteEof
<1>8. /\ e.state = parser.state /\ e.http_errno = "INVALID_EOF_STATE"
      /\ e.content_length = parser.content_length /\ e.nread = parser.nread
  BY <1>2, SMT DEF ParserInv, Parsers
<1>9. ParserInv(e)
  BY <1>2, WrongNames, ErrorInv
<1> HIDE DEF e
<1>10. ParserInv(parser') /\ parser' \in Parsers
  BY <1>2, <1>7, <1>9 DEF ParserInv
<1>11. Exact(parser')
  BY <1>7, <1>8, ExactStays DEF Exact
<1>12. TypeOK'
  BY <1>1, <1>2, <1>5, <1>6, <1>10 DEF TypeOK
<1>13. CallInv'
  BY <1>1, <1>3 DEF CallInv
<1>14. NreadInv' /\ OwedInv'
  <2>1. CASE parser' = parser
    BY <1>1, <1>2, <2>1 DEF NreadInv, OwedInv, s_now
  <2>2. CASE parser' = e
    <3>1. parser'.http_errno # "OK" /\ parser'.state = parser.state
      BY <1>8, <2>2
    <3> QED
      BY <1>1, <1>2, <1>3, <3>1 DEF NreadInv, OwedInv, s_now
  <2> QED
    BY <1>7, <2>1, <2>2
<1> QED
  BY <1>5, <1>10, <1>11, <1>12, <1>13, <1>14 DEF Holds, IInv

\* The loop takes the next byte.
LEMMA NextByteHolds == IInv /\ NextByte => Holds
<1> SUFFICES ASSUME IInv, NextByte PROVE Holds
  OBVIOUS
<1> DEFINE counts == PARSING_HEADER(parser.state)
           v == parser.nread + 1
           q == IF counts /\ run = 0 THEN [parser EXCEPT !.nread = v] ELSE parser
<1>1. call \in {"begun", "running"} /\ byte = NoByte
  BY DEF NextByte
<1>2. /\ TypeOK /\ ParserInv(parser) /\ CallInv /\ NreadInv /\ OwedInv
      /\ seen \in Nat /\ run \in Nat /\ ret \in {"all", "short"}
      /\ jumped \in BOOLEAN /\ owed \in Int
      /\ marks \in [Texts -> Nat \cup {NoMark}]
  BY DEF IInv, TypeOK
<1>3. parser.http_errno = "OK"
  BY <1>1, <1>2 DEF CallInv
<1>4. parser.nread \in Nat /\ v \in Nat
  BY <1>2, SMT DEF ParserInv, Parsers
<1>5. PICK l \in IF rest = <<>> THEN Lexemes ELSE {rest} :
         IF TooLong(q) /\ q # parser
           THEN Fail(q, <<>>, "HEADER_OVERFLOW")
           ELSE /\ parser' = q
                /\ call' = "running"
                /\ byte' = Head(l)
                /\ rest' = Tail(l)
                /\ seen' = IF counts THEN seen + 1 ELSE seen
                /\ cb' = <<>>
                /\ UNCHANGED <<ret, run, jumped, marks, owed>>
  <2>1. q = IF counts /\ run = 0 THEN [parser EXCEPT !.nread = @ + 1] ELSE parser
    OBVIOUS
  <2> HIDE DEF q
  <2> QED
    BY <2>1 DEF NextByte
<1>6. /\ ParserInv(q) /\ q.state = s_now /\ q.http_errno = "OK"
      /\ q.content_length = parser.content_length
      /\ q.nread = IF counts /\ run = 0 THEN v ELSE parser.nread
  <2> HIDE DEF v, counts
  <2> QED
    BY <1>2, <1>3, <1>4, NreadFacts DEF s_now
<1> HIDE DEF q
<1>7. Exact(q)
  BY <1>6, ExactStays DEF Exact, s_now
<1>8. CASE TooLong(q) /\ q # parser
  <2>1. Fail(q, <<>>, "HEADER_OVERFLOW")
    BY <1>5, <1>8
  <2>2. OwedBy(q, <<>>) = owed
    BY <1>6 DEF OwedBy, s_now
  <2>3. s_now \notin OwingStates => owed = 0
    BY <1>2 DEF OwedInv
  <2> QED
    BY <1>2, <1>6, <1>7, <2>1, <2>2, <2>3, HeardNothing, WrongNames, FailHolds
<1>9. CASE ~(TooLong(q) /\ q # parser)
  <2>1. /\ parser' = q /\ call' = "running" /\ byte' = Head(l) /\ rest' = Tail(l)
        /\ seen' = (IF counts THEN seen + 1 ELSE seen) /\ cb' = <<>>
        /\ ret' = ret /\ run' = run /\ jumped' = jumped /\ marks' = marks
        /\ owed' = owed
    BY <1>5, <1>9
  <2>2. byte' \in Bytes /\ rest' \in Seq(Bytes)
    <3>1. l \in Seq(Bytes) /\ l # <<>>
      BY <1>2, ParserAssumption DEF ParserAssumption, TypeOK
    <3>2. Head(l) \in Bytes /\ Tail(l) \in Seq(Bytes)
      BY <3>1, SMT
    <3> QED
      BY <2>1, <3>2
  <2>3. byte' # NoByte
    BY <2>2, BytesAreNotNone
  <2>4. cb' \in Seq([on : Callbacks, len : Nat]) /\ HeadersAreLimited'
    BY <2>1, NothingCalled
  <2>5. seen' \in Nat
    BY <1>2, <2>1, SMT
  <2>6. ParserInv(parser') /\ parser' \in Parsers
    BY <1>6, <2>1 DEF ParserInv
  <2>7. TypeOK'
    BY <1>2, <2>1, <2>2, <2>4, <2>5, <2>6 DEF TypeOK
  <2>8. CallInv'
    BY <1>1, <1>2, <1>6, <2>1 DEF CallInv, s_now
  <2>9. OwedInv'
    BY <1>2, <1>3, <1>6, <2>1 DEF OwedInv, s_now
  <2>10. ~counts \/ s_now \notin {"s_header_field", "s_header_value"} => run = 0
    <3>1. \A s \in {"s_header_field", "s_header_value"} : PARSING_HEADER(s)
      BY SMT DEF PARSING_HEADER, BodyStates, ChunkDataStates
    <3>2. run > 0 => s_now \in {"s_header_field", "s_header_value"}
      BY <1>2 DEF CallInv
    <3>3. run > 0 \/ run = 0
      BY <1>2, SMT
    <3> QED
      BY <3>1, <3>2, <3>3 DEF s_now
  <2>11. /\ s_now = "s_chunk_size_start" => parser.nread = 0
         /\ seen + (IF run > 0 THEN 1 ELSE 0) <= parser.nread + run
    BY <1>1, <1>2, <1>3 DEF NreadInv
  <2>12. s_now = "s_chunk_size_start" => counts
    BY SMT DEF PARSING_HEADER, BodyStates, ChunkDataStates, s_now
  <2>13. counts /\ run = 0 => q.nread <= HTTP_MAX_HEADER_SIZE
    <3> SUFFICES ASSUME counts, run = 0 PROVE q.nread <= HTTP_MAX_HEADER_SIZE
      OBVIOUS
    <3> DEFINE n == parser.nread
    <3>1. q.nread = v /\ v = n + 1 /\ n \in Nat
      BY <1>4, <1>6
    <3> HIDE DEF n, v
    <3>2. q.nread # n
      BY <3>1, SMT
    <3>3. ~TooLong(q)
      BY <1>9, <3>2 DEF n
    <3> QED
      BY <3>1, <3>3, LimitIsNat, SMT DEF TooLong
  <2>14. NreadInv'
    <3>1. s_now = "s_chunk_size_start" => q.nread = 1
      <4>1. s_now = "s_chunk_size_start" => v = 1
        BY <2>11, SMT
      <4> QED
        BY <1>6, <2>10, <2>12, <4>1
    <3>2. seen' <= q.nread + run
      <4> DEFINE n == parser.nread
                 m == q.nread
      <4>1. m = (IF counts /\ run = 0 THEN n + 1 ELSE n) /\ n \in Nat
              /\ (seen + (IF run > 0 THEN 1 ELSE 0) <= n + run)
        BY <1>4, <1>6, <2>11
      <4>2. ~counts => run = 0
        BY <2>10
      <4> HIDE DEF n, m, counts
      <4>3. seen' <= m + run
        BY <1>2, <2>1, <4>1, <4>2, SMT
      <4> QED
        BY <4>3 DEF m
    <3>3. seen' + 0 = seen'
      <4>1. \A k \in Nat : k + 0 = k
        BY SMT
      <4> QED
        BY <2>5, <4>1
    <3> HIDE DEF v
    <3> QED
      BY <1>6, <2>1, <2>3, <2>13, <3>1, <3>2, <3>3 DEF NreadInv, s_now
  <2> QED
    BY <1>7, <2>1, <2>4, <2>6, <2>7, <2>8, <2>9, <2>14 DEF Holds, IInv
<1> QED
  BY <1>8, <1>9

\* The callbacks for text that EndCall calls, if the body is not among the
\* unfinished texts, and if only the body is.
TextCalls == {x \in [on : Callbacks, len : Nat] :
                x.on \notin {"headers_complete", "body"}}

\* An unfinished text is given to its callback.
LEMMA DataIsText ==
    ASSUME NEW t \in Texts \ {"body"}, marks \in [Texts -> Nat \cup {NoMark}]
    PROVE  Data(t, marks) \in Seq(TextCalls)
<1>1. CASE marks[t] = NoMark
  <2>1. <<>> \in Seq(TextCalls)
    BY SMT
  <2> QED
    BY <1>1, <2>1 DEF Data
<1>2. CASE marks[t] # NoMark
  <2> DEFINE x == [on |-> t, len |-> marks[t]]
  <2>1. x \in [on : Callbacks, len : Nat] /\ x.on = t /\ t # "headers_complete"
    BY <1>2, SMT DEF Callbacks, Texts
  <2>2. x \in TextCalls
    <3> HIDE DEF x
    <3> QED
      BY <2>1 DEF TextCalls
  <2>3. Data(t, marks) = <<x>>
    BY <1>2 DEF Data
  <2> HIDE DEF x
  <2> QED
    BY <2>2, <2>3, SMT
<1> QED
  BY <1>1, <1>2

\* Five sequences after one another.
LEMMA JoinedFive ==
    ASSUME NEW S, NEW a \in Seq(S), NEW b \in Seq(S), NEW c \in Seq(S),
           NEW d \in Seq(S), NEW e \in Seq(S)
    PROVE  a \o b \o c \o d \o e \in Seq(S)
<1>1. a \o b \in Seq(S)
  BY SMT
<1>2. a \o b \o c \in Seq(S)
  BY <1>1, SMT
<1>3. a \o b \o c \o d \in Seq(S)
  BY <1>2, SMT
<1> QED
  BY <1>3, SMT

\* Callbacks of unfinished texts are neither headers_complete nor the body.
LEMMA TextsHeard ==
    ASSUME NEW c \in Seq(TextCalls)
    PROVE  Heard(c) /\ Quiet(c)
<1>1. TextCalls \subseteq [on : Callbacks, len : Nat]
  BY DEF TextCalls
<1>2. c \in Seq([on : Callbacks, len : Nat])
  <2>1. \A S, T : S \subseteq T => Seq(S) \subseteq Seq(T)
    BY SMT
  <2> QED
    BY <1>1, <2>1
<1>3. \A i \in DOMAIN c : c[i] \in TextCalls
  BY SMT
<1>4. c # <<>> => 1 \in DOMAIN c
  BY SMT
<1> QED
  BY <1>2, <1>3, <1>4 DEF Heard, Quiet, TextCalls

\* The callbacks of the texts that a call leaves unfinished.
Unfinished == Data("header_field", marks) \o Data("header_value", marks)
                \o Data("url", marks) \o Data("body", marks)
                \o Data("status", marks)

\* The callbacks at the end of a call outside a body.
LEMMA EndOfTexts ==
    ASSUME IInv, call = "running", s_now \notin BodyMarked
    PROVE  Heard(Unfinished) /\ Quiet(Unfinished)
<1>1. marks \in [Texts -> Nat \cup {NoMark}] /\ marks["body"] = NoMark
  BY DEF IInv, TypeOK, CallInv
<1>2. Data("body", marks) = <<>> /\ <<>> \in Seq(TextCalls)
  <2>1. <<>> \in Seq(TextCalls)
    BY SMT
  <2> QED
    BY <1>1, <2>1 DEF Data
<1>3. /\ Data("header_field", marks) \in Seq(TextCalls)
      /\ Data("header_value", marks) \in Seq(TextCalls)
      /\ Data("url", marks) \in Seq(TextCalls)
      /\ Data("status", marks) \in Seq(TextCalls)
  BY <1>1, DataIsText DEF Texts
<1>4. Unfinished \in Seq(TextCalls)
  BY <1>2, <1>3, JoinedFive DEF Unfinished
<1> QED
  BY <1>4, TextsHeard

\* The callback at the end of a call within a body.
LEMMA EndOfBody ==
    ASSUME IInv, call = "running", s_now \in BodyMarked
    PROVE  Unfinished = Data("body", marks)
<1>1. \A t \in Texts \ {"body"} : marks[t] = NoMark
  BY TextOrBody DEF IInv, CallInv
<1>2. marks \in [Texts -> Nat \cup {NoMark}] /\ "body" \in Texts
  BY DEF IInv, TypeOK, Texts
<1>3. Heard(Data("body", marks))
  BY <1>2, HeardData
<1>4. /\ Data("header_field", marks) = <<>> /\ Data("header_value", marks) = <<>>
      /\ Data("url", marks) = <<>> /\ Data("status", marks) = <<>>
  BY <1>1 DEF Data, Texts
<1> DEFINE d == Data("body", marks)
<1>5. d \in Seq([on : Callbacks, len : Nat])
  BY <1>3 DEF Heard
<1>6. Unfinished = <<>> \o <<>> \o <<>> \o d \o <<>>
  BY <1>4 DEF Unfinished
<1> HIDE DEF d
<1>7. <<>> \o <<>> \o <<>> \o d \o <<>> = d
  <2>1. <<>> \o <<>> \o <<>> = <<>>
    BY SMT
  <2>2. <<>> \o d = d /\ d \o <<>> = d
    BY <1>5, SMT
  <2> QED
    BY <2>1, <2>2
<1> QED
  BY <1>6, <1>7 DEF d

\* A call ends: unfinished texts are handed over.
LEMMA EndCallHolds == IInv /\ EndCall => Holds
<1> SUFFICES ASSUME IInv, EndCall PROVE Holds
  OBVIOUS
<1> DEFINE long == [Counted EXCEPT !.http_errno = "HEADER_OVERFLOW"]
<1>1. call = "running" /\ byte = NoByte
  BY DEF EndCall
<1>2. /\ ParserInv(parser) /\ CallInv /\ NreadInv /\ OwedInv /\ parser.http_errno = "OK"
      /\ seen \in Nat /\ run \in Nat /\ owed \in Int
      /\ marks \in [Texts -> Nat \cup {NoMark}] /\ "body" \in Texts
  BY <1>1 DEF IInv, TypeOK, CallInv, Texts
<1>3. parser.content_length \in Nat /\ parser.nread \in Nat
  BY <1>2, MaxIsNat, SMT DEF ParserInv, Parsers
<1>4. /\ ParserInv(Counted) /\ Counted.state = s_now
      /\ Counted.http_errno = "OK"
      /\ Counted.nread = parser.nread + run
      /\ Counted.content_length = parser.content_length
  BY <1>2, CountedFacts
<1>5. \/ run > 0 /\ Return(long, <<>>, "all")
      \/ Return(Counted, Unfinished, "all")
  BY DEF EndCall, Unfinished
<1>6. CASE run > 0 /\ Return(long, <<>>, "all")
  <2>1. "HEADER_OVERFLOW" \in Wrong
    BY WrongNames
  <2>2. ParserInv(long)
    BY <1>4, <2>1, ErrorInv
  <2>3. long.state = s_now /\ long.http_errno = "HEADER_OVERFLOW"
          /\ long.content_length = parser.content_length
    BY <1>4, SMT DEF ParserInv, Parsers
  <2> HIDE DEF long
  <2>4. s_now \in {"s_header_field", "s_header_value"}
    BY <1>2, <1>6 DEF CallInv
  <2>5. s_now \notin OwingStates
    BY <2>4 DEF OwingStates
  <2>6. owed = 0
    BY <1>2, <2>5 DEF OwedInv
  <2>7. OwedBy(long, <<>>) = 0
    BY <2>3, <2>6 DEF OwedBy, s_now
  <2>8. Owes(long, NoMarks, <<>>)
    BY <2>3, <2>5, <2>7, SMT DEF Owes
  <2>9. Exact(long)
    BY <2>3, ExactStays DEF Exact, s_now
  <2> QED
    BY <1>6, <2>2, <2>3, <2>8, <2>9, HeardNothing, ReturnHolds
<1>7. CASE Return(Counted, Unfinished, "all")
  <2>1. Exact(Counted)
    BY <1>4, ExactStays DEF Exact, s_now
  <2>2. seen <= Counted.nread
    <3>1. seen + (IF run > 0 THEN 1 ELSE 0) <= parser.nread + run
      BY <1>1, <1>2 DEF NreadInv
    <3> QED
      BY <1>2, <1>3, <1>4, <3>1, SMT
  <2>3. Counted.state = "s_chunk_size_start" => Counted.nread = 0
    <3> SUFFICES ASSUME s_now = "s_chunk_size_start" PROVE Counted.nread = 0
      BY <1>4
    <3>1. parser.nread = 0
      BY <1>1, <1>2 DEF NreadInv
    <3>2. run = 0
      BY <1>2, SMT DEF CallInv
    <3> QED
      BY <1>4, <3>1, <3>2, SMT
  <2> HIDE DEF Unfinished
  <2>4. CASE s_now \notin BodyMarked
    <3>1. Heard(Unfinished) /\ Quiet(Unfinished)
      BY <1>1, <2>4, EndOfTexts
    <3>2. s_now \notin OwingStates /\ owed = 0
      BY <1>2, <2>4 DEF BodyMarked, OwedInv
    <3>3. OwedBy(Counted, Unfinished) = 0
      BY <1>4, <3>1, <3>2 DEF OwedBy, Quiet, s_now
    <3>4. Owes(Counted, NoMarks, Unfinished)
      BY <1>4, <3>2, <3>3, SMT DEF Owes
    <3> QED
      BY <1>7, <1>4, <2>1, <2>2, <2>3, <3>1, <3>4, ReturnHolds
  <2>5. CASE s_now \in BodyMarked
    <3> DEFINE n == IF marks["body"] = NoMark THEN 0 ELSE marks["body"]
               x == [on |-> "body", len |-> n]
    <3>1. Unfinished = Data("body", marks)
      BY <1>1, <2>5, EndOfBody
    <3>2. Heard(Unfinished)
      BY <1>2, <3>1, HeardData
    <3>3. x.on = "body" /\ x.len = n
      OBVIOUS
    <3>4. n \in Nat
      BY <1>2, SMT DEF NoMark
    <3>5. \/ Unfinished = <<>> /\ n = 0
          \/ Unfinished = <<x>>
      BY <3>1 DEF Data
    <3>6. NoMarks["body"] = NoMark
      BY <1>2 DEF NoMarks
    <3>7. CASE s_now = "s_body_identity_eof"
      <4>1. s_now \notin OwingStates
        BY <3>7 DEF OwingStates
      <4>2. OwedBy(Counted, Unfinished) = 0
        BY <1>2, <1>4, <3>7, <4>1 DEF OwedBy, OwedInv, s_now
      <4>3. Owes(Counted, NoMarks, Unfinished)
        BY <1>4, <4>1, <4>2, SMT DEF Owes
      <4> QED
        BY <1>7, <1>4, <2>1, <2>2, <2>3, <3>2, <4>3, ReturnHolds
    <3>8. CASE s_now # "s_body_identity_eof"
      <4>1. s_now \in OwingStates
        BY <2>5, <3>8 DEF BodyMarked
      <4>2. owed = parser.content_length + n
        BY <1>2, <4>1 DEF OwedInv
      <4> HIDE DEF n, x
      <4>3. OwedBy(Counted, Unfinished) = parser.content_length
        <5>1. CASE Unfinished = <<>> /\ n = 0
          <6>1. OwedBy(Counted, Unfinished) = owed
            BY <1>4, <5>1 DEF OwedBy, s_now
          <6> QED
            BY <1>3, <4>2, <5>1, <6>1, SMT
        <5>2. CASE Unfinished = <<x>>
          <6>1. Unfinished # <<>> /\ Unfinished[1] = x
            BY <5>2, SMT
          <6>2. OwedBy(Counted, Unfinished) = owed - n
            BY <1>4, <3>3, <3>8, <6>1 DEF OwedBy, s_now
          <6> QED
            BY <1>3, <3>4, <4>2, <6>2, SMT
        <5> QED
          BY <3>5, <5>1, <5>2
      <4>4. Owes(Counted, NoMarks, Unfinished)
        <5>1. parser.content_length + 0 = parser.content_length
                /\ parser.content_length \in Int
          BY <1>3, SMT
        <5> QED
          BY <1>4, <3>6, <4>1, <4>3, <5>1 DEF Owes
      <4> QED
        BY <1>7, <1>4, <2>1, <2>2, <2>3, <3>2, <4>4, ReturnHolds
    <3> QED
      BY <3>7, <3>8
  <2> QED
    BY <2>4, <2>5
<1> QED
  BY <1>5, <1>6, <1>7

\* A step that changes nothing.
LEMMA StutterHolds == IInv /\ UNCHANGED vars => Holds
<1> SUFFICES ASSUME IInv, UNCHANGED vars PROVE Holds
  OBVIOUS
<1>1. Exact(parser')
  BY ExactStays DEF vars
<1>2. IInv'
  BY DEF IInv, TypeOK, CallInv, NreadInv, OwedInv, HeadersAreLimited, s_now, vars
<1> QED
  BY <1>1, <1>2 DEF Holds
-----------------------------------------------------------------------------
(* The theorems. *)

\* http_parser_init leaves the parser in the invariant.
LEMMA InitHolds == Init => IInv
<1> SUFFICES ASSUME Init PROVE IInv
  OBVIOUS
<1>1. PICK t \in Types :
         parser = [type |-> t, state |-> InitState(t), flags |-> {},
                   header_state |-> "h_general", index |-> 0, nread |-> 0,
                   content_length |-> 0, http_major |-> 0, http_minor |-> 0,
                   status_code |-> 0, method |-> "DELETE", http_errno |-> "OK",
                   upgrade |-> FALSE]
  BY DEF Init
<1>2. t \in {"HTTP_REQUEST", "HTTP_RESPONSE", "HTTP_BOTH"}
  BY ParserAssumption DEF ParserAssumption
<1>3. InitState(t) \in StartStates
        /\ (t = "HTTP_BOTH" => InitState(t) = "s_start_req_or_res")
  BY <1>2 DEF InitState, StartStates
<1>4. /\ parser.type = t /\ parser.state = InitState(t)
      /\ parser.http_errno = "OK" /\ parser.nread = 0
      /\ parser.http_major = 0 /\ parser.http_minor = 0
      /\ parser.status_code = 0
  BY <1>1
<1>5. /\ InitState(t) \in States /\ {} \in SUBSET Flags
      /\ "h_general" \in NameStates \cup ValueStates
      /\ "DELETE" \in Methods /\ "OK" \in Errors
  BY <1>3, StateNames DEF ValueStates, Methods, Errors
<1>6. 0 \in 0..127 /\ 0 \in Nat /\ 0 \in 0..ULLONG_MAX
  BY MaxIsNat, SMT
<1>7. 0 \in FourDigits
  BY <1>6, FourDigitsAtMost, SMT
<1>8. parser \in Parsers
  BY <1>1, <1>2, <1>5, <1>6, <1>7 DEF Parsers
<1>9. 0 <= 999
  BY SMT
<1>10. InitState(t) \in (States \ Special) \ HeaderStates
         /\ InitState(t) \notin Heads /\ InitState(t) \in Silent
  BY <1>3, StartNames DEF Heads
<1>11. ParserInv(parser)
  BY <1>3, <1>4, <1>8, <1>9, <1>10, StateInv
<1>12. /\ call = "idle" /\ ret = "all" /\ byte = NoByte /\ rest = <<>>
       /\ run = 0 /\ jumped = FALSE /\ marks = NoMarks /\ cb = <<>>
       /\ seen = 0 /\ owed = 0
  BY DEF Init
<1>13. TypeOK
  <2>1. <<>> \in Seq([on : Callbacks, len : Nat]) /\ <<>> \in Seq(Bytes)
          /\ 0 \in Int
    BY SMT
  <2> QED
    BY <1>6, <1>8, <1>12, <2>1, NoMarksFit DEF TypeOK
<1>14. CallInv
  <2>1. ~(0 > 0)
    BY SMT
  <2> QED
    BY <1>12, <2>1 DEF CallInv
<1>15. NreadInv
  <2>1. s_now # "s_chunk_size_start"
    BY <1>4, <1>10, SilentFacts DEF s_now
  <2>2. 0 + (IF 0 > 0 /\ NoByte = NoByte THEN 1 ELSE 0) <= 0 + 0
    BY SMT
  <2> QED
    BY <1>4, <1>12, <2>1, <2>2 DEF NreadInv
<1>16. OwedInv
  BY <1>4, <1>10, <1>12, SilentFacts DEF OwedInv, s_now
<1>17. HeadersAreLimited
  BY <1>12, SMT DEF HeadersAreLimited
<1> QED
  BY <1>11, <1>13, <1>14, <1>15, <1>16, <1>17 DEF IInv

\* Every case of the switch keeps the invariant and the lengths.
LEMMA ExecuteHolds == IInv /\ Execute => Holds
  BY DeadHolds, StartReqOrResHolds, ResOrRespHHolds, StartResHolds,
     StartReqHolds, ReqMethodHolds, SpacesBeforeUrlHolds, UrlHeadHolds,
     UrlTailHolds, ReqHttpStartHolds, ExpectByteHolds, VersionHolds,
     StatusCodeHolds, StatusTextHolds, HeaderFieldStartHolds, HeaderFieldHolds,
     ValueDiscardWsHolds, ValueStartHolds, HeaderValueHolds, ValueLwsHolds,
     ValueDiscardLwsHolds, HeadersAlmostDoneHolds, HeadersDoneHolds,
     BodyIdentityHolds, BodyIdentityEofHolds, MessageDoneHolds,
     ChunkSizeStartHolds, ChunkSizeHolds, ChunkParametersHolds,
     ChunkSizeAlmostDoneHolds, ChunkDataHolds
     DEF Execute

\* Every step keeps the invariant and the lengths.
LEMMA StepHolds == IInv /\ [Next]_vars => Holds
<1> SUFFICES ASSUME IInv, [Next]_vars PROVE Holds
  OBVIOUS
<1>1. CASE BeginCall
  BY <1>1, BeginCallHolds
<1>2. CASE NextByte
  BY <1>2, NextByteHolds
<1>3. CASE Execute
  BY <1>3, ExecuteHolds
<1>4. CASE EndCall
  BY <1>4, EndCallHolds
<1>5. CASE ExecuteEof
  BY <1>5, ExecuteEofHolds
<1>6. CASE Over
  BY <1>6, StutterHolds DEF Over
<1>7. CASE UNCHANGED vars
  BY <1>7, StutterHolds
<1> QED
  BY <1>1, <1>2, <1>3, <1>4, <1>5, <1>6, <1>7 DEF Next

\* For every width of the length field, every limit on the headers, every kind of
\* parser and whatever bytes the peer sends, however a caller cuts them into calls of
\* http_parser_execute: the fields, the marks of unfinished texts, the count of the
\* headers and what is left of a body always fit together.
THEOREM ParserInvariance == Spec => []IInv
<1>1. IInv /\ [Next]_vars => IInv'
  BY StepHolds DEF Holds
<1> QED
  BY <1>1, InitHolds, PTL DEF Spec

\* At the end of a call at most one text is unfinished.
LEMMA OneMark ==
    ASSUME IInv, BetweenBytes
    PROVE  Cardinality({t \in Texts : marks[t] # NoMark}) <= 1
<1> DEFINE M == {t \in Texts : marks[t] # NoMark}
<1>1. /\ \A t \in Texts \ {"body"} : marks[t] # NoMark <=> t \in TextOf(s_now)
      /\ marks["body"] # NoMark => s_now \in BodyMarked
  BY DEF IInv, CallInv, BetweenBytes
<1>2. \E x : M \subseteq {x}
  <2>1. CASE s_now \in BodyMarked
    BY <1>1, <2>1, TextOrBody
  <2>2. CASE s_now \notin BodyMarked
    <3>1. M \subseteq TextOf(s_now)
      BY <1>1, <2>2
    <3>2. PICK x : TextOf(s_now) \subseteq {x}
      BY TextOrBody
    <3> QED
      BY <3>1, <3>2
  <2> QED
    BY <2>1, <2>2
<1>3. PICK x : M \subseteq {x}
  BY <1>2
<1> HIDE DEF M
<1>4. IsFiniteSet({x}) /\ Cardinality({x}) = 1
  BY FS_Singleton
<1>5. IsFiniteSet(M) /\ Cardinality(M) <= Cardinality({x})
  BY <1>3, <1>4, FS_Subset
<1> QED
  BY <1>4, <1>5 DEF M

\* The assert()s of http_parser_execute follow from the invariant.
LEMMA IInvAsserts == IInv => AssertsHold
<1> SUFFICES ASSUME IInv PROVE AssertsHold
  OBVIOUS
<1>1. TypeOK /\ IndexInv(parser) /\ FramingInv(parser) /\ CountInv(parser)
        /\ CallInv /\ NreadInv
  BY DEF IInv, ParserInv
<1>2. At("s_chunk_size_start") => parser.nread = 1
  BY <1>1 DEF At, CallInv, NreadInv, s_now
<1>3. TextsAreMarked
  BY <1>1 DEF TextsAreMarked, BetweenBytes, CallInv
<1>4. s_now \in {"s_body_identity", "s_chunk_data"}
         => parser.content_length \notin {0, ULLONG_MAX}
  BY <1>1 DEF CountInv, s_now
<1> QED
  BY <1>1, <1>2, <1>3, <1>4, OneMark
     DEF AssertsHold, FramingInv, CountInv, IndexInv, s_now

\* Hence every assert() of http_parser_execute holds, and a call that returns leaves
\* at most one text unfinished, the one that the next call goes on with.
THEOREM Asserts == Spec => []AssertsHold
  BY ParserInvariance, IInvAsserts, PTL

\* How a body is read is decided by the invariant's flags.
LEMMA IInvFraming == IInv => OneFraming
  BY DEF IInv, ParserInv, FramingInv, OneFraming, s_now

\* Hence a body is never read by chunks and by Content-Length at once, and only a
\* reply that is not chunked is read until the stream ends.
THEOREM Framing == Spec => []OneFraming
  BY ParserInvariance, IInvFraming, PTL

\* Hence on_headers_complete is never called for headers longer than
\* HTTP_MAX_HEADER_SIZE, although the inner loops count their bytes when they end.
THEOREM HeaderLimit == Spec => []HeadersAreLimited
<1>1. IInv => HeadersAreLimited
  BY DEF IInv
<1> QED
  BY <1>1, ParserInvariance, PTL

\* What is owed is handed over when the body is left.
LEMMA IInvBody == IInv => BodyIsWhole
<1> SUFFICES ASSUME IInv PROVE BodyIsWhole
  OBVIOUS
<1>1. OwedInv
  BY DEF IInv
<1>2. {"s_chunk_data_done", "s_message_done"} \cap OwingStates = {}
  BY DEF OwingStates
<1> QED
  BY <1>1, <1>2 DEF BodyIsWhole, OwedInv, OwingStates

\* Hence on_body is given the bytes that Content-Length or the chunk size announced,
\* no more and no fewer, across every cut of the stream.
THEOREM WholeBody == Spec => []BodyIsWhole
  BY ParserInvariance, IInvBody, PTL

\* Hence content_length never leaves its unsigned field, and is never zero while a
\* body is counted down: the decrement in s_body_identity and s_chunk_data cannot
\* wrap around.
THEOREM LengthsInRange ==
    Spec => [](/\ parser.content_length \in 0..ULLONG_MAX
               /\ s_now \in {"s_body_identity", "s_chunk_data"}
                    => parser.content_length # 0)
<1>1. IInv => /\ parser.content_length \in 0..ULLONG_MAX
              /\ s_now \in {"s_body_identity", "s_chunk_data"}
                   => parser.content_length # 0
  <2>1. parser \in Parsers => parser.content_length \in 0..ULLONG_MAX
    BY SMT DEF Parsers
  <2> QED
    BY <2>1 DEF IInv, ParserInv, CountInv, s_now
<1> QED
  BY <1>1, ParserInvariance, PTL

\* One more digit never makes content_length smaller, and never makes it the value
\* that stands for "no length" (ULLONG_MAX): the tests before the multiplications in
\* h_content_length and s_chunk_size are strong enough.
THEOREM LengthsStayExact == Spec => LengthsAreExact
<1>1. IInv /\ [Next]_vars =>
        [(s_now \in {"s_header_value", "s_chunk_size"} /\ parser'.state = s_now)
           => /\ parser'.content_length >= parser.content_length
              /\ parser'.content_length = ULLONG_MAX
                   => parser.content_length = ULLONG_MAX]_vars
  BY StepHolds DEF Holds, Exact
<1> QED
  BY <1>1, ParserInvariance, PTL DEF Spec, LengthsAreExact
-----------------------------------------------------------------------------
(* The control flow of the switch: from which state to which a pass may go, *)
(* what it calls, and what it does to the marks.  Every case is shown to be *)
(* one of Moves or an error, once; what the callbacks tell follows from     *)
(* Moves alone.                                                             *)

RequestLine == {"s_req_method", "s_req_spaces_before_url", "s_req_http_start",
                "s_req_http_H", "s_req_http_HT", "s_req_http_HTT",
                "s_req_http_HTTP", "s_req_first_http_major", "s_req_http_major",
                "s_req_first_http_minor", "s_req_http_minor",
                "s_req_line_almost_done"}
BeforeReason == {"s_res_H", "s_res_HT", "s_res_HTT", "s_res_HTTP",
                 "s_res_first_http_major", "s_res_http_major",
                 "s_res_first_http_minor", "s_res_http_minor",
                 "s_res_first_status_code", "s_res_status_code",
                 "s_res_status_start"}
Discards == {"s_header_value_discard_ws", "s_header_value_discard_ws_almost_done",
             "s_header_value_discard_lws"}

\* The byte is taken, or the same byte is looked at again.
Onward(mk, c) == marks' = Advance(mk) /\ cb' = c /\ byte' = NoByte /\ call' = call
Again(mk, c) == marks' = mk /\ cb' = c /\ byte' = byte /\ call' = call

\* The parser goes from one state to another.
From(s, t) == parser.state = s /\ parser'.state = t
Among(S, T) == parser.state \in S /\ parser'.state \in T

\* What else a step leaves as it is, if it does not begin a message.
SameType == parser'.type = parser.type
SameStatus == parser'.status_code = parser.status_code
Kept == /\ SameType /\ SameStatus
        /\ parser.flags \subseteq parser'.flags
        /\ "F_TRAILING" \in parser'.flags => "F_TRAILING" \in parser.flags

BeginMoves ==
    \/ /\ \E s \in {"s_dead", "s_start_req_or_res", "s_start_req"} : From(s, s)
       /\ Onward(marks, <<>>) /\ Kept
    \/ /\ From("s_start_req_or_res", "s_start_req")
       /\ Again(marks, <<>>)
       /\ parser'.flags = {} /\ parser'.type = "HTTP_REQUEST" /\ SameStatus
    \/ /\ \/ From("s_start_req_or_res", "s_res_or_resp_H")
          \/ From("s_start_res", "s_res_H") \/ From("s_start_res", "s_start_res")
          \/ From("s_start_req", "s_req_method")
       /\ Onward(marks, Notify("message_begin"))
       /\ parser'.flags = {} /\ SameType /\ SameStatus
    \/ /\ \/ /\ From("s_res_or_resp_H", "s_res_HT")
             /\ parser'.type = "HTTP_RESPONSE"
          \/ /\ From("s_res_or_resp_H", "s_req_method")
             /\ parser'.type = "HTTP_REQUEST"
       /\ Onward(marks, <<>>)
       /\ parser'.flags = parser.flags /\ SameStatus

LineMoves ==
    \/ /\ Among(RequestLine, RequestLine \cup {"s_header_field_start"})
       /\ Onward(marks, <<>>) /\ Kept
    \/ /\ From("s_req_spaces_before_url", parser'.state)
       /\ parser'.state \in UrlStates
       /\ Onward(MARK("url"), <<>>) /\ Kept
    \/ /\ Among(UrlStates, UrlStates) /\ Onward(marks, <<>>) /\ Kept
    \/ /\ Among(UrlStates, {"s_req_http_start", "s_req_line_almost_done",
                            "s_header_field_start"})
       /\ Onward(Unmark("url"), Data("url", marks)) /\ Kept
    \/ /\ \/ Among(BeforeReason, BeforeReason \cup {"s_res_line_almost_done",
                                                    "s_header_field_start"})
          \/ From("s_res_line_almost_done", "s_header_field_start")
       /\ Onward(marks, <<>>)
       /\ SameType /\ parser'.flags = parser.flags
       /\ SameStatus \/ parser.state \in {"s_res_first_status_code",
                                          "s_res_status_code"}
    \/ /\ From("s_res_status_start", "s_res_status")
       /\ Onward(MARK("status"), <<>>) /\ Kept
    \/ /\ From("s_res_status", "s_res_status")
       /\ Onward(marks, <<>>) /\ Kept
    \/ /\ Among({"s_res_status"}, {"s_res_line_almost_done", "s_header_field_start"})
       /\ Onward(Unmark("status"), Data("status", marks)) /\ Kept

HeaderMoves ==
    /\ Kept
    /\ \/ /\ From("s_header_field_start", "s_headers_almost_done")
          /\ Onward(marks, <<>>) \/ Again(marks, <<>>)
       \/ /\ From("s_header_field_start", "s_header_field")
          /\ Onward(MARK("header_field"), <<>>)
       \/ /\ \/ From("s_header_field", "s_header_field")
             \/ From("s_header_value", "s_header_value")
             \/ Among(Discards, Discards)
             \/ From("s_header_almost_done", "s_header_value_lws")
          /\ Onward(marks, <<>>)
       \/ /\ From("s_header_field", "s_header_value_discard_ws")
          /\ Onward(Unmark("header_field"), Data("header_field", marks))
       \/ /\ Among({"s_header_value_discard_ws", "s_header_value_start"},
                   {"s_header_value"})
          /\ Onward(MARK("header_value"), <<>>)
       \/ /\ From("s_header_value", "s_header_almost_done")
          /\ \/ Onward(Unmark("header_value"), Data("header_value", marks))
             \/ Again(Unmark("header_value"), Data("header_value", marks))
       \/ /\ Among({"s_header_value_lws"},
                   {"s_header_value_start", "s_header_field_start"})
          /\ Again(marks, <<>>)
       \/ /\ From("s_header_value_discard_lws", "s_header_field_start")
          /\ Again(Unmark("header_value"),
                   Data("header_value", MARK("header_value")))

\* The last byte of a message; after an upgrade it may end the call.
EndMoves ==
    /\ Kept
    /\ Among({"s_headers_done", "s_message_done"},
             {"s_dead", "s_start_req", "s_start_res"})
    /\ parser'.state = "s_start_req" => parser.type = "HTTP_REQUEST"
    /\ parser'.state = "s_start_res" => parser.type # "HTTP_REQUEST"
    /\ cb' = Notify("message_complete") /\ byte' = NoByte
    /\ \/ marks' = Advance(marks) /\ call' = call
       \/ marks' = NoMarks /\ call' = "idle"

BodyMoves ==
    \/ /\ From("s_headers_almost_done", "s_message_done")
       /\ "F_TRAILING" \in parser.flags
       /\ Again(marks, Notify("chunk_complete")) /\ Kept
    \/ /\ From("s_headers_almost_done", "s_headers_done")
       /\ "F_TRAILING" \notin parser.flags
       /\ Again(marks, Notify("headers_complete")) /\ Kept
    \/ /\ Among({"s_headers_done"}, {"s_chunk_size_start", "s_body_identity",
                                     "s_body_identity_eof"})
       /\ Onward(marks, <<>>) /\ Kept
    \/ /\ \/ From("s_body_identity", "s_body_identity")
          \/ From("s_body_identity_eof", "s_body_identity_eof")
          \/ Among({"s_chunk_data"}, {"s_chunk_data", "s_chunk_data_almost_done"})
       /\ Onward(MARK("body"), <<>>) /\ Kept
    \/ /\ From("s_body_identity", "s_message_done")
       /\ Again(Unmark("body"), Data("body", Advance(MARK("body")))) /\ Kept
       /\ parser'.flags = parser.flags
    \/ /\ Among(ChunkSizeStates, ChunkSizeStates)
       /\ Onward(marks, <<>>) /\ Kept
    \/ /\ From("s_chunk_size_almost_done", "s_header_field_start")
       /\ parser'.flags = parser.flags \cup {"F_TRAILING"}
       /\ Onward(marks, Notify("chunk_header")) /\ SameType /\ SameStatus
    \/ /\ From("s_chunk_size_almost_done", "s_chunk_data")
       /\ Onward(marks, Notify("chunk_header")) /\ Kept
    \/ /\ From("s_chunk_data_almost_done", "s_chunk_data_done")
       /\ Onward(Unmark("body"), Data("body", marks)) /\ Kept
    \/ /\ From("s_chunk_data_done", "s_chunk_size_start")
       /\ Onward(marks, Notify("chunk_complete")) /\ Kept

\* The step is one of those.
Moves == /\ parser'.http_errno = "OK"
         /\ \/ BeginMoves \/ LineMoves \/ HeaderMoves \/ EndMoves \/ BodyMoves

\* A case that finds an error tells it with the call, and calls nothing but for a
\* value that is complete.
Errs == /\ parser'.http_errno # "OK"
        /\ call' = "idle" /\ ret' = "short"
        /\ byte' = NoByte /\ marks' = NoMarks
        /\ \/ cb' = <<>>
           \/ /\ parser.state = "s_header_value"
              /\ cb' = Data("header_value", marks)

Goes == Moves \/ Errs
\* A state's own fields, and that nothing is wrong yet.
LEMMA PassParser == ASSUME Pass PROVE parser \in Parsers /\ parser.http_errno = "OK"
  BY PassFacts DEF ParserInv

\* A parser that goes to another state keeps its other fields.
LEMMA GotoKeeps ==
    ASSUME Pass, NEW s, parser' = Goto(s)
    PROVE  /\ parser'.state = s /\ parser'.http_errno = "OK"
           /\ Kept /\ parser'.flags = parser.flags
  BY PassParser, SMT DEF Parsers, Goto, Kept, SameType, SameStatus

\* A `break` into state s.
LEMMA GotoOnward ==
    ASSUME Pass, NEW s, NEW mk, NEW c, Break(Goto(s), mk, c)
    PROVE  /\ parser'.state = s /\ parser'.http_errno = "OK"
           /\ Kept /\ parser'.flags = parser.flags
           /\ Onward(mk, c)
  BY GotoKeeps DEF Break, Become, Onward

\* A `goto reexecute` in state s.
LEMMA GotoAgain ==
    ASSUME Pass, NEW s, NEW mk, NEW c, Reexecute(Goto(s), mk, c)
    PROVE  /\ parser'.state = s /\ parser'.http_errno = "OK"
           /\ Kept /\ parser'.flags = parser.flags
           /\ Again(mk, c)
  BY GotoKeeps DEF Reexecute, Become, Again

\* A `break` where nothing changes.
LEMMA StayOnward ==
    ASSUME Pass, NEW mk, NEW c, Break(parser, mk, c)
    PROVE  /\ parser'.state = parser.state /\ parser'.http_errno = "OK"
           /\ Kept /\ parser'.flags = parser.flags
           /\ Onward(mk, c)
  BY PassParser DEF Break, Become, Onward, Kept, SameType, SameStatus

\* An error of a case that calls nothing.
LEMMA FailErrs ==
    ASSUME Pass, NEW q, "http_errno" \in DOMAIN q, NEW e, e # "OK",
           Fail(q, <<>>, e)
    PROVE  Errs
<1>1. [q EXCEPT !.http_errno = e].http_errno = e
  BY SMT
<1> QED
  BY <1>1 DEF Fail, Return, Become, Errs

\* An error where the parser stands.
LEMMA FailHereErrs ==
    ASSUME Pass, NEW e, e # "OK", Fail(parser, <<>>, e)
    PROVE  Errs
<1>1. "http_errno" \in DOMAIN parser
  BY PassParser, SMT DEF Parsers
<1> QED
  BY <1>1, FailErrs

\* The case Dead of the switch.
LEMMA DeadMoves == IInv /\ Dead => Goes
<1> SUFFICES ASSUME IInv, Dead PROVE Goes
  OBVIOUS
<1>1. Pass /\ parser.state = "s_dead"
  BY DEF Dead, At, Pass
<1>2. CASE Break(parser, marks, <<>>)
  BY <1>1, <1>2, StayOnward DEF Goes, Moves, BeginMoves, From
<1>3. CASE Fail(parser, <<>>, "CLOSED_CONNECTION")
  BY <1>1, <1>3, FailHereErrs DEF Goes
<1> QED
  BY <1>2, <1>3 DEF Dead

\* The case StartReqOrRes of the switch.
LEMMA StartReqOrResMoves == IInv /\ StartReqOrRes => Goes
<1> SUFFICES ASSUME IInv, StartReqOrRes PROVE Goes
  OBVIOUS
<1> DEFINE reply == [Fresh EXCEPT !.state = "s_res_or_resp_H"]
           request == [Fresh EXCEPT !.state = "s_start_req", !.type = "HTTP_REQUEST"]
<1>1. Pass /\ parser.state = "s_start_req_or_res"
  BY DEF StartReqOrRes, At, Pass
<1>2. /\ reply.state = "s_res_or_resp_H" /\ reply.http_errno = "OK"
      /\ reply.flags = {} /\ reply.type = parser.type
      /\ reply.status_code = parser.status_code
      /\ request.state = "s_start_req" /\ request.http_errno = "OK"
      /\ request.flags = {} /\ request.type = "HTTP_REQUEST"
      /\ request.status_code = parser.status_code
  BY <1>1, PassParser, SMT DEF Parsers, Fresh
<1>3. \/ Break(parser, marks, <<>>)
      \/ Break(reply, marks, Notify("message_begin"))
      \/ Reexecute(request, marks, <<>>)
  BY DEF StartReqOrRes
<1> HIDE DEF reply, request
<1>4. CASE Break(parser, marks, <<>>)
  BY <1>1, <1>4, StayOnward DEF Goes, Moves, BeginMoves, From
<1>5. CASE Break(reply, marks, Notify("message_begin"))
  BY <1>1, <1>2, <1>5
     DEF Break, Become, Goes, Moves, BeginMoves, From, Onward, SameType, SameStatus
<1>6. CASE Reexecute(request, marks, <<>>)
  BY <1>1, <1>2, <1>6
     DEF Reexecute, Become, Goes, Moves, BeginMoves, From, Again, SameStatus
<1> QED
  BY <1>3, <1>4, <1>5, <1>6

\* The case ResOrRespH of the switch.
LEMMA ResOrRespHMoves == IInv /\ ResOrRespH => Goes
<1> SUFFICES ASSUME IInv, ResOrRespH PROVE Goes
  OBVIOUS
<1> DEFINE reply == [parser EXCEPT !.state = "s_res_HT", !.type = "HTTP_RESPONSE"]
           request == [parser EXCEPT !.state = "s_req_method",
                                     !.type = "HTTP_REQUEST",
                                     !.method = "HEAD", !.index = 2]
<1>1. Pass /\ parser.state = "s_res_or_resp_H"
  BY DEF ResOrRespH, At, Pass
<1>2. /\ reply.state = "s_res_HT" /\ reply.http_errno = "OK"
      /\ reply.flags = parser.flags /\ reply.type = "HTTP_RESPONSE"
      /\ reply.status_code = parser.status_code
      /\ request.state = "s_req_method" /\ request.http_errno = "OK"
      /\ request.flags = parser.flags /\ request.type = "HTTP_REQUEST"
      /\ request.status_code = parser.status_code
  BY <1>1, PassParser, SMT DEF Parsers
<1>3. \/ Break(reply, marks, <<>>)
      \/ Break(request, marks, <<>>)
      \/ Fail(parser, <<>>, "INVALID_CONSTANT")
  BY DEF ResOrRespH
<1> HIDE DEF reply, request
<1>4. CASE Break(reply, marks, <<>>)
  BY <1>1, <1>2, <1>4
     DEF Break, Become, Goes, Moves, BeginMoves, From, Onward, SameStatus
<1>5. CASE Break(request, marks, <<>>)
  BY <1>1, <1>2, <1>5
     DEF Break, Become, Goes, Moves, BeginMoves, From, Onward, SameStatus
<1>6. CASE Fail(parser, <<>>, "INVALID_CONSTANT")
  BY <1>1, <1>6, FailHereErrs DEF Goes
<1> QED
  BY <1>3, <1>4, <1>5, <1>6

\* The case StartRes of the switch.
LEMMA StartResMoves == IInv /\ StartRes => Goes
<1> SUFFICES ASSUME IInv, StartRes PROVE Goes
  OBVIOUS
<1> DEFINE reply == [Fresh EXCEPT !.state = "s_res_H"]
           fresh == Fresh
<1>1. Pass /\ parser.state = "s_start_res"
  BY DEF StartRes, At, Pass
<1>2. /\ reply.state = "s_res_H" /\ reply.http_errno = "OK"
      /\ reply.flags = {} /\ reply.type = parser.type
      /\ reply.status_code = parser.status_code
      /\ fresh.state = parser.state /\ fresh.http_errno = "OK"
      /\ fresh.flags = {} /\ fresh.type = parser.type
      /\ fresh.status_code = parser.status_code
      /\ "http_errno" \in DOMAIN fresh
  BY <1>1, PassParser, SMT DEF Parsers, Fresh
<1>3. \/ Break(reply, marks, Notify("message_begin"))
      \/ Break(fresh, marks, Notify("message_begin"))
      \/ Fail(fresh, <<>>, "INVALID_CONSTANT")
  BY DEF StartRes
<1> HIDE DEF reply, fresh
<1>4. CASE Break(reply, marks, Notify("message_begin"))
  BY <1>1, <1>2, <1>4
     DEF Break, Become, Goes, Moves, BeginMoves, From, Onward, SameType, SameStatus
<1>5. CASE Break(fresh, marks, Notify("message_begin"))
  BY <1>1, <1>2, <1>5
     DEF Break, Become, Goes, Moves, BeginMoves, From, Onward, SameType, SameStatus
<1>6. CASE Fail(fresh, <<>>, "INVALID_CONSTANT")
  BY <1>1, <1>2, <1>6, FailErrs DEF Goes
<1> QED
  BY <1>3, <1>4, <1>5, <1>6

\* The case StartReq of the switch.
LEMMA StartReqMoves == IInv /\ StartReq => Goes
<1> SUFFICES ASSUME IInv, StartReq PROVE Goes
  OBVIOUS
<1> DEFINE request == [Fresh EXCEPT !.state = "s_req_method",
                                    !.method = FirstMethod[byte], !.index = 1]
           wrong == [Fresh EXCEPT !.method = "DELETE", !.index = 1]
           fresh == Fresh
<1>1. Pass /\ parser.state = "s_start_req"
  BY DEF StartReq, At, Pass
<1>2. /\ request.state = "s_req_method" /\ request.http_errno = "OK"
      /\ request.flags = {} /\ request.type = parser.type
      /\ request.status_code = parser.status_code
      /\ "http_errno" \in DOMAIN wrong /\ "http_errno" \in DOMAIN fresh
  BY <1>1, PassParser, SMT DEF Parsers, Fresh
<1>3. \/ Break(parser, marks, <<>>)
      \/ Break(request, marks, Notify("message_begin"))
      \/ Fail(wrong, <<>>, "INVALID_METHOD")
      \/ Fail(fresh, <<>>, "INVALID_METHOD")
  BY DEF StartReq
<1> HIDE DEF request, wrong, fresh
<1>4. CASE Break(parser, marks, <<>>)
  BY <1>1, <1>4, StayOnward DEF Goes, Moves, BeginMoves, From
<1>5. CASE Break(request, marks, Notify("message_begin"))
  BY <1>1, <1>2, <1>5
     DEF Break, Become, Goes, Moves, BeginMoves, From, Onward, SameType, SameStatus
<1>6. CASE Fail(wrong, <<>>, "INVALID_METHOD") \/ Fail(fresh, <<>>, "INVALID_METHOD")
  BY <1>1, <1>2, <1>6, FailErrs DEF Goes
<1> QED
  BY <1>3, <1>4, <1>5, <1>6

\* The case ReqMethod of the switch.
LEMMA ReqMethodMoves == IInv /\ ReqMethod => Goes
<1> SUFFICES ASSUME IInv, ReqMethod PROVE Goes
  OBVIOUS
<1> DEFINE next == [parser EXCEPT !.index = @ + 1]
           over == [next EXCEPT !.state = "s_req_spaces_before_url"]
           key == <<parser.method, parser.index, byte>>
           other == [next EXCEPT !.method = MethodSwitch[key]]
<1>1. Pass /\ parser.state = "s_req_method"
  BY DEF ReqMethod, At, Pass
<1>2. /\ \A q \in {next, other} : q.state = parser.state
      /\ over.state = "s_req_spaces_before_url"
      /\ \A q \in {next, other, over} :
            /\ q.http_errno = "OK" /\ q.flags = parser.flags
            /\ q.type = parser.type /\ q.status_code = parser.status_code
  BY <1>1, PassParser, SMT DEF Parsers
<1>3. \/ \E q \in {next, other, over} : Break(q, marks, <<>>)
      \/ Fail(parser, <<>>, "INVALID_METHOD")
  BY DEF ReqMethod
<1> HIDE DEF next, other, over
<1>4. CASE \E q \in {next, other, over} : Break(q, marks, <<>>)
  <2>1. /\ parser'.state \in {"s_req_method", "s_req_spaces_before_url"}
        /\ parser'.http_errno = "OK" /\ Onward(marks, <<>>) /\ Kept
    BY <1>1, <1>2, <1>4 DEF Break, Become, Onward, Kept, SameType, SameStatus
  <2> QED
    BY <1>1, <2>1 DEF Goes, Moves, LineMoves, Among, RequestLine
<1>5. CASE Fail(parser, <<>>, "INVALID_METHOD")
  BY <1>1, <1>5, FailHereErrs DEF Goes
<1> QED
  BY <1>3, <1>4, <1>5

\* A byte of a URL is its first, its next or wrong.
LEMMA TakeUrlByteMoves ==
    ASSUME Pass, NEW s, NEW mk, TakeUrlByte(s, mk),
           parse_url_char(s, byte) \in UrlStates \cup {"s_dead"}
    PROVE  \/ Errs
           \/ /\ parser'.state \in UrlStates /\ parser'.http_errno = "OK"
              /\ Onward(mk, <<>>) /\ Kept
<1> DEFINE to == parse_url_char(s, byte)
<1>1. IF to = "s_dead" THEN Fail(Goto(to), <<>>, "INVALID_URL")
                       ELSE Break(Goto(to), mk, <<>>)
  BY DEF TakeUrlByte
<1>2. "http_errno" \in DOMAIN Goto(to)
  BY PassParser, SMT DEF Parsers, Goto
<1> HIDE DEF to
<1>3. CASE Fail(Goto(to), <<>>, "INVALID_URL")
  BY <1>2, <1>3, FailErrs
<1>4. CASE to # "s_dead" /\ Break(Goto(to), mk, <<>>)
  <2>1. to \in UrlStates
    BY <1>4 DEF to
  <2> QED
    BY <1>4, <2>1, GotoOnward
<1> QED
  BY <1>1, <1>3, <1>4

\* The case SpacesBeforeUrl of the switch.
LEMMA SpacesBeforeUrlMoves == IInv /\ SpacesBeforeUrl => Goes
<1> SUFFICES ASSUME IInv, SpacesBeforeUrl PROVE Goes
  OBVIOUS
<1> DEFINE from == IF parser.method = "CONNECT" THEN "s_req_server_start"
                                                ELSE parser.state
<1>1. Pass /\ parser.state = "s_req_spaces_before_url"
  BY DEF SpacesBeforeUrl, At, Pass
<1>2. parse_url_char(from, byte) \in UrlStates \cup {"s_dead"}
  BY <1>1, UrlGoesOn DEF UrlStates, UrlHeads
<1>3. Break(parser, marks, <<>>) \/ TakeUrlByte(from, MARK("url"))
  BY DEF SpacesBeforeUrl
<1> HIDE DEF from
<1>4. CASE Break(parser, marks, <<>>)
  BY <1>1, <1>4, StayOnward DEF Goes, Moves, LineMoves, Among, RequestLine
<1>5. CASE TakeUrlByte(from, MARK("url"))
  BY <1>1, <1>2, <1>5, TakeUrlByteMoves DEF Goes, Moves, LineMoves, From
<1> QED
  BY <1>3, <1>4, <1>5

\* The case UrlHead of the switch.
LEMMA UrlHeadMoves == IInv /\ UrlHead => Goes
<1> SUFFICES ASSUME IInv, UrlHead PROVE Goes
  OBVIOUS
<1>1. Pass /\ parser.state \in UrlStates
  BY DEF UrlHead, At, Pass, UrlStates
<1>2. parse_url_char(parser.state, byte) \in UrlStates \cup {"s_dead"}
  BY <1>1, UrlGoesOn
<1>3. Fail(parser, <<>>, "INVALID_URL") \/ TakeUrlByte(parser.state, marks)
  BY DEF UrlHead
<1>4. CASE Fail(parser, <<>>, "INVALID_URL")
  BY <1>1, <1>4, FailHereErrs DEF Goes
<1>5. CASE TakeUrlByte(parser.state, marks)
  BY <1>1, <1>2, <1>5, TakeUrlByteMoves DEF Goes, Moves, LineMoves, Among
<1> QED
  BY <1>3, <1>4, <1>5

\* The case UrlTail of the switch.
LEMMA UrlTailMoves == IInv /\ UrlTail => Goes
<1> SUFFICES ASSUME IInv, UrlTail PROVE Goes
  OBVIOUS
<1> DEFINE q == [parser EXCEPT !.http_major = 0, !.http_minor = 9,
                    !.state = IF byte = "CR" THEN "s_req_line_almost_done"
                                             ELSE "s_header_field_start"]
<1>1. Pass /\ parser.state \in UrlStates
  BY DEF UrlTail, At, Pass, UrlStates
<1>2. parse_url_char(parser.state, byte) \in UrlStates \cup {"s_dead"}
  BY <1>1, UrlGoesOn
<1>3. /\ q.state \in {"s_req_line_almost_done", "s_header_field_start"}
      /\ q.http_errno = "OK" /\ q.flags = parser.flags
      /\ q.type = parser.type /\ q.status_code = parser.status_code
  BY <1>1, PassParser, SMT DEF Parsers
<1>4. \/ Break(Goto("s_req_http_start"), Unmark("url"), Data("url", marks))
      \/ Break(q, Unmark("url"), Data("url", marks))
      \/ TakeUrlByte(parser.state, marks)
  BY DEF UrlTail
<1> HIDE DEF q
<1>5. CASE Break(Goto("s_req_http_start"), Unmark("url"), Data("url", marks))
  BY <1>1, <1>5, GotoOnward DEF Goes, Moves, LineMoves, Among
<1>6. CASE Break(q, Unmark("url"), Data("url", marks))
  <2>1. /\ parser'.state \in {"s_req_line_almost_done", "s_header_field_start"}
        /\ parser'.http_errno = "OK" /\ Kept
        /\ Onward(Unmark("url"), Data("url", marks))
    BY <1>3, <1>6 DEF Break, Become, Onward, Kept, SameType, SameStatus
  <2> QED
    BY <1>1, <2>1 DEF Goes, Moves, LineMoves, Among
<1>7. CASE TakeUrlByte(parser.state, marks)
  BY <1>1, <1>2, <1>7, TakeUrlByteMoves DEF Goes, Moves, LineMoves, Among
<1> QED
  BY <1>4, <1>5, <1>6, <1>7

\* The case ReqHttpStart of the switch.
LEMMA ReqHttpStartMoves == IInv /\ ReqHttpStart => Goes
<1> SUFFICES ASSUME IInv, ReqHttpStart PROVE Goes
  OBVIOUS
<1>1. Pass /\ parser.state = "s_req_http_start"
  BY DEF ReqHttpStart, At, Pass
<1>2. CASE Break(Goto("s_req_http_H"), marks, <<>>)
  BY <1>1, <1>2, GotoOnward DEF Goes, Moves, LineMoves, Among, RequestLine
<1>3. CASE Break(parser, marks, <<>>)
  BY <1>1, <1>3, StayOnward DEF Goes, Moves, LineMoves, Among, RequestLine
<1>4. CASE Fail(parser, <<>>, "INVALID_CONSTANT")
  BY <1>1, <1>4, FailHereErrs DEF Goes
<1> QED
  BY <1>2, <1>3, <1>4 DEF ReqHttpStart

\* The tables of the first line lead on in it, or to the headers.
LEMMA LineTables ==
    /\ \A s \in DOMAIN Expect :
         /\ s \in RequestLine => Expect[s].next \in RequestLine \cup {"s_header_field_start"}
         /\ s \in BeforeReason => Expect[s].next \in BeforeReason
         /\ s = "s_res_line_almost_done" => Expect[s].next = "s_header_field_start"
         /\ s = "s_header_almost_done" => Expect[s].next = "s_header_value_lws"
         /\ s = "s_header_value_discard_ws_almost_done"
              => Expect[s].next = "s_header_value_discard_lws"
         /\ s \in RequestLine \cup BeforeReason
                    \cup {"s_res_line_almost_done", "s_header_almost_done",
                          "s_header_value_discard_ws_almost_done"}
         /\ Expect[s].error # "OK"
    /\ \A s \in DOMAIN FirstDigits :
         /\ FirstDigits[s].field \in {"http_major", "http_minor"}
         /\ s \in RequestLine => FirstDigits[s].next \in RequestLine
         /\ s \in BeforeReason => FirstDigits[s].next \in BeforeReason
         /\ s \in RequestLine \cup BeforeReason
    /\ \A s \in DOMAIN MoreDigits :
         /\ MoreDigits[s].field \in {"http_major", "http_minor"}
         /\ s \in RequestLine \cup BeforeReason
<1>1. \A s \in DOMAIN Expect :
         /\ s \in RequestLine => Expect[s].next \in RequestLine \cup {"s_header_field_start"}
         /\ s \in BeforeReason => Expect[s].next \in BeforeReason
         /\ s = "s_res_line_almost_done" => Expect[s].next = "s_header_field_start"
         /\ s = "s_header_almost_done" => Expect[s].next = "s_header_value_lws"
         /\ s = "s_header_value_discard_ws_almost_done"
              => Expect[s].next = "s_header_value_discard_lws"
         /\ s \in RequestLine \cup BeforeReason
                    \cup {"s_res_line_almost_done", "s_header_almost_done",
                          "s_header_value_discard_ws_almost_done"}
         /\ Expect[s].error # "OK"
  BY SMT DEF Expect, RequestLine, BeforeReason
<1>2. \A s \in DOMAIN FirstDigits :
         /\ FirstDigits[s].field \in {"http_major", "http_minor"}
         /\ s \in RequestLine => FirstDigits[s].next \in RequestLine
         /\ s \in BeforeReason => FirstDigits[s].next \in BeforeReason
         /\ s \in RequestLine \cup BeforeReason
  BY SMT DEF FirstDigits, RequestLine, BeforeReason
<1>3. \A s \in DOMAIN MoreDigits :
         /\ MoreDigits[s].field \in {"http_major", "http_minor"}
         /\ s \in RequestLine \cup BeforeReason
  BY SMT DEF MoreDigits, RequestLine, BeforeReason
<1> QED
  BY <1>1, <1>2, <1>3

\* What may follow the digits of a version.
LEMMA AfterVersion ==
    \A s \in DOMAIN MoreDigits : \A c \in DOMAIN MoreDigits[s].ends :
       /\ s \in RequestLine => MoreDigits[s].ends[c]
                                 \in RequestLine \cup {"s_header_field_start"}
       /\ s \in BeforeReason => MoreDigits[s].ends[c] \in BeforeReason
  BY SMT DEF MoreDigits, RequestLine, BeforeReason

\* A quiet step within the first line.
LEMMA LineOnward ==
    ASSUME NEW s, parser'.http_errno = "OK", parser'.state = s,
           Onward(marks, <<>>), Kept, parser'.flags = parser.flags,
           \/ /\ parser.state \in RequestLine
              /\ s \in RequestLine \cup {"s_header_field_start"}
           \/ /\ parser.state \in BeforeReason
              /\ s \in BeforeReason \cup {"s_res_line_almost_done",
                                          "s_header_field_start"}
           \/ /\ parser.state = "s_res_line_almost_done"
              /\ s = "s_header_field_start"
    PROVE  Goes
  BY DEF Goes, Moves, LineMoves, Among, From, Kept

\* The case ExpectByte of the switch.
LEMMA ExpectByteMoves == IInv /\ ExpectByte => Goes
<1> SUFFICES ASSUME IInv, ExpectByte PROVE Goes
  OBVIOUS
<1> DEFINE s == parser.state
           next == Expect[parser.state].next
           error == Expect[parser.state].error
<1>1. Pass /\ s \in DOMAIN Expect
  BY DEF ExpectByte, At, Pass
<1>2. Break(Goto(next), marks, <<>>) \/ Fail(parser, <<>>, error)
  BY DEF ExpectByte
<1>3. error # "OK"
  BY <1>1, LineTables
<1>4. CASE Fail(parser, <<>>, error)
  BY <1>1, <1>3, <1>4, FailHereErrs DEF Goes
<1>5. CASE Break(Goto(next), marks, <<>>)
  <2>1. /\ parser'.state = next /\ parser'.http_errno = "OK"
        /\ Kept /\ parser'.flags = parser.flags /\ Onward(marks, <<>>)
    BY <1>1, <1>5, GotoOnward
  <2>2. CASE s \in RequestLine \cup BeforeReason \cup {"s_res_line_almost_done"}
    <3>1. \/ /\ s \in RequestLine
             /\ next \in RequestLine \cup {"s_header_field_start"}
          \/ s \in BeforeReason /\ next \in BeforeReason
          \/ s = "s_res_line_almost_done" /\ next = "s_header_field_start"
      BY <1>1, <2>2, LineTables
    <3> HIDE DEF next
    <3> QED
      BY <2>1, <3>1, LineOnward
  <2>3. CASE s = "s_header_almost_done"
    <3>1. next = "s_header_value_lws"
      BY <1>1, <2>3, LineTables
    <3> QED
      BY <2>1, <2>3, <3>1 DEF Goes, Moves, HeaderMoves, From
  <2>4. CASE s = "s_header_value_discard_ws_almost_done"
    <3>1. next = "s_header_value_discard_lws"
      BY <1>1, <2>4, LineTables
    <3> QED
      BY <2>1, <2>4, <3>1 DEF Goes, Moves, HeaderMoves, Among, Discards
  <2> QED
    BY <1>1, <2>2, <2>3, <2>4, LineTables
<1> QED
  BY <1>2, <1>4, <1>5

\* A number is given one more digit, or its first.
LEMMA NumberOnward ==
    ASSUME Pass, NEW f \in Numbers, NEW v, NEW s
    PROVE  /\ LET q == [parser EXCEPT ![f] = v]
              IN  /\ q.state = parser.state /\ q.http_errno = "OK"
                  /\ q.type = parser.type /\ q.flags = parser.flags
                  /\ f # "status_code" => q.status_code = parser.status_code
                  /\ "http_errno" \in DOMAIN q
           /\ LET q == [parser EXCEPT ![f] = v, !.state = s]
              IN  /\ q.state = s /\ q.http_errno = "OK"
                  /\ q.type = parser.type /\ q.flags = parser.flags
                  /\ f # "status_code" => q.status_code = parser.status_code
  BY PassParser, SMT DEF Parsers, Numbers

\* The first digit of a number.
LEMMA FirstDigitMoves ==
    ASSUME Pass, NEW f \in Numbers, NEW s, FirstDigit(f, s)
    PROVE  /\ parser'.state = s /\ parser'.http_errno = "OK"
           /\ SameType /\ parser'.flags = parser.flags
           /\ f # "status_code" => Kept
           /\ Onward(marks, <<>>)
<1> DEFINE q == [parser EXCEPT ![f] = Digit[byte], !.state = s]
<1>1. /\ q.state = s /\ q.http_errno = "OK"
      /\ q.type = parser.type /\ q.flags = parser.flags
      /\ f # "status_code" => q.status_code = parser.status_code
  BY NumberOnward
<1>2. Break(q, marks, <<>>)
  BY DEF FirstDigit
<1> HIDE DEF q
<1> QED
  BY <1>1, <1>2 DEF Break, Become, Onward, Kept, SameType, SameStatus

\* The next digit of a number.
LEMMA TakeDigitMoves ==
    ASSUME Pass, NEW f \in Numbers, NEW e, e # "OK", TakeDigit(f, e)
    PROVE  \/ Errs
           \/ /\ parser'.state = parser.state /\ parser'.http_errno = "OK"
              /\ SameType /\ parser'.flags = parser.flags
              /\ f # "status_code" => Kept
              /\ Onward(marks, <<>>)
<1> DEFINE v == parser[f] * 10 + Digit[byte]
           q == [parser EXCEPT ![f] = v]
<1>1. /\ q.state = parser.state /\ q.http_errno = "OK"
      /\ q.type = parser.type /\ q.flags = parser.flags
      /\ f # "status_code" => q.status_code = parser.status_code
      /\ "http_errno" \in DOMAIN q
  BY NumberOnward
<1>2. Fail(q, <<>>, e) \/ Break(q, marks, <<>>)
  BY DEF TakeDigit
<1> HIDE DEF q
<1>3. CASE Fail(q, <<>>, e)
  BY <1>1, <1>3, FailErrs
<1>4. CASE Break(q, marks, <<>>)
  BY <1>1, <1>4 DEF Break, Become, Onward, Kept, SameType, SameStatus
<1> QED
  BY <1>2, <1>3, <1>4

\* The case Version of the switch.
LEMMA VersionMoves == IInv /\ Version => Goes
<1> SUFFICES ASSUME IInv, Version PROVE Goes
  OBVIOUS
<1>1. CASE /\ parser.state \in DOMAIN FirstDigits /\ At(parser.state)
           /\ LET d == FirstDigits[parser.state]
              IN  IF IsNum(byte) /\ Digit[byte] >= d.least
                    THEN FirstDigit(d.field, d.next)
                    ELSE Fail(parser, <<>>, "INVALID_VERSION")
  <2> DEFINE f == FirstDigits[parser.state].field
             next == FirstDigits[parser.state].next
  <2>1. Pass
    BY <1>1 DEF At, Pass
  <2>2. /\ f \in Numbers /\ f # "status_code"
        /\ \/ parser.state \in RequestLine /\ next \in RequestLine
           \/ parser.state \in BeforeReason /\ next \in BeforeReason
    BY <1>1, LineTables DEF Numbers
  <2>3. FirstDigit(f, next) \/ Fail(parser, <<>>, "INVALID_VERSION")
    BY <1>1
  <2> HIDE DEF f, next
  <2>4. CASE FirstDigit(f, next)
    BY <2>1, <2>2, <2>4, FirstDigitMoves, LineOnward
  <2>5. CASE Fail(parser, <<>>, "INVALID_VERSION")
    BY <2>1, <2>5, FailHereErrs DEF Goes
  <2> QED
    BY <2>3, <2>4, <2>5
<1>2. CASE /\ parser.state \in DOMAIN MoreDigits /\ At(parser.state)
           /\ LET d == MoreDigits[parser.state]
              IN  CASE byte \in DOMAIN d.ends -> Break(Goto(d.ends[byte]), marks, <<>>)
                    [] IsNum(byte) -> TakeDigit(d.field, "INVALID_VERSION")
                    [] OTHER -> Fail(parser, <<>>, "INVALID_VERSION")
  <2> DEFINE f == MoreDigits[parser.state].field
             ends == MoreDigits[parser.state].ends
  <2>1. Pass
    BY <1>2 DEF At, Pass
  <2>2. /\ f \in Numbers /\ f # "status_code"
        /\ parser.state \in RequestLine \cup BeforeReason
    BY <1>2, LineTables DEF Numbers
  <2>3. \/ byte \in DOMAIN ends /\ Break(Goto(ends[byte]), marks, <<>>)
        \/ TakeDigit(f, "INVALID_VERSION")
        \/ Fail(parser, <<>>, "INVALID_VERSION")
    BY <1>2
  <2>4. ASSUME byte \in DOMAIN ends
        PROVE  \/ /\ parser.state \in RequestLine
                  /\ ends[byte] \in RequestLine \cup {"s_header_field_start"}
               \/ parser.state \in BeforeReason /\ ends[byte] \in BeforeReason
    BY <1>2, <2>2, <2>4, AfterVersion
  <2> HIDE DEF f, ends
  <2>5. CASE byte \in DOMAIN ends /\ Break(Goto(ends[byte]), marks, <<>>)
    BY <2>1, <2>4, <2>5, GotoOnward, LineOnward
  <2>6. CASE TakeDigit(f, "INVALID_VERSION")
    BY <2>1, <2>2, <2>6, TakeDigitMoves, LineOnward DEF Goes
  <2>7. CASE Fail(parser, <<>>, "INVALID_VERSION")
    BY <2>1, <2>7, FailHereErrs DEF Goes
  <2> QED
    BY <2>3, <2>5, <2>6, <2>7
<1> QED
  BY <1>1, <1>2 DEF Version

\* The end of a status line without a reason.
LEMMA EndOfStatusLineMoves ==
    ASSUME Pass, parser.state \in BeforeReason, EndOfStatusLine(marks, <<>>)
    PROVE  Goes
<1> DEFINE next == IF byte = "CR" THEN "s_res_line_almost_done"
                                  ELSE "s_header_field_start"
<1>1. Break(Goto(next), marks, <<>>)
  BY DEF EndOfStatusLine
<1>2. next \in {"s_res_line_almost_done", "s_header_field_start"}
  OBVIOUS
<1> HIDE DEF next
<1> QED
  BY <1>1, <1>2, GotoOnward, LineOnward

\* The digits of a status.
LEMMA StatusOnward ==
    ASSUME parser.state \in {"s_res_first_status_code", "s_res_status_code"},
           parser'.state = "s_res_status_code", parser'.http_errno = "OK",
           SameType, parser'.flags = parser.flags, Onward(marks, <<>>)
    PROVE  Goes
  BY DEF Goes, Moves, LineMoves, Among, BeforeReason

\* The case StatusCode of the switch.
LEMMA StatusCodeMoves == IInv /\ StatusCode => Goes
<1> SUFFICES ASSUME IInv, StatusCode PROVE Goes
  OBVIOUS
<1>1. "status_code" \in Numbers
  BY DEF Numbers
<1>2. CASE At("s_res_first_status_code")
  <2>1. Pass /\ parser.state = "s_res_first_status_code"
          /\ parser.state \in BeforeReason
    BY <1>2 DEF At, Pass, BeforeReason
  <2>2. \/ FirstDigit("status_code", "s_res_status_code")
        \/ Break(parser, marks, <<>>)
        \/ Fail(parser, <<>>, "INVALID_STATUS")
    BY <1>2 DEF StatusCode, At
  <2>3. CASE FirstDigit("status_code", "s_res_status_code")
    BY <1>1, <2>1, <2>3, FirstDigitMoves, StatusOnward
  <2>4. CASE Break(parser, marks, <<>>)
    BY <2>1, <2>4, StayOnward, LineOnward
  <2>5. CASE Fail(parser, <<>>, "INVALID_STATUS")
    BY <2>1, <2>5, FailHereErrs DEF Goes
  <2> QED
    BY <2>2, <2>3, <2>4, <2>5
<1>3. CASE At("s_res_status_code")
  <2>1. Pass /\ parser.state = "s_res_status_code"
          /\ parser.state \in BeforeReason
    BY <1>3 DEF At, Pass, BeforeReason
  <2>2. \/ TakeDigit("status_code", "INVALID_STATUS")
        \/ Break(Goto("s_res_status_start"), marks, <<>>)
        \/ EndOfStatusLine(marks, <<>>)
        \/ Fail(parser, <<>>, "INVALID_STATUS")
    BY <1>3 DEF StatusCode, At
  <2>3. CASE TakeDigit("status_code", "INVALID_STATUS")
    BY <1>1, <2>1, <2>3, TakeDigitMoves, StatusOnward DEF Goes
  <2>4. CASE Break(Goto("s_res_status_start"), marks, <<>>)
    BY <2>1, <2>4, GotoOnward, LineOnward DEF BeforeReason
  <2>5. CASE EndOfStatusLine(marks, <<>>)
    BY <2>1, <2>5, EndOfStatusLineMoves
  <2>6. CASE Fail(parser, <<>>, "INVALID_STATUS")
    BY <2>1, <2>6, FailHereErrs DEF Goes
  <2> QED
    BY <2>2, <2>3, <2>4, <2>5, <2>6
<1> QED
  BY <1>2, <1>3 DEF StatusCode

\* The case StatusText of the switch.
LEMMA StatusTextMoves == IInv /\ StatusText => Goes
<1> SUFFICES ASSUME IInv, StatusText PROVE Goes
  OBVIOUS
<1>1. CASE At("s_res_status_start")
  <2> DEFINE q == [parser EXCEPT !.state = "s_res_status", !.index = 0]
  <2>1. Pass /\ parser.state = "s_res_status_start"
          /\ parser.state \in BeforeReason
    BY <1>1 DEF At, Pass, BeforeReason
  <2>2. EndOfStatusLine(marks, <<>>) \/ Break(q, MARK("status"), <<>>)
    BY <1>1 DEF StatusText, At
  <2>3. /\ q.state = "s_res_status" /\ q.http_errno = "OK"
        /\ q.flags = parser.flags /\ q.type = parser.type
        /\ q.status_code = parser.status_code
    BY <2>1, PassParser, SMT DEF Parsers
  <2> HIDE DEF q
  <2>4. CASE EndOfStatusLine(marks, <<>>)
    BY <2>1, <2>4, EndOfStatusLineMoves
  <2>5. CASE Break(q, MARK("status"), <<>>)
    BY <2>1, <2>3, <2>5
       DEF Break, Become, Goes, Moves, LineMoves, From, Onward, Kept, SameType,
           SameStatus
  <2> QED
    BY <2>2, <2>4, <2>5
<1>2. CASE At("s_res_status")
  <2> DEFINE next == IF byte = "CR" THEN "s_res_line_almost_done"
                                    ELSE "s_header_field_start"
  <2>1. Pass /\ parser.state = "s_res_status"
    BY <1>2 DEF At, Pass
  <2>2. \/ Break(Goto(next), Unmark("status"), Data("status", marks))
        \/ Break(parser, marks, <<>>)
    BY <1>2 DEF StatusText, At, EndOfStatusLine
  <2>3. next \in {"s_res_line_almost_done", "s_header_field_start"}
    OBVIOUS
  <2> HIDE DEF next
  <2>4. CASE Break(Goto(next), Unmark("status"), Data("status", marks))
    <3>1. /\ parser'.state = next /\ parser'.http_errno = "OK" /\ Kept
          /\ Onward(Unmark("status"), Data("status", marks))
      BY <2>1, <2>4, GotoOnward
    <3> QED
      BY <2>1, <2>3, <3>1 DEF Goes, Moves, LineMoves, Among
  <2>5. CASE Break(parser, marks, <<>>)
    BY <2>1, <2>5, StayOnward DEF Goes, Moves, LineMoves, From
  <2> QED
    BY <2>2, <2>4, <2>5
<1> QED
  BY <1>1, <1>2 DEF StatusText

\* The case HeaderFieldStart of the switch.
LEMMA HeaderFieldStartMoves == IInv /\ HeaderFieldStart => Goes
<1> SUFFICES ASSUME IInv, HeaderFieldStart PROVE Goes
  OBVIOUS
<1> DEFINE q == [parser EXCEPT !.state = "s_header_field", !.index = 0,
                               !.header_state = FirstLetter(ToLower(byte))]
<1>1. Pass /\ parser.state = "s_header_field_start"
  BY DEF HeaderFieldStart, At, Pass
<1>2. \/ Break(Goto("s_headers_almost_done"), marks, <<>>)
      \/ Reexecute(Goto("s_headers_almost_done"), marks, <<>>)
      \/ Break(q, MARK("header_field"), <<>>)
      \/ Fail(parser, <<>>, "INVALID_HEADER_TOKEN")
  BY DEF HeaderFieldStart
<1>3. /\ q.state = "s_header_field" /\ q.http_errno = "OK"
      /\ q.flags = parser.flags /\ q.type = parser.type
      /\ q.status_code = parser.status_code
  BY <1>1, PassParser, SMT DEF Parsers
<1> HIDE DEF q
<1>4. CASE Break(Goto("s_headers_almost_done"), marks, <<>>)
  BY <1>1, <1>4, GotoOnward DEF Goes, Moves, HeaderMoves, From
<1>5. CASE Reexecute(Goto("s_headers_almost_done"), marks, <<>>)
  BY <1>1, <1>5, GotoAgain DEF Goes, Moves, HeaderMoves, From
<1>6. CASE Break(q, MARK("header_field"), <<>>)
  BY <1>1, <1>3, <1>6
     DEF Break, Become, Goes, Moves, HeaderMoves, From, Onward, Kept, SameType,
         SameStatus
<1>7. CASE Fail(parser, <<>>, "INVALID_HEADER_TOKEN")
  BY <1>1, <1>7, FailHereErrs DEF Goes
<1> QED
  BY <1>2, <1>4, <1>5, <1>6, <1>7

\* A pass of an inner loop goes on in its state.
LEMMA InnerMoves ==
    ASSUME Pass, parser.state \in {"s_header_field", "s_header_value"},
           NEW q, NEW j, Inner(q, j), q.state = parser.state,
           q.http_errno = "OK", q.type = parser.type,
           q.status_code = parser.status_code, parser.flags \subseteq q.flags,
           "F_TRAILING" \in q.flags => "F_TRAILING" \in parser.flags
    PROVE  Goes
  BY DEF Inner, Become, Goes, Moves, HeaderMoves, From, Onward, Kept, SameType,
         SameStatus

\* The bytes of an inner loop are counted without touching another field.
LEMMA CountedKeeps ==
    ASSUME Pass, NEW s
    PROVE  /\ Counted.state = parser.state /\ Counted.http_errno = "OK"
           /\ Counted.type = parser.type /\ Counted.flags = parser.flags
           /\ Counted.status_code = parser.status_code
           /\ "http_errno" \in DOMAIN Counted
           /\ LET q == [Counted EXCEPT !.state = s]
              IN  /\ q.state = s /\ q.http_errno = "OK"
                  /\ q.type = parser.type /\ q.flags = parser.flags
                  /\ q.status_code = parser.status_code
                  /\ "http_errno" \in DOMAIN q
  BY PassParser, SMT DEF Parsers, Counted

\* The case HeaderField of the switch.
LEMMA HeaderFieldMoves == IInv /\ HeaderField => Goes
<1> SUFFICES ASSUME IInv, HeaderField PROVE Goes
  OBVIOUS
<1> DEFINE h == NameState(ToLower(byte))
           q == [parser EXCEPT !.header_state = h,
                   !.index = IF CountsIndex(parser.header_state) THEN @ + 1
                                                                 ELSE @]
           named == [q EXCEPT !.flags = @ \cup {"F_CONTENTLENGTH"}]
           ended == [Counted EXCEPT !.state = "s_header_value_discard_ws"]
<1>1. Pass /\ parser.state = "s_header_field"
  BY DEF HeaderField, At, Pass
<1>2. \/ \E e \in {"UNEXPECTED_CONTENT_LENGTH"} : Fail(parser, <<>>, e)
      \/ \E x \in {q, named} : Inner(x, FALSE)
      \/ \E e \in {"HEADER_OVERFLOW", "INVALID_HEADER_TOKEN"} :
            Fail(Counted, <<>>, e)
      \/ Break(ended, Unmark("header_field"), Data("header_field", marks))
  BY DEF HeaderField
<1>3. /\ \A x \in {q, named} : /\ x.state = parser.state /\ x.http_errno = "OK"
                               /\ x.type = parser.type
                               /\ x.status_code = parser.status_code
      /\ q.flags = parser.flags
      /\ named.flags = parser.flags \cup {"F_CONTENTLENGTH"}
  BY <1>1, PassParser, SMT DEF Parsers
<1>5. /\ ended.state = "s_header_value_discard_ws" /\ ended.http_errno = "OK"
      /\ ended.type = parser.type /\ ended.flags = parser.flags
      /\ ended.status_code = parser.status_code
  BY <1>1, CountedKeeps
<1> HIDE DEF q, named, ended, h
<1>4. \A x \in {q, named} :
         /\ parser.flags \subseteq x.flags
         /\ "F_TRAILING" \in x.flags => "F_TRAILING" \in parser.flags
  BY <1>3
<1>6. CASE \E e \in {"UNEXPECTED_CONTENT_LENGTH"} : Fail(parser, <<>>, e)
  BY <1>1, <1>6, FailHereErrs DEF Goes
<1>7. CASE \E x \in {q, named} : Inner(x, FALSE)
  BY <1>1, <1>3, <1>4, <1>7, InnerMoves
<1>8. CASE \E e \in {"HEADER_OVERFLOW", "INVALID_HEADER_TOKEN"} :
              Fail(Counted, <<>>, e)
  BY <1>1, <1>8, CountedKeeps, FailErrs DEF Goes
<1>9. CASE Break(ended, Unmark("header_field"), Data("header_field", marks))
  BY <1>1, <1>5, <1>9
     DEF Break, Become, Goes, Moves, HeaderMoves, From, Onward, Kept, SameType,
         SameStatus
<1> QED
  BY <1>2, <1>6, <1>7, <1>8, <1>9

\* The first byte of a value marks it.
LEMMA StartOfValueMoves ==
    ASSUME Pass, parser.state \in {"s_header_value_discard_ws", "s_header_value_start"},
           StartOfValue
    PROVE  Goes
<1> DEFINE q == [parser EXCEPT !.state = "s_header_value", !.index = 0]
           upgrade == [q EXCEPT !.header_state = "h_general",
                                !.flags = @ \cup {"F_UPGRADE"}]
           number == [q EXCEPT !.content_length = Digit[byte]]
           to(s) == [q EXCEPT !.header_state = s]
<1>1. \/ Break(upgrade, MARK("header_value"), <<>>)
      \/ Break(number, MARK("header_value"), <<>>)
      \/ Fail(q, <<>>, "INVALID_CONTENT_LENGTH")
      \/ \E s : Break(to(s), MARK("header_value"), <<>>)
  BY DEF StartOfValue
<1>2. /\ upgrade.state = "s_header_value" /\ upgrade.http_errno = "OK"
      /\ upgrade.flags = parser.flags \cup {"F_UPGRADE"}
      /\ upgrade.type = parser.type /\ upgrade.status_code = parser.status_code
  BY PassParser, SMT DEF Parsers
<1>3. /\ number.state = "s_header_value" /\ number.http_errno = "OK"
      /\ number.flags = parser.flags
      /\ number.type = parser.type /\ number.status_code = parser.status_code
      /\ "http_errno" \in DOMAIN q
  BY PassParser, SMT DEF Parsers
<1>4. \A s : /\ to(s).state = "s_header_value" /\ to(s).http_errno = "OK"
             /\ to(s).flags = parser.flags
             /\ to(s).type = parser.type
             /\ to(s).status_code = parser.status_code
  BY PassParser, SMT DEF Parsers
<1> HIDE DEF q, upgrade, number, to
<1>5. ASSUME NEW x, Break(x, MARK("header_value"), <<>>),
             x.state = "s_header_value", x.http_errno = "OK",
             x.flags = parser.flags \/ x.flags = parser.flags \cup {"F_UPGRADE"},
             x.type = parser.type, x.status_code = parser.status_code
      PROVE  Goes
  BY <1>5 DEF Break, Become, Goes, Moves, HeaderMoves, Among, Onward, Kept,
              SameType, SameStatus
<1>6. CASE Fail(q, <<>>, "INVALID_CONTENT_LENGTH")
  BY <1>3, <1>6, FailErrs DEF Goes
<1> QED
  BY <1>1, <1>2, <1>3, <1>4, <1>5, <1>6

\* The case ValueDiscardWs of the switch.
LEMMA ValueDiscardWsMoves == IInv /\ ValueDiscardWs => Goes
<1> SUFFICES ASSUME IInv, ValueDiscardWs PROVE Goes
  OBVIOUS
<1>1. Pass /\ parser.state = "s_header_value_discard_ws"
  BY DEF ValueDiscardWs, At, Pass
<1>2. \/ Break(parser, marks, <<>>)
      \/ \E s \in {"s_header_value_discard_ws_almost_done",
                   "s_header_value_discard_lws"} : Break(Goto(s), marks, <<>>)
      \/ StartOfValue
  BY DEF ValueDiscardWs
<1>3. CASE Break(parser, marks, <<>>)
  BY <1>1, <1>3, StayOnward DEF Goes, Moves, HeaderMoves, Among, Discards
<1>4. CASE \E s \in {"s_header_value_discard_ws_almost_done",
                     "s_header_value_discard_lws"} : Break(Goto(s), marks, <<>>)
  BY <1>1, <1>4, GotoOnward DEF Goes, Moves, HeaderMoves, Among, Discards
<1>5. CASE StartOfValue
  BY <1>1, <1>5, StartOfValueMoves
<1> QED
  BY <1>2, <1>3, <1>4, <1>5

\* The case ValueStart of the switch.
LEMMA ValueStartMoves == IInv /\ ValueStart => Goes
<1> SUFFICES ASSUME IInv, ValueStart PROVE Goes
  OBVIOUS
<1>1. Pass /\ parser.state = "s_header_value_start"
  BY DEF ValueStart, At, Pass
<1> QED
  BY <1>1, StartOfValueMoves DEF ValueStart

\* The end of a value's line.
LEMMA EndOfValueMoves ==
    ASSUME Pass, parser.state = "s_header_value", NEW q, q.state = "s_header_almost_done",
           q.http_errno = "OK", q.type = parser.type, q.flags = parser.flags,
           q.status_code = parser.status_code,
           \/ Break(q, Unmark("header_value"), Data("header_value", marks))
           \/ Reexecute(q, Unmark("header_value"), Data("header_value", marks))
    PROVE  Goes
<1>1. CASE Break(q, Unmark("header_value"), Data("header_value", marks))
  BY <1>1 DEF Break, Become, Goes, Moves, HeaderMoves, From, Onward, Kept,
              SameType, SameStatus
<1>2. CASE Reexecute(q, Unmark("header_value"), Data("header_value", marks))
  BY <1>2 DEF Reexecute, Become, Goes, Moves, HeaderMoves, From, Again, Kept,
              SameType, SameStatus
<1> QED
  BY <1>1, <1>2

\* Tokens of a Connection header and chunked coding are the flags they earn.
LEMMA NoTrailer == \A h : "F_TRAILING" \notin Earned(h)
  BY SMT DEF Earned, ValueFlag

\* The case HeaderValue of the switch.
LEMMA HeaderValueMoves == IInv /\ HeaderValue => Goes
<1> SUFFICES ASSUME IInv, HeaderValue PROVE Goes
  OBVIOUS
<1> DEFINE h == parser.header_state
           b == byte
           to == ValueState(b)
           next == b = "," /\ to = "h_matching_connection_token_start"
           ended == [Counted EXCEPT !.state = "s_header_almost_done"]
           number == [parser EXCEPT !.content_length = AddDigit(@, 10, Digit[b])]
           word == [parser EXCEPT !.header_state = to,
                      !.flags = IF next THEN @ \cup Earned(h) ELSE @,
                      !.index = CASE h \in DOMAIN ValueMatch -> @ + 1
                                  [] next -> 0
                                  [] OTHER -> @]
<1>1. Pass /\ parser.state = "s_header_value"
  BY DEF HeaderValue, At, Pass
<1>2. \/ Fail(ended, Data("header_value", marks), "HEADER_OVERFLOW")
      \/ Fail(ended, <<>>, "HEADER_OVERFLOW")
      \/ Break(ended, Unmark("header_value"), Data("header_value", marks))
      \/ Reexecute(ended, Unmark("header_value"), Data("header_value", marks))
      \/ \E e \in {"INVALID_HEADER_TOKEN", "INVALID_CONTENT_LENGTH"} :
            Fail(parser, <<>>, e)
      \/ \E x \in {parser, number, word} : \E j \in BOOLEAN : Inner(x, j)
  <2>1. CASE b \in {"CR", "LF"}
    BY <2>1 DEF HeaderValue
  <2>2. CASE b \notin {"CR", "LF"} /\ jumped
    BY <2>2 DEF HeaderValue
  <2>3. CASE b \notin {"CR", "LF"} /\ ~jumped
    BY <2>3 DEF HeaderValue
  <2> QED
    BY <2>1, <2>2, <2>3
<1>3. /\ ended.state = "s_header_almost_done" /\ ended.http_errno = "OK"
      /\ ended.type = parser.type /\ ended.flags = parser.flags
      /\ ended.status_code = parser.status_code
      /\ "http_errno" \in DOMAIN ended
  BY <1>1, CountedKeeps
<1>4. /\ number.state = parser.state /\ number.http_errno = "OK"
      /\ number.type = parser.type /\ number.flags = parser.flags
      /\ number.status_code = parser.status_code
  BY <1>1, PassParser, SMT DEF Parsers
<1>5. /\ word.state = parser.state /\ word.http_errno = "OK"
      /\ word.type = parser.type
      /\ word.flags = IF next THEN parser.flags \cup Earned(h) ELSE parser.flags
      /\ word.status_code = parser.status_code
  BY <1>1, PassParser, SMT DEF Parsers
<1> HIDE DEF ended, number, word, next
<1>6. \A x \in {parser, number, word} :
         /\ x.state = parser.state /\ x.http_errno = "OK"
         /\ x.type = parser.type /\ x.status_code = parser.status_code
         /\ parser.flags \subseteq x.flags
         /\ "F_TRAILING" \in x.flags => "F_TRAILING" \in parser.flags
  BY <1>1, <1>4, <1>5, PassParser, NoTrailer
<1>7. CASE Fail(ended, Data("header_value", marks), "HEADER_OVERFLOW")
  <2>1. [ended EXCEPT !.http_errno = "HEADER_OVERFLOW"].http_errno = "HEADER_OVERFLOW"
    BY <1>3, SMT
  <2> QED
    BY <1>1, <1>7, <2>1 DEF Fail, Return, Become, Errs, Goes
<1>8. CASE Fail(ended, <<>>, "HEADER_OVERFLOW")
  BY <1>1, <1>3, <1>8, FailErrs DEF Goes
<1>9. CASE \/ Break(ended, Unmark("header_value"), Data("header_value", marks))
           \/ Reexecute(ended, Unmark("header_value"), Data("header_value", marks))
  BY <1>1, <1>3, <1>9, EndOfValueMoves
<1>10. CASE \E e \in {"INVALID_HEADER_TOKEN", "INVALID_CONTENT_LENGTH"} :
               Fail(parser, <<>>, e)
  BY <1>1, <1>10, FailHereErrs DEF Goes
<1>11. CASE \E x \in {parser, number, word} : \E j \in BOOLEAN : Inner(x, j)
  BY <1>1, <1>6, <1>11, InnerMoves
<1> QED
  BY <1>2, <1>7, <1>8, <1>9, <1>10, <1>11

\* What a value earned is added to the flags.
LEMMA EarningKeeps ==
    ASSUME Pass, NEW s
    PROVE  LET q == [Earning EXCEPT !.state = s]
           IN  /\ q.state = s /\ q.http_errno = "OK"
               /\ q.type = parser.type /\ q.status_code = parser.status_code
               /\ parser.flags \subseteq q.flags
               /\ "F_TRAILING" \in q.flags => "F_TRAILING" \in parser.flags
<1> DEFINE q == [Earning EXCEPT !.state = s]
<1>1. /\ q.state = s /\ q.http_errno = "OK"
      /\ q.type = parser.type /\ q.status_code = parser.status_code
      /\ q.flags = parser.flags \cup Earned(parser.header_state)
  BY PassParser, SMT DEF Parsers, Earning
<1> HIDE DEF q
<1>2. /\ q.state = s /\ q.http_errno = "OK"
      /\ q.type = parser.type /\ q.status_code = parser.status_code
      /\ parser.flags \subseteq q.flags
      /\ "F_TRAILING" \in q.flags => "F_TRAILING" \in parser.flags
  BY <1>1, NoTrailer
<1> QED
  BY <1>2 DEF q

\* The case ValueLws of the switch.
LEMMA ValueLwsMoves == IInv /\ ValueLws => Goes
<1> SUFFICES ASSUME IInv, ValueLws PROVE Goes
  OBVIOUS
<1> DEFINE q == [Earning EXCEPT !.state = "s_header_field_start"]
<1>1. Pass /\ parser.state = "s_header_value_lws"
  BY DEF ValueLws, At, Pass
<1>2. \/ Reexecute(Goto("s_header_value_start"), marks, <<>>)
      \/ Reexecute(q, marks, <<>>)
  BY DEF ValueLws
<1>3. /\ q.state = "s_header_field_start" /\ q.http_errno = "OK"
      /\ q.type = parser.type /\ q.status_code = parser.status_code
      /\ parser.flags \subseteq q.flags
      /\ "F_TRAILING" \in q.flags => "F_TRAILING" \in parser.flags
  BY <1>1, EarningKeeps
<1> HIDE DEF q
<1>4. CASE Reexecute(Goto("s_header_value_start"), marks, <<>>)
  BY <1>1, <1>4, GotoAgain DEF Goes, Moves, HeaderMoves, Among
<1>5. CASE Reexecute(q, marks, <<>>)
  BY <1>1, <1>3, <1>5
     DEF Reexecute, Become, Goes, Moves, HeaderMoves, Among, Again, Kept,
         SameType, SameStatus
<1> QED
  BY <1>2, <1>4, <1>5

\* The case ValueDiscardLws of the switch.
LEMMA ValueDiscardLwsMoves == IInv /\ ValueDiscardLws => Goes
<1> SUFFICES ASSUME IInv, ValueDiscardLws PROVE Goes
  OBVIOUS
<1> DEFINE q == [Earning EXCEPT !.state = "s_header_field_start"]
           c == Data("header_value", MARK("header_value"))
<1>1. Pass /\ parser.state = "s_header_value_discard_lws"
  BY DEF ValueDiscardLws, At, Pass
<1>2. \/ Break(Goto("s_header_value_discard_ws"), marks, <<>>)
      \/ Reexecute(q, Unmark("header_value"), c)
  BY DEF ValueDiscardLws
<1>3. /\ q.state = "s_header_field_start" /\ q.http_errno = "OK"
      /\ q.type = parser.type /\ q.status_code = parser.status_code
      /\ parser.flags \subseteq q.flags
      /\ "F_TRAILING" \in q.flags => "F_TRAILING" \in parser.flags
  BY <1>1, EarningKeeps
<1> HIDE DEF q
<1>4. CASE Break(Goto("s_header_value_discard_ws"), marks, <<>>)
  BY <1>1, <1>4, GotoOnward DEF Goes, Moves, HeaderMoves, Among, Discards
<1>5. CASE Reexecute(q, Unmark("header_value"), c)
  BY <1>1, <1>3, <1>5
     DEF Reexecute, Become, Goes, Moves, HeaderMoves, From, Again, Kept,
         SameType, SameStatus
<1> QED
  BY <1>2, <1>4, <1>5

\* The case HeadersAlmostDone of the switch.
LEMMA HeadersAlmostDoneMoves == IInv /\ HeadersAlmostDone => Goes
<1> SUFFICES ASSUME IInv, HeadersAlmostDone PROVE Goes
  OBVIOUS
<1> DEFINE q == [parser EXCEPT !.state = "s_headers_done",
                   !.upgrade = \/ {"F_UPGRADE", "F_CONNECTION_UPGRADE"}
                                     \subseteq parser.flags
                               \/ parser.method = "CONNECT"]
<1>1. Pass /\ parser.state = "s_headers_almost_done"
  BY DEF HeadersAlmostDone, At, Pass
<1>2. \/ \E e \in {"STRICT", "UNEXPECTED_CONTENT_LENGTH"} : Fail(parser, <<>>, e)
      \/ /\ "F_TRAILING" \in parser.flags
         /\ Reexecute(Goto("s_message_done"), marks, Notify("chunk_complete"))
      \/ /\ "F_TRAILING" \notin parser.flags
         /\ Reexecute(q, marks, Notify("headers_complete"))
  BY DEF HeadersAlmostDone
<1>3. /\ q.state = "s_headers_done" /\ q.http_errno = "OK"
      /\ q.flags = parser.flags /\ q.type = parser.type
      /\ q.status_code = parser.status_code
  BY <1>1, PassParser, SMT DEF Parsers
<1> HIDE DEF q
<1>4. CASE \E e \in {"STRICT", "UNEXPECTED_CONTENT_LENGTH"} : Fail(parser, <<>>, e)
  BY <1>1, <1>4, FailHereErrs DEF Goes
<1>5. CASE /\ "F_TRAILING" \in parser.flags
           /\ Reexecute(Goto("s_message_done"), marks, Notify("chunk_complete"))
  BY <1>1, <1>5, GotoAgain DEF Goes, Moves, BodyMoves, From
<1>6. CASE /\ "F_TRAILING" \notin parser.flags
           /\ Reexecute(q, marks, Notify("headers_complete"))
  <2>1. /\ parser'.state = "s_headers_done" /\ parser'.http_errno = "OK"
        /\ Again(marks, Notify("headers_complete")) /\ Kept
    BY <1>3, <1>6 DEF Reexecute, Become, Again, Kept, SameType, SameStatus
  <2> QED
    BY <1>1, <1>6, <2>1 DEF Goes, Moves, BodyMoves, From
<1> QED
  BY <1>2, <1>4, <1>5, <1>6

\* The state for the message after this one.
LEMMA NewStateMoves ==
    /\ NEW_MESSAGE \in {"s_dead", "s_start_req", "s_start_res"}
    /\ NEW_MESSAGE = "s_start_req" => parser.type = "HTTP_REQUEST"
    /\ NEW_MESSAGE = "s_start_res" => parser.type # "HTTP_REQUEST"
  BY DEF NEW_MESSAGE

\* The message is over.
LEMMA OverMoves ==
    ASSUME Pass, parser.state \in {"s_headers_done", "s_message_done"}, NEW q,
           Complete(q, marks) \/ Break(q, marks, Notify("message_complete")),
           q.state = NEW_MESSAGE, q.http_errno = "OK", q.type = parser.type,
           q.status_code = parser.status_code, q.flags = parser.flags
    PROVE  Goes
<1>1. parser' = q /\ Kept
        /\ cb' = Notify("message_complete") /\ byte' = NoByte
        /\ \/ marks' = Advance(marks) /\ call' = call
           \/ marks' = NoMarks /\ call' = "idle"
  BY DEF Complete, Return, Break, Become, Kept, SameType, SameStatus
<1> QED
  BY <1>1, NewStateMoves DEF Goes, Moves, EndMoves, Among

\* The case HeadersDone of the switch.
LEMMA HeadersDoneMoves == IInv /\ HeadersDone => Goes
<1> SUFFICES ASSUME IInv, HeadersDone PROVE Goes
  OBVIOUS
<1> DEFINE q == [parser EXCEPT !.nread = 0]
           to(s) == [q EXCEPT !.state = s]
           finished == [q EXCEPT !.state = NEW_MESSAGE]
           bodies == {"s_chunk_size_start", "s_body_identity",
                      "s_body_identity_eof"}
<1>1. Pass /\ parser.state = "s_headers_done"
  BY DEF HeadersDone, At, Pass
<1>2. \/ Fail(parser, <<>>, "STRICT")
      \/ Complete(finished, marks)
      \/ Break(finished, marks, Notify("message_complete"))
      \/ \E s \in bodies : Break(to(s), marks, <<>>)
  BY DEF HeadersDone
<1>3. \A s : /\ to(s).state = s /\ to(s).http_errno = "OK"
             /\ to(s).flags = parser.flags /\ to(s).type = parser.type
             /\ to(s).status_code = parser.status_code
  BY <1>1, PassParser, SMT DEF Parsers
<1>4. finished = to(NEW_MESSAGE)
  OBVIOUS
<1> HIDE DEF q, to, finished
<1>5. CASE Fail(parser, <<>>, "STRICT")
  BY <1>1, <1>5, FailHereErrs DEF Goes
<1>6. CASE \/ Complete(finished, marks)
           \/ Break(finished, marks, Notify("message_complete"))
  BY <1>1, <1>3, <1>4, <1>6, OverMoves
<1>7. CASE \E s \in bodies : Break(to(s), marks, <<>>)
  <2>1. PICK s \in bodies : Break(to(s), marks, <<>>)
    BY <1>7
  <2>2. parser'.state = s /\ parser'.http_errno = "OK" /\ Kept
          /\ Onward(marks, <<>>)
    BY <1>3, <2>1 DEF Break, Become, Onward, Kept, SameType, SameStatus
  <2> QED
    BY <1>1, <2>1, <2>2 DEF Goes, Moves, BodyMoves, Among
<1> QED
  BY <1>2, <1>5, <1>6, <1>7

\* The case BodyIdentity of the switch.
LEMMA BodyIdentityMoves == IInv /\ BodyIdentity => Goes
<1> SUFFICES ASSUME IInv, BodyIdentity PROVE Goes
  OBVIOUS
<1> DEFINE q == [parser EXCEPT !.content_length = @ - 1]
           last == [q EXCEPT !.state = "s_message_done"]
           c == Data("body", Advance(MARK("body")))
<1>1. Pass /\ parser.state = "s_body_identity"
  BY DEF BodyIdentity, At, Pass
<1>2. \/ Reexecute(last, Unmark("body"), c)
      \/ Break(q, MARK("body"), <<>>)
  BY DEF BodyIdentity
<1>3. /\ q.state = parser.state /\ last.state = "s_message_done"
      /\ \A x \in {q, last} :
            /\ x.http_errno = "OK"
            /\ x.flags = parser.flags /\ x.type = parser.type
            /\ x.status_code = parser.status_code
  BY <1>1, PassParser, SMT DEF Parsers
<1> HIDE DEF q, last
<1>4. CASE Reexecute(last, Unmark("body"), c)
  <2>1. parser'.state = "s_message_done" /\ parser'.http_errno = "OK" /\ Kept
          /\ Again(Unmark("body"), c) /\ parser'.flags = parser.flags
    BY <1>3, <1>4 DEF Reexecute, Become, Again, Kept, SameType, SameStatus
  <2> QED
    BY <1>1, <2>1 DEF Goes, Moves, BodyMoves, From
<1>5. CASE Break(q, MARK("body"), <<>>)
  <2>1. parser'.state = parser.state /\ parser'.http_errno = "OK" /\ Kept
          /\ Onward(MARK("body"), <<>>)
    BY <1>3, <1>5 DEF Break, Become, Onward, Kept, SameType, SameStatus
  <2> QED
    BY <1>1, <2>1 DEF Goes, Moves, BodyMoves, From
<1> QED
  BY <1>2, <1>4, <1>5

\* The case BodyIdentityEof of the switch.
LEMMA BodyIdentityEofMoves == IInv /\ BodyIdentityEof => Goes
<1> SUFFICES ASSUME IInv, BodyIdentityEof PROVE Goes
  OBVIOUS
<1>1. Pass /\ parser.state = "s_body_identity_eof" /\ Break(parser, MARK("body"), <<>>)
  BY DEF BodyIdentityEof, At, Pass
<1> QED
  BY <1>1, StayOnward DEF Goes, Moves, BodyMoves, From

\* The case MessageDone of the switch.
LEMMA MessageDoneMoves == IInv /\ MessageDone => Goes
<1> SUFFICES ASSUME IInv, MessageDone PROVE Goes
  OBVIOUS
<1> DEFINE q == Goto(NEW_MESSAGE)
<1>1. Pass /\ parser.state = "s_message_done" /\ Complete(q, marks)
  BY DEF MessageDone, At, Pass
<1>2. /\ q.state = NEW_MESSAGE /\ q.http_errno = "OK"
      /\ q.flags = parser.flags /\ q.type = parser.type
      /\ q.status_code = parser.status_code
  BY <1>1, PassParser, SMT DEF Parsers, Goto
<1> HIDE DEF q
<1> QED
  BY <1>1, <1>2, OverMoves

\* The sizes of chunks.
LEMMA SizeMoves ==
    ASSUME Pass, parser.state \in ChunkSizeStates, NEW q, Break(q, marks, <<>>),
           q.state \in ChunkSizeStates, q.http_errno = "OK", q.flags = parser.flags,
           q.type = parser.type, q.status_code = parser.status_code
    PROVE  Goes
<1>1. parser' = q /\ Onward(marks, <<>>) /\ Kept
  BY DEF Break, Become, Onward, Kept, SameType, SameStatus
<1> QED
  BY <1>1 DEF Goes, Moves, BodyMoves, Among

\* The case ChunkSizeStart of the switch.
LEMMA ChunkSizeStartMoves == IInv /\ ChunkSizeStart => Goes
<1> SUFFICES ASSUME IInv, ChunkSizeStart PROVE Goes
  OBVIOUS
<1> DEFINE q == [parser EXCEPT !.content_length = Unhex(byte),
                               !.state = "s_chunk_size"]
<1>1. Pass /\ parser.state = "s_chunk_size_start"
  BY DEF ChunkSizeStart, At, Pass
<1>2. Break(q, marks, <<>>) \/ Fail(parser, <<>>, "INVALID_CHUNK_SIZE")
  BY DEF ChunkSizeStart
<1>3. /\ q.state = "s_chunk_size" /\ q.http_errno = "OK"
      /\ q.flags = parser.flags /\ q.type = parser.type
      /\ q.status_code = parser.status_code
  BY <1>1, PassParser, SMT DEF Parsers
<1> HIDE DEF q
<1>4. CASE Break(q, marks, <<>>)
  BY <1>1, <1>3, <1>4, SizeMoves DEF ChunkSizeStates
<1>5. CASE Fail(parser, <<>>, "INVALID_CHUNK_SIZE")
  BY <1>1, <1>5, FailHereErrs DEF Goes
<1> QED
  BY <1>2, <1>4, <1>5

\* The case ChunkSize of the switch.
LEMMA ChunkSizeMoves == IInv /\ ChunkSize => Goes
<1> SUFFICES ASSUME IInv, ChunkSize PROVE Goes
  OBVIOUS
<1> DEFINE q == [parser EXCEPT !.content_length = AddDigit(@, 16, Unhex(byte))]
           to(s) == Goto(s)
           next == {"s_chunk_size_almost_done", "s_chunk_parameters"}
<1>1. Pass /\ parser.state = "s_chunk_size"
  BY DEF ChunkSize, At, Pass
<1>2. \/ \E s \in next : Break(to(s), marks, <<>>)
      \/ Break(q, marks, <<>>)
      \/ \E e \in {"INVALID_CONTENT_LENGTH", "INVALID_CHUNK_SIZE"} :
            Fail(parser, <<>>, e)
  BY DEF ChunkSize
<1>3. /\ q.state = parser.state /\ q.http_errno = "OK"
      /\ q.flags = parser.flags /\ q.type = parser.type
      /\ q.status_code = parser.status_code
  BY <1>1, PassParser, SMT DEF Parsers
<1>4. \A s : /\ to(s).state = s /\ to(s).http_errno = "OK"
             /\ to(s).flags = parser.flags /\ to(s).type = parser.type
             /\ to(s).status_code = parser.status_code
  BY <1>1, PassParser, SMT DEF Parsers, Goto
<1> HIDE DEF q, to
<1>5. CASE \E s \in next : Break(to(s), marks, <<>>)
  BY <1>1, <1>4, <1>5, SizeMoves DEF ChunkSizeStates
<1>6. CASE Break(q, marks, <<>>)
  BY <1>1, <1>3, <1>6, SizeMoves DEF ChunkSizeStates
<1>7. CASE \E e \in {"INVALID_CONTENT_LENGTH", "INVALID_CHUNK_SIZE"} :
              Fail(parser, <<>>, e)
  BY <1>1, <1>7, FailHereErrs DEF Goes
<1> QED
  BY <1>2, <1>5, <1>6, <1>7

\* The case ChunkParameters of the switch.
LEMMA ChunkParametersMoves == IInv /\ ChunkParameters => Goes
<1> SUFFICES ASSUME IInv, ChunkParameters PROVE Goes
  OBVIOUS
<1> DEFINE q == IF byte = "CR" THEN Goto("s_chunk_size_almost_done") ELSE parser
<1>1. Pass /\ parser.state = "s_chunk_parameters" /\ Break(q, marks, <<>>)
  BY DEF ChunkParameters, At, Pass
<1>2. /\ q.state \in {"s_chunk_size_almost_done", "s_chunk_parameters"}
      /\ q.http_errno = "OK"
      /\ q.flags = parser.flags /\ q.type = parser.type
      /\ q.status_code = parser.status_code
  BY <1>1, PassParser, SMT DEF Parsers, Goto
<1> HIDE DEF q
<1> QED
  BY <1>1, <1>2, SizeMoves DEF ChunkSizeStates

\* The case ChunkSizeAlmostDone of the switch.
LEMMA ChunkSizeAlmostDoneMoves == IInv /\ ChunkSizeAlmostDone => Goes
<1> SUFFICES ASSUME IInv, ChunkSizeAlmostDone PROVE Goes
  OBVIOUS
<1> DEFINE q == [parser EXCEPT !.nread = 0]
           trailer == [q EXCEPT !.flags = @ \cup {"F_TRAILING"},
                                !.state = "s_header_field_start"]
           data == [q EXCEPT !.state = "s_chunk_data"]
<1>1. Pass /\ parser.state = "s_chunk_size_almost_done"
  BY DEF ChunkSizeAlmostDone, At, Pass
<1>2. \/ Fail(parser, <<>>, "STRICT")
      \/ Break(trailer, marks, Notify("chunk_header"))
      \/ Break(data, marks, Notify("chunk_header"))
  BY DEF ChunkSizeAlmostDone
<1>3. /\ trailer.state = "s_header_field_start" /\ trailer.http_errno = "OK"
      /\ trailer.flags = parser.flags \cup {"F_TRAILING"}
      /\ trailer.type = parser.type
      /\ trailer.status_code = parser.status_code
  BY <1>1, PassParser, SMT DEF Parsers
<1>4. /\ data.state = "s_chunk_data" /\ data.http_errno = "OK"
      /\ data.flags = parser.flags /\ data.type = parser.type
      /\ data.status_code = parser.status_code
  BY <1>1, PassParser, SMT DEF Parsers
<1> HIDE DEF trailer, data
<1>5. CASE Fail(parser, <<>>, "STRICT")
  BY <1>1, <1>5, FailHereErrs DEF Goes
<1>6. CASE Break(trailer, marks, Notify("chunk_header"))
  BY <1>1, <1>3, <1>6
     DEF Break, Become, Onward, SameType, SameStatus, Goes, Moves, BodyMoves, From
<1>7. CASE Break(data, marks, Notify("chunk_header"))
  <2>1. parser'.state = "s_chunk_data" /\ parser'.http_errno = "OK" /\ Kept
          /\ Onward(marks, Notify("chunk_header"))
    BY <1>4, <1>7 DEF Break, Become, Onward, Kept, SameType, SameStatus
  <2> QED
    BY <1>1, <2>1 DEF Goes, Moves, BodyMoves, From
<1> QED
  BY <1>2, <1>5, <1>6, <1>7

\* The case ChunkData of the switch.
LEMMA ChunkDataMoves == IInv /\ ChunkData => Goes
<1> SUFFICES ASSUME IInv, ChunkData PROVE Goes
  OBVIOUS
<1>1. CASE At("s_chunk_data")
  <2> DEFINE q == [parser EXCEPT !.content_length = @ - 1,
                     !.state = IF parser.content_length = 1
                                 THEN "s_chunk_data_almost_done" ELSE @]
  <2>1. Pass /\ parser.state = "s_chunk_data"
    BY <1>1 DEF At, Pass
  <2>2. Break(q, MARK("body"), <<>>)
    BY <1>1 DEF ChunkData, At
  <2>3. /\ q.state \in {"s_chunk_data", "s_chunk_data_almost_done"}
        /\ q.http_errno = "OK"
        /\ q.flags = parser.flags /\ q.type = parser.type
        /\ q.status_code = parser.status_code
    BY <2>1, PassParser, SMT DEF Parsers
  <2> HIDE DEF q
  <2>4. parser' = q /\ Kept /\ Onward(MARK("body"), <<>>)
    BY <2>2, <2>3 DEF Break, Become, Onward, Kept, SameType, SameStatus
  <2> QED
    BY <2>1, <2>3, <2>4 DEF Goes, Moves, BodyMoves, Among
<1>2. CASE At("s_chunk_data_almost_done")
  <2>1. Pass /\ parser.state = "s_chunk_data_almost_done"
    BY <1>2 DEF At, Pass
  <2>2. \/ Fail(parser, <<>>, "STRICT")
        \/ Break(Goto("s_chunk_data_done"), Unmark("body"), Data("body", marks))
    BY <1>2 DEF ChunkData, At
  <2>3. CASE Fail(parser, <<>>, "STRICT")
    BY <2>1, <2>3, FailHereErrs DEF Goes
  <2>4. CASE Break(Goto("s_chunk_data_done"), Unmark("body"), Data("body", marks))
    <3>1. parser'.state = "s_chunk_data_done" /\ parser'.http_errno = "OK" /\ Kept
            /\ Onward(Unmark("body"), Data("body", marks))
      BY <2>1, <2>4, GotoOnward
    <3> QED
      BY <2>1, <3>1 DEF Goes, Moves, BodyMoves, From
  <2> QED
    BY <2>2, <2>3, <2>4
<1>3. CASE At("s_chunk_data_done")
  <2> DEFINE q == [parser EXCEPT !.nread = 0, !.state = "s_chunk_size_start"]
  <2>1. Pass /\ parser.state = "s_chunk_data_done"
    BY <1>3 DEF At, Pass
  <2>2. \/ Fail(parser, <<>>, "STRICT")
        \/ Break(q, marks, Notify("chunk_complete"))
    BY <1>3 DEF ChunkData, At
  <2>3. /\ q.state = "s_chunk_size_start" /\ q.http_errno = "OK"
        /\ q.flags = parser.flags /\ q.type = parser.type
        /\ q.status_code = parser.status_code
    BY <2>1, PassParser, SMT DEF Parsers
  <2> HIDE DEF q
  <2>4. CASE Fail(parser, <<>>, "STRICT")
    BY <2>1, <2>4, FailHereErrs DEF Goes
  <2>5. CASE Break(q, marks, Notify("chunk_complete"))
    <3>1. parser' = q /\ Kept /\ Onward(marks, Notify("chunk_complete"))
      BY <2>3, <2>5 DEF Break, Become, Onward, Kept, SameType, SameStatus
    <3> QED
      BY <2>1, <2>3, <3>1 DEF Goes, Moves, BodyMoves, From
  <2> QED
    BY <2>2, <2>4, <2>5
<1> QED
  BY <1>1, <1>2, <1>3 DEF ChunkData

\* Every pass through the switch is one of the moves or an error.
LEMMA ExecuteMoves == IInv /\ Execute => Goes
  BY DeadMoves, StartReqOrResMoves, ResOrRespHMoves, StartResMoves, StartReqMoves,
     ReqMethodMoves, SpacesBeforeUrlMoves, UrlHeadMoves, UrlTailMoves,
     ReqHttpStartMoves, ExpectByteMoves, VersionMoves, StatusCodeMoves,
     StatusTextMoves, HeaderFieldStartMoves, HeaderFieldMoves, ValueDiscardWsMoves,
     ValueStartMoves, HeaderValueMoves, ValueLwsMoves, ValueDiscardLwsMoves,
     HeadersAlmostDoneMoves, HeadersDoneMoves, BodyIdentityMoves,
     BodyIdentityEofMoves, MessageDoneMoves, ChunkSizeStartMoves, ChunkSizeMoves,
     ChunkParametersMoves, ChunkSizeAlmostDoneMoves, ChunkDataMoves DEF Execute
-----------------------------------------------------------------------------
(* The order of the callbacks. *)

\* The states of the first line of a message.
Lines == {"s_res_or_resp_H", "s_res_status", "s_res_line_almost_done"}
           \cup RequestLine \cup UrlStates \cup BeforeReason
InHeaders == HeaderStates \cup {"s_headers_almost_done"}
InBody == BodyStates \cup ChunkSizeStates \cup {"s_headers_done"}

\* The trailer of a body belongs to chunks, no first line is one of a trailer, and
\* a first line is of the kind that the type of the parser says.
KindInv ==
    parser.http_errno = "OK" =>
      /\ "F_TRAILING" \in parser.flags => "F_CHUNKED" \in parser.flags
      /\ s_now \in Lines => "F_TRAILING" \notin parser.flags
      /\ s_now \in {"s_start_req_or_res", "s_res_or_resp_H"}
           => parser.type = "HTTP_BOTH"
      /\ s_now \in BeforeReason \cup {"s_start_res", "s_res_status",
                                      "s_res_line_almost_done"}
           => parser.type = "HTTP_RESPONSE"

\* The parts of a message have no state in common.
LEMMA PartNames ==
    /\ \A s \in Lines : s \notin StartStates \cup InHeaders \cup InBody \cup {"s_dead"}
    /\ \A s \in InHeaders : s \notin StartStates \cup InBody \cup {"s_dead"}
    /\ \A s \in InBody : s \notin StartStates \cup {"s_dead"}
    /\ "s_dead" \notin StartStates
  BY SMT DEF Lines, RequestLine, UrlStates, UrlHeads, UrlTails, BeforeReason,
     InHeaders, HeaderStates, InBody, BodyStates, ChunkDataStates,
     ChunkSizeStates, StartStates

\* The states whose kind KindInv tells, by name.
LEMMA KindNames ==
    /\ BeforeReason \subseteq Lines /\ RequestLine \subseteq Lines
    /\ UrlStates \subseteq Lines
    /\ {"s_res_or_resp_H", "s_res_status", "s_res_line_almost_done"} \subseteq Lines
    /\ \A s \in RequestLine \cup UrlStates \cup InHeaders \cup InBody :
          s \notin BeforeReason
             \cup {"s_start_res", "s_res_status", "s_res_line_almost_done",
                   "s_start_req_or_res", "s_res_or_resp_H"}
    /\ \A s \in BeforeReason \cup {"s_res_line_almost_done", "s_res_status"} :
          s \notin {"s_start_req_or_res", "s_res_or_resp_H"}
    /\ "s_start_req" \notin BeforeReason /\ "s_dead" \notin BeforeReason
    /\ "s_res_or_resp_H" \notin BeforeReason
    /\ "s_start_req_or_res" \notin BeforeReason
    /\ "s_start_res" \notin Lines /\ "s_start_req" \notin Lines
    /\ "s_start_req_or_res" \notin Lines /\ "s_dead" \notin Lines
  BY SMT DEF Lines, RequestLine, UrlStates, UrlHeads, UrlTails, BeforeReason,
     InHeaders, HeaderStates, InBody, BodyStates, ChunkDataStates,
     ChunkSizeStates

\* KindInv is kept by the first byte of a message.
LEMMA KindBegins ==
    ASSUME Pass, KindInv, parser'.http_errno = "OK", BeginMoves
    PROVE  KindInv'
  BY PassParser, KindNames, SMT
     DEF KindInv, BeginMoves, From, Kept, SameType, s_now, BeforeReason, RequestLine

\* KindInv is kept by the first line.
LEMMA KindLines ==
    ASSUME Pass, KindInv, parser'.http_errno = "OK", LineMoves
    PROVE  KindInv'
<1>1. parser.http_errno = "OK"
  BY PassParser
<1>2. /\ "s_header_field_start" \in InHeaders
      /\ {"s_req_http_start", "s_req_line_almost_done"} \subseteq RequestLine
      /\ "s_req_spaces_before_url" \in RequestLine
      /\ "s_res_status_start" \in BeforeReason
  BY DEF InHeaders, HeaderStates, RequestLine, BeforeReason
<1>3. CASE Among(RequestLine \cup UrlStates,
                 RequestLine \cup UrlStates \cup {"s_header_field_start"}) /\ Kept
  BY <1>1, <1>2, <1>3, KindNames, PartNames DEF KindInv, Among, Kept, SameType, s_now
<1>4. CASE /\ Among(BeforeReason \cup {"s_res_line_almost_done", "s_res_status"},
                    BeforeReason \cup {"s_res_line_almost_done", "s_res_status",
                                       "s_header_field_start"})
           /\ SameType /\ (Kept \/ parser'.flags = parser.flags)
  <2>1. /\ parser'.type = "HTTP_RESPONSE"
        /\ "F_TRAILING" \notin parser.flags /\ "F_TRAILING" \notin parser'.flags
    BY <1>1, <1>4, KindNames DEF KindInv, Among, Kept, SameType, s_now
  <2> QED
    BY <1>1, <1>2, <1>4, <2>1, KindNames, PartNames DEF KindInv, Among, s_now
<1> QED
  BY <1>2, <1>3, <1>4 DEF LineMoves, Among, From, Kept

\* KindInv is kept by the headers and the body.
LEMMA KindGoesOn ==
    ASSUME Pass, KindInv, parser'.http_errno = "OK",
           HeaderMoves \/ EndMoves \/ BodyMoves
    PROVE  KindInv'
<1>1. parser.http_errno = "OK" /\ FramingInv(parser)
  BY PassFacts DEF ParserInv
<1>2. CASE /\ parser'.state \in InHeaders \cup InBody
           /\ \/ Kept
              \/ /\ parser.state \in ChunkSizeStates
                 /\ parser'.flags = parser.flags \cup {"F_TRAILING"}
  BY <1>1, <1>2, KindNames, PartNames DEF KindInv, FramingInv, Kept, s_now
<1>3. CASE EndMoves
  <2>1. /\ parser'.state \in {"s_dead", "s_start_req", "s_start_res"}
        /\ parser'.state = "s_start_res" => parser.type # "HTTP_REQUEST"
        /\ parser.state \in {"s_headers_done", "s_message_done"}
        /\ Kept
    BY <1>3 DEF EndMoves, Among
  <2>2. parser.type # "HTTP_BOTH"
    BY <1>1, <2>1 DEF FramingInv
  <2>3. parser.type \in {"HTTP_REQUEST", "HTTP_RESPONSE", "HTTP_BOTH"}
    BY PassParser, SMT DEF Parsers
  <2>4. parser'.state = "s_start_res" => parser'.type = "HTTP_RESPONSE"
    BY <2>1, <2>2, <2>3 DEF Kept, SameType
  <2>5. /\ parser'.state \notin Lines
        /\ parser'.state \notin {"s_start_req_or_res", "s_res_or_resp_H"}
        /\ parser'.state \notin BeforeReason \cup {"s_res_status",
                                                   "s_res_line_almost_done"}
    BY <2>1, KindNames
  <2> QED
    BY <1>1, <2>1, <2>4, <2>5 DEF KindInv, Kept, s_now
<1>4. CASE HeaderMoves
  <2>1. parser'.state \in InHeaders /\ Kept
    BY <1>4 DEF HeaderMoves, From, Among, Discards, InHeaders, HeaderStates
  <2> QED
    BY <1>2, <2>1
<1>5. CASE BodyMoves
  <2>1. /\ parser'.state \in InHeaders \cup InBody
        /\ \/ Kept
           \/ /\ parser.state \in ChunkSizeStates
              /\ parser'.flags = parser.flags \cup {"F_TRAILING"}
    BY <1>5 DEF BodyMoves, From, Among, InHeaders, HeaderStates, InBody,
       BodyStates, ChunkDataStates, ChunkSizeStates
  <2> QED
    BY <1>2, <2>1
<1> QED
  BY <1>3, <1>4, <1>5

\* The switch is executed on a byte, in a call.
LEMMA ExecutePass == ASSUME IInv, Execute PROVE Pass
  BY DEF Execute, Pass, At, Dead, StartReqOrRes, ResOrRespH, StartRes, StartReq,
     ReqMethod, SpacesBeforeUrl, UrlHead, UrlTail, ReqHttpStart, ExpectByte,
     Version, StatusCode, StatusText, HeaderFieldStart, HeaderField,
     ValueDiscardWs, ValueStart, HeaderValue, ValueLws, ValueDiscardLws,
     HeadersAlmostDone, HeadersDone, BodyIdentity, BodyIdentityEof, MessageDone,
     ChunkSizeStart, ChunkSize, ChunkParameters, ChunkSizeAlmostDone, ChunkData

\* KindInv is kept by the switch.
LEMMA KindKept == IInv /\ KindInv /\ Execute => KindInv'
<1> SUFFICES ASSUME IInv, KindInv, Execute PROVE KindInv'
  OBVIOUS
<1>1. Pass
  BY ExecutePass
<1>2. Moves \/ Errs
  BY ExecuteMoves DEF Goes
<1>3. CASE Errs
  BY <1>3 DEF Errs, KindInv
<1>4. CASE Moves
  BY <1>1, <1>4, KindBegins, KindLines, KindGoesOn DEF Moves
<1> QED
  BY <1>2, <1>3, <1>4

\* The phase that a parser with the fields q is in, and of a call that is over.
PhaseIn(q, over) ==
    IF q.http_errno # "OK" \/ q.state = "s_dead" \/ over THEN "closed"
    ELSE IF q.state \in StartStates THEN "between"
    ELSE IF \/ q.state \in BodyStates \cup ChunkSizeStates \cup {"s_headers_done"}
            \/ "F_TRAILING" \in q.flags THEN "body"
    ELSE "head"

\* The phase of the model is that of its parser.
LEMMA PhaseNow ==
    /\ Phase = PhaseIn(parser, call = "ended")
    /\ Phase' = PhaseIn(parser', call' = "ended")
  BY DEF Phase, PhaseIn, s_now

\* The phases, part by part of a message.
LEMMA PhaseTable ==
    ASSUME NEW q, NEW over
    PROVE  /\ q.http_errno # "OK" \/ over => PhaseIn(q, over) = "closed"
           /\ q.http_errno = "OK" /\ ~over =>
                /\ q.state = "s_dead" => PhaseIn(q, over) = "closed"
                /\ q.state \in StartStates => PhaseIn(q, over) = "between"
                /\ q.state \in InBody => PhaseIn(q, over) = "body"
                /\ q.state \in Lines /\ "F_TRAILING" \notin q.flags
                     => PhaseIn(q, over) = "head"
                /\ q.state \in InHeaders
                     => PhaseIn(q, over) = IF "F_TRAILING" \in q.flags
                                             THEN "body" ELSE "head"
<1>1. CASE q.http_errno # "OK" \/ over
  BY <1>1 DEF PhaseIn
<1>2. CASE q.http_errno = "OK" /\ ~over
  <2>1. q.state = "s_dead" => PhaseIn(q, over) = "closed"
    BY <1>2 DEF PhaseIn
  <2>2. q.state \in StartStates => PhaseIn(q, over) = "between"
    BY <1>2, PartNames DEF PhaseIn
  <2>3. q.state \in InBody => PhaseIn(q, over) = "body"
    BY <1>2, PartNames DEF PhaseIn, InBody
  <2>4. q.state \in Lines /\ "F_TRAILING" \notin q.flags => PhaseIn(q, over) = "head"
    BY <1>2, PartNames DEF PhaseIn, InBody
  <2>5. q.state \in InHeaders
          => PhaseIn(q, over) = IF "F_TRAILING" \in q.flags THEN "body" ELSE "head"
    BY <1>2, PartNames DEF PhaseIn, InBody
  <2> QED
    BY <1>2, <2>1, <2>2, <2>3, <2>4, <2>5
<1> QED
  BY <1>1, <1>2

\* While the switch is executed: what the phases are before and after it.
LEMMA PhaseSteps ==
    ASSUME Pass, KindInv, KindInv', parser'.http_errno = "OK", call' # "ended"
    PROVE  /\ parser.state = "s_dead" => Phase = "closed"
           /\ parser.state \in StartStates => Phase = "between"
           /\ parser.state \in InBody => Phase = "body"
           /\ parser.state \in Lines => Phase = "head"
           /\ parser.state \in InHeaders =>
                Phase = IF "F_TRAILING" \in parser.flags THEN "body" ELSE "head"
           /\ parser'.state = "s_dead" => Phase' = "closed"
           /\ parser'.state \in StartStates => Phase' = "between"
           /\ parser'.state \in InBody => Phase' = "body"
           /\ parser'.state \in Lines => Phase' = "head"
           /\ parser'.state \in InHeaders =>
                Phase' = IF "F_TRAILING" \in parser'.flags THEN "body" ELSE "head"
<1>1. parser.http_errno = "OK" /\ call # "ended"
  BY PassParser DEF Pass
<1>2. /\ parser.state \in Lines => "F_TRAILING" \notin parser.flags
      /\ parser'.state \in Lines => "F_TRAILING" \notin parser'.flags
  BY <1>1 DEF KindInv, s_now
<1> QED
  BY <1>1, <1>2, PhaseNow, PhaseTable

\* A callback without text, and one with.
LEMMA CalledNotify ==
    ASSUME NEW n, NEW N, n \in N, cb' = Notify(n)
    PROVE  Events!Called(N)
<1>1. Len(<<[on |-> n, len |-> 0]>>) = 1 /\ <<[on |-> n, len |-> 0]>>[1].on = n
  BY SMT
<1> QED
  BY <1>1 DEF Events!Called, Notify

\* A text is handed over, unless nothing of it is marked.
LEMMA CalledData ==
    ASSUME NEW t, NEW N, t \in N, NEW mk, cb' = Data(t, mk)
    PROVE  cb' = <<>> \/ Events!Called(N)
<1>1. CASE mk[t] = NoMark
  BY <1>1 DEF Data
<1>2. CASE mk[t] # NoMark
  <2> DEFINE n == mk[t]
  <2>1. cb' = <<[on |-> t, len |-> n]>>
    BY <1>2 DEF Data
  <2> HIDE DEF n
  <2>2. Len(<<[on |-> t, len |-> n]>>) = 1 /\ <<[on |-> t, len |-> n]>>[1].on = t
    BY SMT
  <2> QED
    BY <2>1, <2>2 DEF Events!Called
<1> QED
  BY <1>1, <1>2

\* The beginning of a message is told in order.
LEMMA BeginsInOrder ==
    ASSUME Pass, KindInv, KindInv', parser'.http_errno = "OK", BeginMoves
    PROVE  Events!Next
<1>1. call' # "ended"
  BY DEF BeginMoves, Onward, Again, Pass
<1>2. /\ parser.state \in StartStates => Phase = "between"
      /\ parser.state = "s_dead" => Phase = "closed"
      /\ parser.state = "s_res_or_resp_H" => Phase = "head"
      /\ parser'.state \in StartStates => Phase' = "between"
      /\ parser'.state = "s_dead" => Phase' = "closed"
      /\ parser'.state \in {"s_res_or_resp_H", "s_res_H", "s_res_HT", "s_req_method"}
           => Phase' = "head"
  BY <1>1, PhaseSteps DEF Lines, BeforeReason, RequestLine
<1>3. CASE cb' = <<>>
  <2>1. Phase' = Phase
    <3>1. ~\E c \in {<<>>} : c = Notify("message_begin")
      BY SMT DEF Notify
    <3> QED
      BY <1>2, <1>3, <3>1 DEF BeginMoves, Onward, Again, From, StartStates
  <2> QED
    BY <1>3, <2>1 DEF Events!Next, Events!Silent
<1>4. CASE cb' # <<>>
  <2>1. /\ cb' = Notify("message_begin")
        /\ Phase = "between" /\ Phase' \in {"head", "between"}
    BY <1>2, <1>4 DEF BeginMoves, Onward, Again, From, StartStates
  <2>2. Events!Called({"message_begin"})
    BY <2>1, CalledNotify
  <2> QED
    BY <2>1, <2>2 DEF Events!Next, Events!Begin
<1> QED
  BY <1>3, <1>4

\* The first line is told in order.
LEMMA LinesInOrder ==
    ASSUME Pass, KindInv, KindInv', parser'.http_errno = "OK", LineMoves
    PROVE  Events!Next
<1>1. call' # "ended"
  BY DEF LineMoves, Onward, Again, Pass
<1>2. /\ parser.state \in Lines
      /\ parser'.state \in Lines \cup {"s_header_field_start"}
      /\ "F_TRAILING" \notin parser'.flags
  <2>1. /\ parser.state \in Lines
        /\ parser'.state \in Lines \cup {"s_header_field_start"}
        /\ Kept \/ parser'.flags = parser.flags
    BY DEF LineMoves, Among, From, Lines, RequestLine, BeforeReason, Kept
  <2>2. "F_TRAILING" \notin parser.flags
    BY <2>1, PassParser DEF KindInv, s_now
  <2> QED
    BY <2>1, <2>2 DEF Kept
<1>3. Phase = "head" /\ Phase' = "head"
  BY <1>1, <1>2, PhaseSteps DEF InHeaders, HeaderStates
<1>4. cb' = <<>> \/ \E t \in {"url", "status"} : cb' = Data(t, marks)
  BY DEF LineMoves, Onward
<1>5. cb' = <<>> \/ Events!Called({"url", "status"})
  BY <1>4, CalledData
<1> QED
  BY <1>3, <1>5 DEF Events!Next, Events!Text, Events!Silent

\* The headers are told in order.
LEMMA HeadersInOrder ==
    ASSUME Pass, KindInv, KindInv', parser'.http_errno = "OK", HeaderMoves
    PROVE  Events!Next
<1>1. call' # "ended"
  BY DEF HeaderMoves, Onward, Again, Pass
<1>2. /\ parser.state \in InHeaders /\ parser'.state \in InHeaders
      /\ "F_TRAILING" \in parser'.flags <=> "F_TRAILING" \in parser.flags
  BY DEF HeaderMoves, Among, From, Discards, InHeaders, HeaderStates, Kept
<1>3. Phase \in {"head", "body"} /\ Phase' = Phase
  BY <1>1, <1>2, PhaseSteps
<1>4. cb' = <<>> \/ \E t \in {"header_field", "header_value"} :
                       \E mk \in {marks, MARK("header_value")} : cb' = Data(t, mk)
  BY DEF HeaderMoves, Onward, Again
<1>5. cb' = <<>> \/ Events!Called({"header_field", "header_value"})
  BY <1>4, CalledData
<1> QED
  BY <1>3, <1>5 DEF Events!Next, Events!Text, Events!Silent

\* The end of a message is told in order.
LEMMA EndsInOrder ==
    ASSUME Pass, KindInv, KindInv', parser'.http_errno = "OK", EndMoves
    PROVE  Events!Next
<1>1. /\ parser.state \in InBody /\ parser'.state \in StartStates \cup {"s_dead"}
      /\ call' # "ended" /\ cb' = Notify("message_complete")
  BY DEF EndMoves, Among, InBody, BodyStates, StartStates, Pass
<1>2. Phase = "body" /\ Phase' \in {"between", "closed"}
  BY <1>1, PhaseSteps
<1>3. Events!Called({"message_complete"})
  BY <1>1, CalledNotify
<1> QED
  BY <1>2, <1>3 DEF Events!Next, Events!MessageComplete

\* The body is told in order.
LEMMA BodyInOrder ==
    ASSUME Pass, KindInv, KindInv', parser'.http_errno = "OK", BodyMoves
    PROVE  Events!Next
<1>1. call' # "ended"
  BY DEF BodyMoves, Onward, Again, Pass
<1>2. CASE /\ From("s_headers_almost_done", "s_headers_done")
           /\ "F_TRAILING" \notin parser.flags
           /\ cb' = Notify("headers_complete")
  <2>1. Phase = "head" /\ Phase' = "body"
    BY <1>1, <1>2, PhaseSteps DEF From, InHeaders, InBody
  <2>2. Events!Called({"headers_complete"})
    BY <1>2, CalledNotify
  <2> QED
    BY <2>1, <2>2 DEF Events!Next, Events!HeadersComplete
<1>3. CASE /\ parser.state \in InBody \/ (/\ parser.state = "s_headers_almost_done"
                                          /\ "F_TRAILING" \in parser.flags)
           /\ parser'.state \in InBody \/ (/\ parser'.state = "s_header_field_start"
                                           /\ "F_TRAILING" \in parser'.flags)
           /\ \/ cb' = <<>>
              \/ \E mk \in {marks, Advance(MARK("body"))} : cb' = Data("body", mk)
              \/ \E n \in {"chunk_header", "chunk_complete"} : cb' = Notify(n)
  <2>1. Phase = "body" /\ Phase' = "body"
    BY <1>1, <1>3, PhaseSteps DEF InHeaders, HeaderStates
  <2>2. cb' = <<>> \/ Events!Called({"body", "chunk_header", "chunk_complete"})
    BY <1>3, CalledData, CalledNotify
  <2> QED
    BY <2>1, <2>2 DEF Events!Next, Events!Body, Events!Silent
<1> QED
  BY <1>2, <1>3 DEF BodyMoves, From, Among, Onward, Again, InBody, BodyStates,
     ChunkDataStates, ChunkSizeStates

\* A step of the switch is one of MessageEvents.
LEMMA ExecuteInOrder == IInv /\ KindInv /\ Execute => Events!Next
<1> SUFFICES ASSUME IInv, KindInv, Execute PROVE Events!Next
  OBVIOUS
<1>1. Pass
  BY ExecutePass
<1>2. KindInv'
  BY KindKept
<1>3. CASE Moves
  BY <1>1, <1>2, <1>3, BeginsInOrder, LinesInOrder, HeadersInOrder, EndsInOrder,
     BodyInOrder DEF Moves
<1>4. CASE Errs
  <2>1. Phase' = "closed"
    BY <1>4, PhaseNow, PhaseTable DEF Errs
  <2>2. CASE cb' = <<>>
    BY <2>1, <2>2 DEF Events!Next, Events!Silent
  <2>3. CASE parser.state = "s_header_value" /\ cb' = Data("header_value", marks)
    <3>1. parser.state \in InHeaders
      BY <2>3 DEF InHeaders, HeaderStates
    <3>2. Phase \in {"head", "body"}
      BY <1>1, <3>1, PassParser, PhaseNow, PhaseTable DEF Pass
    <3>3. cb' = <<>> \/ Events!Called({"header_field", "header_value"})
      BY <2>3, CalledData
    <3> QED
      BY <2>1, <3>2, <3>3 DEF Events!Next, Events!Text, Events!Silent
  <2> QED
    BY <1>4, <2>2, <2>3 DEF Errs
<1> QED
  BY <1>3, <1>4, ExecuteMoves DEF Goes

\* The text that the parser is in the middle of is the one that a call hands over
\* when it ends.
LEMMA UnfinishedText ==
    ASSUME IInv, call = "running"
    PROVE  /\ \A t \in Texts \ {"body"} :
                 marks[t] # NoMark => Unfinished = Data(t, marks)
           /\ s_now \in BodyMarked => Unfinished = Data("body", marks)
           /\ (\A t \in Texts : marks[t] = NoMark) => Unfinished = <<>>
<1>1. /\ marks \in [Texts -> Nat \cup {NoMark}]
      /\ \A t \in Texts \ {"body"} : marks[t] # NoMark <=> t \in TextOf(s_now)
      /\ marks["body"] # NoMark => s_now \in BodyMarked
  BY DEF IInv, TypeOK, CallInv
<1>2. \A t \in Texts : marks[t] = NoMark => Data(t, marks) = <<>>
  BY DEF Data
<1>3. \A t \in Texts : Data(t, marks) \in Seq([on : Callbacks, len : Nat])
  BY <1>1, HeardData DEF Heard
<1>4. \A d \in Seq([on : Callbacks, len : Nat]) :
         /\ d \o <<>> \o <<>> \o <<>> \o <<>> = d
         /\ <<>> \o d \o <<>> \o <<>> \o <<>> = d
         /\ <<>> \o <<>> \o d \o <<>> \o <<>> = d
         /\ <<>> \o <<>> \o <<>> \o <<>> \o d = d
  <2> SUFFICES ASSUME NEW d \in Seq([on : Callbacks, len : Nat])
               PROVE  /\ d \o <<>> \o <<>> \o <<>> \o <<>> = d
                      /\ <<>> \o d \o <<>> \o <<>> \o <<>> = d
                      /\ <<>> \o <<>> \o d \o <<>> \o <<>> = d
                      /\ <<>> \o <<>> \o <<>> \o <<>> \o d = d
    OBVIOUS
  <2>1. /\ d \o <<>> = d /\ <<>> \o d = d
        /\ <<>> \o <<>> = <<>>
    BY SMT
  <2> QED
    BY <2>1
<1>5. ASSUME NEW t \in Texts \ {"body"}, marks[t] # NoMark
      PROVE  Unfinished = Data(t, marks)
  <2>1. \A u \in Texts \ {t} : Data(u, marks) = <<>>
    <3>1. t \in TextOf(s_now)
      BY <1>1, <1>5
    <3>2. s_now \notin BodyMarked
      BY <3>1, TextOrBody
    <3>3. \A u \in Texts \ {"body"} : u \in TextOf(s_now) => u = t
      BY <3>1, TextOrBody
    <3>4. \A u \in Texts \ {t} : marks[u] = NoMark
      BY <1>1, <3>2, <3>3
    <3> QED
      BY <1>2, <3>4
  <2>2. Data(t, marks) \in Seq([on : Callbacks, len : Nat])
    BY <1>3
  <2>3. t \in {"header_field", "header_value", "url", "status"}
    BY DEF Texts
  <2>4. CASE t = "header_field"
    BY <1>4, <2>1, <2>2, <2>4 DEF Unfinished, Texts
  <2>5. CASE t = "header_value"
    BY <1>4, <2>1, <2>2, <2>5 DEF Unfinished, Texts
  <2>6. CASE t = "url"
    BY <1>4, <2>1, <2>2, <2>6 DEF Unfinished, Texts
  <2>7. CASE t = "status"
    BY <1>4, <2>1, <2>2, <2>7 DEF Unfinished, Texts
  <2> QED
    BY <2>3, <2>4, <2>5, <2>6, <2>7
<1>6. s_now \in BodyMarked => Unfinished = Data("body", marks)
  BY EndOfBody
<1>7. ASSUME \A t \in Texts : marks[t] = NoMark
      PROVE  Unfinished = <<>>
  <2>1. \A u \in Texts : Data(u, marks) = <<>>
    BY <1>2, <1>7
  <2>2. <<>> \in Seq([on : Callbacks, len : Nat])
    BY SMT
  <2> QED
    BY <1>4, <2>1, <2>2 DEF Unfinished, Texts
<1> QED
  BY <1>5, <1>6, <1>7

\* What the end of a call does: it changes nothing of the parser but the count of
\* its headers, and hands over the one unfinished text, if there is any.
LEMMA EndCallFacts ==
    ASSUME IInv, EndCall
    PROVE  /\ parser.http_errno = "OK" /\ call = "running" /\ call' = "idle"
           /\ byte = NoByte /\ byte' = NoByte /\ marks' = NoMarks /\ ret' = "all"
           /\ \/ parser'.http_errno = "HEADER_OVERFLOW" /\ cb' = <<>>
              \/ /\ parser'.http_errno = "OK" /\ cb' = Unfinished
                 /\ parser'.state = parser.state /\ parser'.type = parser.type
                 /\ parser'.flags = parser.flags
                 /\ parser'.status_code = parser.status_code
                 /\ parser'.http_major = parser.http_major
                 /\ parser'.http_minor = parser.http_minor
<1>1. parser \in Parsers /\ call = "running" /\ parser.http_errno = "OK"
  BY DEF EndCall, IInv, TypeOK, CallInv
<1>2. /\ Counted.state = parser.state /\ Counted.http_errno = "OK"
      /\ Counted.type = parser.type /\ Counted.flags = parser.flags
      /\ Counted.status_code = parser.status_code
      /\ Counted.http_major = parser.http_major
      /\ Counted.http_minor = parser.http_minor
      /\ [Counted EXCEPT !.http_errno = "HEADER_OVERFLOW"].http_errno
           = "HEADER_OVERFLOW"
  BY <1>1, SMT DEF Parsers, Counted
<1> QED
  BY <1>1, <1>2 DEF EndCall, Return, Become, Unfinished

\* What the loop does with the next byte.
LEMMA NextByteFacts ==
    ASSUME IInv, NextByte
    PROVE  /\ parser.http_errno = "OK" /\ call \in {"begun", "running"}
           /\ byte = NoByte /\ cb' = <<>>
           /\ \/ /\ parser'.http_errno = "HEADER_OVERFLOW" /\ call' = "idle"
                 /\ ret' = "short" /\ marks' = NoMarks /\ byte' = NoByte
              \/ /\ parser'.http_errno = "OK" /\ call' = "running"
                 /\ marks' = marks
                 /\ parser'.state = parser.state /\ parser'.type = parser.type
                 /\ parser'.flags = parser.flags
                 /\ parser'.status_code = parser.status_code
<1> DEFINE q == IF PARSING_HEADER(parser.state) /\ run = 0
                  THEN [parser EXCEPT !.nread = @ + 1] ELSE parser
<1>1. parser \in Parsers /\ parser.http_errno = "OK"
        /\ call \in {"begun", "running"}
  BY DEF NextByte, IInv, TypeOK, CallInv
<1>2. /\ q.state = parser.state /\ q.http_errno = "OK"
      /\ q.type = parser.type /\ q.flags = parser.flags
      /\ q.status_code = parser.status_code
      /\ [q EXCEPT !.http_errno = "HEADER_OVERFLOW"].http_errno = "HEADER_OVERFLOW"
  BY <1>1, SMT DEF Parsers
<1>3. /\ byte = NoByte
      /\ \/ Fail(q, <<>>, "HEADER_OVERFLOW")
         \/ /\ parser' = q /\ call' = "running" /\ cb' = <<>> /\ marks' = marks
  BY DEF NextByte
<1> HIDE DEF q
<1> QED
  BY <1>1, <1>2, <1>3 DEF Fail, Return, Become

\* KindInv is kept by every step.
LEMMA KindSteps == IInv /\ KindInv /\ [Next]_vars => KindInv'
<1> SUFFICES ASSUME IInv, KindInv, [Next]_vars PROVE KindInv'
  OBVIOUS
<1>1. CASE BeginCall \/ Over \/ UNCHANGED vars
  BY <1>1 DEF BeginCall, Over, vars, KindInv, s_now
<1>2. CASE Execute
  BY <1>2, KindKept
<1>3. CASE NextByte
  BY <1>3, NextByteFacts DEF KindInv, s_now
<1>4. CASE EndCall
  BY <1>4, EndCallFacts DEF KindInv, s_now
<1>5. CASE ExecuteEof
  <2>1. parser' = parser \/ parser'.http_errno # "OK"
    <3>1. [parser EXCEPT !.http_errno = "INVALID_EOF_STATE"].http_errno # "OK"
      BY SMT DEF IInv, TypeOK, Parsers
    <3> QED
      BY <1>5, <3>1 DEF ExecuteEof
  <2> QED
    BY <2>1 DEF KindInv, s_now
<1> QED
  BY <1>1, <1>2, <1>3, <1>4, <1>5 DEF Next

\* KindInv holds at the start, which is between two messages.
LEMMA KindInit ==
    ASSUME Init
    PROVE  KindInv /\ Events!Init
<1>1. PICK t \in Types :
         parser = [type |-> t, state |-> InitState(t), flags |-> {},
                   header_state |-> "h_general", index |-> 0, nread |-> 0,
                   content_length |-> 0, http_major |-> 0, http_minor |-> 0,
                   status_code |-> 0, method |-> "DELETE", http_errno |-> "OK",
                   upgrade |-> FALSE]
  BY DEF Init
<1>2. /\ parser.type = t /\ parser.state = InitState(t) /\ parser.flags = {}
      /\ parser.http_errno = "OK"
  BY <1>1, SMT
<1>3. t \in {"HTTP_REQUEST", "HTTP_RESPONSE", "HTTP_BOTH"}
  BY ParserAssumption DEF ParserAssumption
<1>4. /\ parser.state \in StartStates
      /\ parser.state = "s_start_req_or_res" => t = "HTTP_BOTH"
      /\ parser.state = "s_start_res" => t = "HTTP_RESPONSE"
  BY <1>2, <1>3, SMT DEF InitState, StartStates
<1>5. parser.state \notin Lines
  BY <1>4, PartNames
<1>6. KindInv
  BY <1>2, <1>4, <1>5 DEF KindInv, s_now, Lines
<1>7. call # "ended" /\ cb = <<>>
  BY DEF Init
<1>8. Phase = "between"
  BY <1>2, <1>4, <1>7, PhaseNow, PhaseTable
<1> QED
  BY <1>6, <1>7, <1>8 DEF Events!Init

\* The callbacks of a text are told in the phase that the text belongs to.
LEMMA TextInOrder ==
    ASSUME IInv, KindInv, call = "running", parser.http_errno = "OK",
           Phase' = Phase, cb' = Unfinished
    PROVE  Events!Next
<1>1. CASE \A t \in Texts : marks[t] = NoMark
  BY <1>1, UnfinishedText DEF Events!Next, Events!Silent
<1>2. CASE s_now \in BodyMarked
  <2>1. Phase = "body"
    <3>1. s_now \in InBody
      BY <1>2 DEF BodyMarked, OwingStates, InBody, BodyStates, ChunkDataStates
    <3> QED
      BY <3>1, PhaseNow, PhaseTable DEF s_now
  <2>2. cb' = <<>> \/ Events!Called({"body", "chunk_header", "chunk_complete"})
    BY <1>2, UnfinishedText, CalledData
  <2> QED
    BY <2>1, <2>2 DEF Events!Next, Events!Body, Events!Silent
<1>3. ASSUME s_now \notin BodyMarked, NEW t \in Texts, marks[t] # NoMark
      PROVE  Events!Next
  <2>1. t \in Texts \ {"body"} /\ t \in TextOf(s_now)
    BY <1>3 DEF IInv, CallInv
  <2>2. cb' = Data(t, marks)
    BY <1>3, <2>1, UnfinishedText
  <2>3. CASE t \in {"url", "status"}
    <3>1. s_now \in Lines
      BY <2>1, <2>3 DEF TextOf, Lines
    <3>2. "F_TRAILING" \notin parser.flags
      BY <3>1 DEF KindInv
    <3>3. Phase = "head"
      BY <3>1, <3>2, PhaseNow, PhaseTable DEF s_now
    <3>4. cb' = <<>> \/ Events!Called({"url", "status"})
      BY <2>2, <2>3, CalledData
    <3> QED
      BY <3>3, <3>4 DEF Events!Next, Events!Text, Events!Silent
  <2>4. CASE t \in {"header_field", "header_value"}
    <3>1. s_now \in InHeaders
      BY <2>1, <2>4 DEF TextOf, InHeaders, HeaderStates
    <3>2. Phase \in {"head", "body"}
      BY <3>1, PhaseNow, PhaseTable DEF s_now
    <3>3. cb' = <<>> \/ Events!Called({"header_field", "header_value"})
      BY <2>2, <2>4, CalledData
    <3> QED
      BY <3>2, <3>3 DEF Events!Next, Events!Text, Events!Silent
  <2> QED
    BY <2>1, <2>3, <2>4 DEF Texts
<1> QED
  BY <1>1, <1>2, <1>3

\* A step of the parser is one of MessageEvents, or tells nothing.
LEMMA StepInOrder ==
    IInv /\ KindInv /\ [Next]_vars => [Events!Next]_(Events!vars)
<1> SUFFICES ASSUME IInv, KindInv, [Next]_vars
             PROVE  Events!Next \/ UNCHANGED Events!vars
  OBVIOUS
<1>1. CASE BeginCall
  <2>1. /\ call = "idle" /\ call' \in {"idle", "begun"}
        /\ parser' = parser /\ cb' = <<>>
    BY <1>1 DEF BeginCall
  <2>2. Phase' = Phase
    BY <2>1, PhaseNow
  <2> QED
    BY <2>1, <2>2 DEF Events!Next, Events!Silent
<1>2. CASE NextByte
  <2>1. cb' = <<>> /\ Phase' \in {Phase, "closed"}
    <3>1. CASE parser'.http_errno = "HEADER_OVERFLOW"
      BY <1>2, <3>1, NextByteFacts, PhaseNow, PhaseTable
    <3>2. CASE parser'.http_errno # "HEADER_OVERFLOW"
      <4>1. /\ parser.http_errno = "OK" /\ parser'.http_errno = "OK"
            /\ call # "ended" /\ call' # "ended" /\ cb' = <<>>
            /\ parser'.state = parser.state /\ parser'.flags = parser.flags
        BY <1>2, <3>2, NextByteFacts
      <4>2. PhaseIn(parser', FALSE) = PhaseIn(parser, FALSE)
        BY <4>1 DEF PhaseIn
      <4>3. (call = "ended") = FALSE /\ (call' = "ended") = FALSE
        BY <4>1
      <4> QED
        BY <4>1, <4>2, <4>3, PhaseNow
    <3> QED
      BY <3>1, <3>2
  <2> QED
    BY <2>1 DEF Events!Next, Events!Silent
<1>3. CASE Execute
  BY <1>3, ExecuteInOrder
<1>4. CASE EndCall
  <2>1. CASE parser'.http_errno = "HEADER_OVERFLOW" /\ cb' = <<>>
    <3>1. Phase' = "closed"
      BY <2>1, PhaseNow, PhaseTable
    <3> QED
      BY <2>1, <3>1 DEF Events!Next, Events!Silent
  <2>2. CASE parser'.http_errno = "OK" /\ cb' = Unfinished
             /\ parser'.state = parser.state /\ parser'.flags = parser.flags
    <3>1. /\ parser.http_errno = "OK" /\ call = "running"
          /\ call # "ended" /\ call' # "ended"
      BY <1>4, EndCallFacts
    <3>2. PhaseIn(parser', FALSE) = PhaseIn(parser, FALSE)
      BY <2>2, <3>1 DEF PhaseIn
    <3>3. (call = "ended") = FALSE /\ (call' = "ended") = FALSE
      BY <3>1
    <3>4. Phase' = Phase
      BY <3>2, <3>3, PhaseNow
    <3> QED
      BY <2>2, <3>1, <3>4, TextInOrder
  <2> QED
    BY <1>4, <2>1, <2>2, EndCallFacts
<1>5. CASE ExecuteEof
  <2>1. Phase' = "closed"
    BY <1>5, PhaseNow, PhaseTable DEF ExecuteEof
  <2>2. CASE cb' = <<>>
    BY <2>1, <2>2 DEF Events!Next, Events!Silent
  <2>3. CASE cb' # <<>>
    <3>1. /\ parser.state = "s_body_identity_eof" /\ parser.http_errno = "OK"
          /\ call = "idle" /\ cb' = Notify("message_complete")
      BY <1>5, <2>3 DEF ExecuteEof
    <3>2. parser.state \in InBody
      BY <3>1 DEF InBody, BodyStates
    <3>3. Phase = "body"
      BY <3>1, <3>2, PhaseNow, PhaseTable
    <3>4. Events!Called({"message_complete"})
      BY <3>1, CalledNotify
    <3> QED
      BY <2>1, <3>3, <3>4 DEF Events!Next, Events!MessageComplete
  <2> QED
    BY <2>2, <2>3
<1>6. CASE Over \/ UNCHANGED vars
  <2>1. parser' = parser /\ call' = call /\ cb' = cb
    BY <1>6 DEF Over, vars
  <2>2. Phase' = Phase
    BY <2>1, PhaseNow
  <2> QED
    BY <2>1, <2>2 DEF Events!vars
<1> QED
  BY <1>1, <1>2, <1>3, <1>4, <1>5, <1>6 DEF Next

\* Whatever the peer sends and however it is cut into calls: the callbacks of
\* http_parser_execute come in the order of MessageEvents.  Each message is
\* announced, has its headers completed once before any of its body, and is
\* completed once; after the last one, or an error, nothing is called.
THEOREM EventsInOrder == Spec => CallbacksInOrder
<1>1. Spec => [](IInv /\ KindInv)
  <2>1. Init => IInv /\ KindInv
    BY InitHolds, KindInit
  <2>2. IInv /\ KindInv /\ [Next]_vars => IInv' /\ KindInv'
    BY StepHolds, KindSteps DEF Holds
  <2> QED
    BY <2>1, <2>2, PTL DEF Spec
<1>2. Init => Events!Init
  BY KindInit
<1> QED
  BY <1>1, <1>2, StepInOrder, PTL DEF Spec, CallbacksInOrder, Events!Spec
=============================================================================
