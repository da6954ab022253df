----------------------- MODULE MessageBuilder_proofs -----------------------
(***************************************************************************)
(* Proofs about MessageBuilder: what http_request_parser and               *)
(* http_reply_parser build out of the callbacks of http_parser_execute is  *)
(* what the peer has sent, in whatever pieces it comes, for every width of *)
(* the length field and every limit on the headers.                        *)
(*                                                                         *)
(* The argument is an account of each text.  Deeds lists all that a pass   *)
(* through the switch can do to one: begin it, go on with it, end it, or   *)
(* have nothing to do with it.  What was sent of a text is then what is    *)
(* built of it and what is still under its mark, and BuiltInv carries that *)
(* account, with the stage of the message, from step to step.  IInv and    *)
(* KindInv, of HttpParser_proofs, say what the parser itself keeps.        *)
(***************************************************************************)
EXTENDS MessageBuilder, HttpParser_proofs

-----------------------------------------------------------------------------
(* The fold over the callbacks of a step, of which there is at most one. *)

\* A step that calls nothing leaves the message as it is.
LEMMA BuildNone == ASSUME Build, cb' = <<>> PROVE message' = message
<1> DEFINE folds(f) == f = [s \in SUBSET DOMAIN cb' |->
                              IF s = {} THEN message
                              ELSE LET x == Max(s)
                                   IN  Receive(f[s \ {x}], cb'[x])]
<1>1. DOMAIN cb' = {}
  OBVIOUS
<1>2. message' = (CHOOSE f : folds(f))[DOMAIN cb']
  BY Zenon DEF Build, FoldLeft, MapThenFoldSet
<1>3. folds([s \in SUBSET DOMAIN cb' |-> message])
  BY <1>1, Zenon
<1>4. folds(CHOOSE f : folds(f))
  BY <1>3, Zenon
<1> QED
  BY <1>1, <1>2, <1>4

\* A step that calls one callback receives it.
LEMMA BuildCall ==
    ASSUME Build, NEW c, cb' = <<c>>
    PROVE  message' = Receive(message, c)
<1> DEFINE folds(f) == f = [s \in SUBSET DOMAIN cb' |->
                              IF s = {} THEN message
                              ELSE LET x == Max(s)
                                   IN  Receive(f[s \ {x}], cb'[x])]
           g == [s \in SUBSET DOMAIN cb' |->
                   IF s = {} THEN message ELSE Receive(message, c)]
<1>1. /\ cb'[1] = c /\ DOMAIN cb' = {1}
      /\ Max({1}) = 1 /\ {1} \ {1} = {}
  BY SMT DEF Max
<1>2. message' = (CHOOSE f : folds(f))[DOMAIN cb']
  BY Zenon DEF Build, FoldLeft, MapThenFoldSet
<1>3. folds(g)
  <2>1. g[{}] = message
    OBVIOUS
  <2>2. \A s \in SUBSET DOMAIN cb' :
           (IF s = {} THEN message ELSE Receive(message, c))
             = IF s = {} THEN message
               ELSE Receive(g[s \ {Max(s)}], cb'[Max(s)])
    <3> SUFFICES ASSUME NEW s \in SUBSET DOMAIN cb'
                 PROVE  (IF s = {} THEN message ELSE Receive(message, c))
                          = IF s = {} THEN message
                            ELSE Receive(g[s \ {Max(s)}], cb'[Max(s)])
      OBVIOUS
    <3> HIDE DEF g
    <3>1. s = {} \/ s = {1}
      BY <1>1
    <3> QED
      BY <1>1, <2>1, <3>1
  <2> QED
    BY <2>2, Zenon
<1>4. folds(CHOOSE f : folds(f))
  BY <1>3, Zenon
<1> DEFINE f == CHOOSE f : folds(f)
<1>5. f[{}] = message
  BY <1>1, <1>4
<1>6. f[{1}] = Receive(f[{1} \ {Max({1})}], cb'[Max({1})])
  BY <1>1, <1>4
<1> QED
  BY <1>1, <1>2, <1>5, <1>6

-----------------------------------------------------------------------------
(* What a callback does to a message, and a byte to what was sent. *)

\* The messages that can be built.
HeaderSeqs == Seq([name : Nat, value : Nat])
Messages == [method : Nat, uri : Nat, version : Nat \cup {Unset},
             status_code : Nat \cup {Unset}, headers : HeaderSeqs,
             body : Nat, complete : BOOLEAN]

\* The headers with another value, or a longer name or value, of the last one.
WithValue(hs, n) == [hs EXCEPT ![Len(hs)].value = n]

\* The last header gets a value.
LEMMA ValueFits ==
    ASSUME NEW hs \in HeaderSeqs, NEW n \in Nat
    PROVE  /\ WithValue(hs, n) \in HeaderSeqs
           /\ hs # <<>> => WithValue(hs, n) # <<>>
<1> DEFINE H == [name : Nat, value : Nat]
<1>1. \A h \in H : [h EXCEPT !.value = n] \in H
  BY SMT
<1> HIDE DEF H
<1>2. hs \in Seq(H)
  BY DEF HeaderSeqs, H
<1> DEFINE w == WithValue(hs, n)
<1>3. /\ Len(hs) \in Nat /\ DOMAIN hs = 1..Len(hs)
      /\ w = [i \in DOMAIN hs |-> IF i = Len(hs) THEN [hs[i] EXCEPT !.value = n]
                                 ELSE hs[i]]
  BY <1>2 DEF WithValue
<1> HIDE DEF w
<1>4. w \in [1..Len(hs) -> H]
  <2>1. \A i \in 1..Len(hs) : hs[i] \in H
    BY <1>2
  <2> QED
    BY <1>1, <1>3, <2>1
<1>5. WithValue(hs, n) \in Seq(H) /\ Len(WithValue(hs, n)) = Len(hs)
  <2>1. w \in Seq(H) /\ Len(w) = Len(hs)
    BY <1>3, <1>4
  <2> QED
    BY <2>1 DEF w
<1>6. hs # <<>> => WithValue(hs, n) # <<>>
  BY <1>2, <1>5, SMT
<1> QED
  BY <1>5, <1>6 DEF HeaderSeqs, H

\* A header is begun.
LEMMA AppendFits ==
    ASSUME NEW hs \in HeaderSeqs, NEW n \in Nat
    PROVE  /\ Append(hs, [name |-> n, value |-> 0]) \in HeaderSeqs
           /\ Append(hs, [name |-> n, value |-> 0]) # <<>>
           /\ Append(hs, [name |-> n, value |-> 0])
                [Len(Append(hs, [name |-> n, value |-> 0]))].value = 0
<1> DEFINE H == [name : Nat, value : Nat]
           h == [name |-> n, value |-> 0]
<1>1. h \in H /\ h.value = 0
  BY SMT
<1> HIDE DEF H, h
<1>2. hs \in Seq(H)
  BY DEF HeaderSeqs, H
<1>3. /\ Append(hs, h) \in Seq(H) /\ Len(Append(hs, h)) = Len(hs) + 1
      /\ Append(hs, h)[Len(hs) + 1] = h
      /\ Len(hs) \in Nat
  BY <1>1, <1>2, SMT
<1>4. Append(hs, h) # <<>>
  BY <1>3, SMT
<1> QED
  BY <1>1, <1>3, <1>4 DEF HeaderSeqs, H, h

\* One more byte of the name of the last header.
LEMMA LongerName ==
    ASSUME NEW hs \in HeaderSeqs, NEW n \in Nat
    PROVE  LET a == Append(hs, [name |-> n, value |-> 0])
           IN  [a EXCEPT ![Len(a)].name = @ + 1]
                 = Append(hs, [name |-> n + 1, value |-> 0])
<1> DEFINE H == [name : Nat, value : Nat]
           h == [name |-> n, value |-> 0]
           g == [name |-> n + 1, value |-> 0]
<1>1. h \in H /\ g \in H /\ [h EXCEPT !.name = @ + 1] = g
  BY SMT
<1> HIDE DEF H, h, g
<1>2. hs \in Seq(H)
  BY DEF HeaderSeqs, H
<1> DEFINE a == Append(hs, h)
           b == Append(hs, g)
<1>3. /\ a \in Seq(H) /\ b \in Seq(H)
      /\ Len(a) = Len(hs) + 1 /\ Len(b) = Len(hs) + 1 /\ Len(hs) \in Nat
      /\ a[Len(hs) + 1] = h /\ b[Len(hs) + 1] = g
      /\ \A i \in 1..Len(hs) : a[i] = hs[i] /\ b[i] = hs[i]
      /\ DOMAIN a = 1..(Len(hs) + 1) /\ DOMAIN b = 1..(Len(hs) + 1)
  BY <1>1, <1>2, SMT
<1>4. a = [i \in DOMAIN a |-> a[i]] /\ b = [i \in DOMAIN b |-> b[i]]
  <2>1. \A s \in Seq(H) : s = [i \in DOMAIN s |-> s[i]]
    BY SMT
  <2> QED
    BY <1>3, <2>1, Zenon
<1> HIDE DEF a, b
<1>5. [a EXCEPT ![Len(a)].name = @ + 1]
        = [i \in DOMAIN a |-> IF i = Len(a) THEN [a[i] EXCEPT !.name = @ + 1]
                              ELSE a[i]]
  BY Zenon
<1>6. \A i \in 1..(Len(hs) + 1) :
         (IF i = Len(a) THEN [a[i] EXCEPT !.name = @ + 1] ELSE a[i]) = b[i]
  <2> SUFFICES ASSUME NEW i \in 1..(Len(hs) + 1)
               PROVE  (IF i = Len(a) THEN [a[i] EXCEPT !.name = @ + 1] ELSE a[i])
                        = b[i]
    OBVIOUS
  <2>1. CASE i = Len(hs) + 1
    BY <1>1, <1>3, <2>1
  <2>2. CASE i # Len(hs) + 1
    <3>1. i \in 1..Len(hs)
      BY <1>3, <2>2, SMT
    <3> QED
      BY <1>3, <2>2, <3>1
  <2> QED
    BY <2>1, <2>2
<1>7. [a EXCEPT ![Len(a)].name = @ + 1] = b
  BY <1>3, <1>4, <1>5, <1>6
<1> QED
  BY <1>7 DEF a, b, h, g

\* One more byte of the value of the last header, and the value it has already.
LEMMA LongerValue ==
    ASSUME NEW hs \in HeaderSeqs, hs # <<>>, NEW n \in Nat
    PROVE  /\ [WithValue(hs, n) EXCEPT ![Len(WithValue(hs, n))].value = @ + 1]
                = WithValue(hs, n + 1)
           /\ hs[Len(hs)].value = n => WithValue(hs, n) = hs
<1> DEFINE H == [name : Nat, value : Nat]
<1>1. \A h \in H : /\ [h EXCEPT !.value = n] \in H
                   /\ [[h EXCEPT !.value = n] EXCEPT !.value = @ + 1]
                        = [h EXCEPT !.value = n + 1]
                   /\ h.value = n => [h EXCEPT !.value = n] = h
  <2> SUFFICES ASSUME NEW h \in H
               PROVE  /\ [h EXCEPT !.value = n] \in H
                      /\ [[h EXCEPT !.value = n] EXCEPT !.value = @ + 1]
                           = [h EXCEPT !.value = n + 1]
                      /\ h.value = n => [h EXCEPT !.value = n] = h
    OBVIOUS
  <2>1. h = [name |-> h.name, value |-> h.value] /\ h.name \in Nat
          /\ h.value \in Nat
    BY SMT
  <2>2. \A k : [h EXCEPT !.value = k] = [name |-> h.name, value |-> k]
    BY <2>1
  <2>3. [[h EXCEPT !.value = n] EXCEPT !.value = @ + 1]
          = [name |-> h.name, value |-> n + 1]
    BY <2>2
  <2> QED
    BY <2>1, <2>2, <2>3
<1> HIDE DEF H
<1>2. hs \in Seq(H)
  BY DEF HeaderSeqs, H
<1>3. Len(hs) \in 1..Len(hs) /\ DOMAIN hs = 1..Len(hs) /\ hs[Len(hs)] \in H
        /\ hs = [i \in DOMAIN hs |-> hs[i]]
  BY <1>2, SMT
<1> DEFINE n1 == n + 1
           a == WithValue(hs, n)
<1>4. /\ DOMAIN a = DOMAIN hs /\ a[Len(hs)] = [hs[Len(hs)] EXCEPT !.value = n]
      /\ \A i \in DOMAIN hs : i # Len(hs) => a[i] = hs[i]
  BY <1>3, Zenon DEF WithValue
<1>5. Len(a) = Len(hs)
  <2>1. \A h : h \in H => [h EXCEPT !.value = n] \in H
    BY <1>1
  <2> QED
    BY <1>2, <2>1, SMT DEF WithValue
<1>6. a = [i \in DOMAIN hs |-> IF i = Len(hs) THEN [hs[i] EXCEPT !.value = n]
                               ELSE hs[i]]
  BY Zenon DEF WithValue
<1>7. WithValue(hs, n1)
        = [i \in DOMAIN hs |-> IF i = Len(hs) THEN [hs[i] EXCEPT !.value = n1]
                               ELSE hs[i]]
  BY Zenon DEF WithValue
<1>8. [a EXCEPT ![Len(hs)].value = @ + 1]
        = [i \in DOMAIN hs |-> IF i = Len(hs) THEN [a[i] EXCEPT !.value = @ + 1]
                               ELSE a[i]]
  BY <1>4, Zenon
<1> HIDE DEF a
<1>9. \A i \in DOMAIN hs :
         (IF i = Len(hs) THEN [a[i] EXCEPT !.value = @ + 1] ELSE a[i])
           = IF i = Len(hs) THEN [hs[i] EXCEPT !.value = n1] ELSE hs[i]
  BY <1>1, <1>3, <1>4
<1>10. [a EXCEPT ![Len(hs)].value = @ + 1] = WithValue(hs, n1)
  BY <1>7, <1>8, <1>9
<1>11. ASSUME hs[Len(hs)].value = n PROVE a = hs
  <2>1. \A i \in DOMAIN hs :
           (IF i = Len(hs) THEN [hs[i] EXCEPT !.value = n] ELSE hs[i]) = hs[i]
    BY <1>1, <1>3, <1>11
  <2> QED
    BY <1>3, <1>6, <2>1
<1> QED
  BY <1>5, <1>10, <1>11 DEF a

\* What one callback makes of the message, field by field.
LEMMA BuildOne ==
    ASSUME message \in Messages, parser \in Parsers, Build,
           NEW n, NEW l \in Nat, cb' = <<[on |-> n, len |-> l]>>
    PROVE  LET request == parser.type = "HTTP_REQUEST"
           IN  /\ message' \in Messages
               /\ message'.uri = IF n = "url" /\ request THEN message.uri + l
                                 ELSE message.uri
               /\ message'.body = IF n = "body" THEN message.body + l
                                  ELSE message.body
               /\ message'.headers =
                    IF n = "header_field"
                      THEN Append(message.headers, [name |-> l, value |-> 0])
                    ELSE IF n = "header_value" THEN WithValue(message.headers, l)
                    ELSE message.headers
               /\ message'.status_code =
                    IF n = "status" /\ ~request THEN parser.status_code
                    ELSE message.status_code
<1> DEFINE c == [on |-> n, len |-> l]
           request == parser.type = "HTTP_REQUEST"
           field == Append(message.headers, [name |-> l, value |-> 0])
           value == WithValue(message.headers, l)
           version == parser.http_major * 10 + parser.http_minor
<1>1. message' = Receive(message, c) /\ c.on = n /\ c.len = l
  BY BuildCall, SMT
<1>2. /\ message.method \in Nat /\ message.uri \in Nat /\ message.body \in Nat
      /\ message.headers \in HeaderSeqs
      /\ message.version \in Nat \cup {Unset}
      /\ message.status_code \in Nat \cup {Unset} /\ message.complete \in BOOLEAN
      /\ message = [method |-> message.method, uri |-> message.uri,
                    version |-> message.version,
                    status_code |-> message.status_code,
                    headers |-> message.headers, body |-> message.body,
                    complete |-> message.complete]
  BY SMT DEF Messages
<1>3. field \in HeaderSeqs /\ value \in HeaderSeqs
  BY <1>2, AppendFits, ValueFits
<1>4. parser.status_code \in Nat /\ version \in Nat
  <2>1. /\ parser.status_code \in Nat /\ parser.http_major \in Nat
        /\ parser.http_minor \in Nat
    <3>1. /\ parser.status_code \in FourDigits /\ parser.http_major \in FourDigits
          /\ parser.http_minor \in FourDigits
      BY SMT DEF Parsers
    <3>2. \A d : d \in FourDigits => d \in Nat
      BY SMT DEF FourDigits
    <3> QED
      BY <3>1, <3>2
  <2>2. \A a, b \in Nat : a * 10 + b \in Nat
    BY SMT
  <2> QED
    BY <2>1, <2>2
<1>5. message.uri + l \in Nat /\ message.body + l \in Nat
  BY <1>2, SMT
<1> HIDE DEF c, field, value, version
<1>6. /\ Receive(message, c) =
           IF n = "url" /\ request THEN [message EXCEPT !.uri = @ + l]
           ELSE IF n = "status" /\ ~request
             THEN [message EXCEPT !.status_code = parser.status_code]
           ELSE IF n = "header_field" THEN [message EXCEPT !.headers = field]
           ELSE IF n = "header_value" THEN [message EXCEPT !.headers = value]
           ELSE IF n = "body" THEN [message EXCEPT !.body = @ + l]
           ELSE IF n = "headers_complete" /\ request
             THEN [message EXCEPT !.version = version]
           ELSE IF n = "message_complete" THEN [message EXCEPT !.complete = TRUE]
           ELSE message
  <2>1. ReceiveField(message, l) = [message EXCEPT !.headers = field]
    BY DEF ReceiveField, field
  <2>2. ReceiveValue(message, l) = [message EXCEPT !.headers = value]
    <3>1. [message EXCEPT !.headers[Len(message.headers)].value = l]
             = [message EXCEPT !.headers
                  = [message.headers EXCEPT ![Len(message.headers)].value = l]]
      BY <1>2, Zenon
    <3> QED
      BY <3>1 DEF ReceiveValue, value, WithValue
  <2>3. CASE n = "url"
    BY <1>1, <2>3 DEF Receive, ReceiveUrl
  <2>4. CASE n = "status"
    BY <1>1, <2>4 DEF Receive, ReceiveStatus
  <2>5. CASE n = "header_field"
    BY <1>1, <2>1, <2>5 DEF Receive
  <2>6. CASE n = "header_value"
    BY <1>1, <2>2, <2>6 DEF Receive
  <2>7. CASE n = "body"
    BY <1>1, <2>7 DEF Receive, ReceiveBody
  <2>8. CASE n = "headers_complete"
    BY <1>1, <2>8 DEF Receive, version
  <2>9. CASE n = "message_complete"
    BY <1>1, <2>9 DEF Receive
  <2>10. CASE n \notin {"url", "status", "header_field", "header_value", "body",
                       "headers_complete", "message_complete"}
    BY <1>1, <2>10 DEF Receive
  <2> QED
    BY <2>3, <2>4, <2>5, <2>6, <2>7, <2>8, <2>9, <2>10
<1> DEFINE u == IF n = "url" /\ request THEN message.uri + l ELSE message.uri
           b == IF n = "body" THEN message.body + l ELSE message.body
           h == IF n = "header_field" THEN field
                ELSE IF n = "header_value" THEN value ELSE message.headers
           s == IF n = "status" /\ ~request THEN parser.status_code
                ELSE message.status_code
           v == IF n = "headers_complete" /\ request THEN version
                ELSE message.version
           d == IF n = "message_complete" THEN TRUE ELSE message.complete
<1>7. message' = [method |-> message.method, uri |-> u, version |-> v,
                  status_code |-> s, headers |-> h, body |-> b, complete |-> d]
  <2>1. \A k : /\ [message EXCEPT !.uri = k] =
                  [method |-> message.method, uri |-> k, version |-> message.version,
                   status_code |-> message.status_code,
                   headers |-> message.headers, body |-> message.body,
                   complete |-> message.complete]
               /\ [message EXCEPT !.status_code = k] =
                  [method |-> message.method, uri |-> message.uri, version |-> message.version,
                   status_code |-> k,
                   headers |-> message.headers, body |-> message.body,
                   complete |-> message.complete]
               /\ [message EXCEPT !.headers = k] =
                  [method |-> message.method, uri |-> message.uri, version |-> message.version,
                   status_code |-> message.status_code,
                   headers |-> k, body |-> message.body,
                   complete |-> message.complete]
               /\ [message EXCEPT !.body = k] =
                  [method |-> message.method, uri |-> message.uri, version |-> message.version,
                   status_code |-> message.status_code,
                   headers |-> message.headers, body |-> k,
                   complete |-> message.complete]
               /\ [message EXCEPT !.version = k] =
                  [method |-> message.method, uri |-> message.uri, version |-> k,
                   status_code |-> message.status_code,
                   headers |-> message.headers, body |-> message.body,
                   complete |-> message.complete]
               /\ [message EXCEPT !.complete = k] =
                  [method |-> message.method, uri |-> message.uri, version |-> message.version,
                   status_code |-> message.status_code,
                   headers |-> message.headers, body |-> message.body,
                   complete |-> k]
    BY <1>2, SMT
  <2>2. CASE n = "url" \/ n = "status"
    BY <1>1, <1>2, <1>6, <2>1, <2>2
  <2>3. CASE n \in {"header_field", "header_value", "body"}
    BY <1>1, <1>2, <1>6, <2>1, <2>3
  <2>4. CASE n = "headers_complete" \/ n = "message_complete"
    BY <1>1, <1>2, <1>6, <2>1, <2>4
  <2>5. CASE n \notin {"url", "status", "header_field", "header_value", "body",
                       "headers_complete", "message_complete"}
    BY <1>1, <1>2, <1>6, <2>5
  <2> QED
    BY <2>2, <2>3, <2>4, <2>5
<1>8. /\ u \in Nat /\ b \in Nat /\ h \in HeaderSeqs /\ s \in Nat \cup {Unset}
      /\ v \in Nat \cup {Unset} /\ d \in BOOLEAN
  BY <1>2, <1>3, <1>4, <1>5
<1> HIDE DEF u, b, h, s, v, d
<1>9. /\ message' \in Messages /\ message'.uri = u /\ message'.body = b
      /\ message'.headers = h /\ message'.status_code = s
  BY <1>7, <1>8, SMT DEF Messages
<1> QED
  BY <1>9 DEF u, b, h, s, field, value

\* A step that tells no text leaves the texts of the message as they are.
LEMMA BuildNotice ==
    ASSUME message \in Messages, parser \in Parsers, Build,
           cb' = <<>> \/ \E n : n \notin Texts /\ cb' = Notify(n)
    PROVE  /\ message' \in Messages
           /\ message'.uri = message.uri /\ message'.body = message.body
           /\ message'.headers = message.headers
           /\ message'.status_code = message.status_code
<1>1. CASE cb' = <<>>
  BY <1>1, BuildNone
<1>2. ASSUME NEW n, n \notin Texts, cb' = Notify(n)
      PROVE  /\ message' \in Messages
             /\ message'.uri = message.uri /\ message'.body = message.body
             /\ message'.headers = message.headers
             /\ message'.status_code = message.status_code
  <2>1. /\ cb' = <<[on |-> n, len |-> 0]>>
        /\ n # "url" /\ n # "status" /\ n # "header_field" /\ n # "header_value"
        /\ n # "body"
    BY <1>2 DEF Notify, Texts
  <2> QED
    BY <2>1, BuildOne
<1> QED
  BY <1>1, <1>2

\* The states of each text.
LEMMA TextTable ==
    \A s : /\ TextOf(s) = {"url"} <=> s \in UrlStates
           /\ TextOf(s) = {"status"} <=> s = "s_res_status"
           /\ TextOf(s) = {"header_field"} <=> s = "s_header_field"
           /\ TextOf(s) = {"header_value"} <=> s = "s_header_value"
           /\ TextOf(s) = {} <=>
                s \notin UrlStates \cup {"s_res_status", "s_header_field",
                                         "s_header_value"}
<1>1. /\ "s_res_status" \notin UrlStates /\ "s_header_field" \notin UrlStates
      /\ "s_header_value" \notin UrlStates
  BY SMT DEF UrlStates, UrlHeads, UrlTails
<1>2. ASSUME NEW s PROVE
        /\ s \in UrlStates => TextOf(s) = {"url"}
        /\ s = "s_res_status" => TextOf(s) = {"status"}
        /\ s = "s_header_field" => TextOf(s) = {"header_field"}
        /\ s = "s_header_value" => TextOf(s) = {"header_value"}
        /\ s \notin UrlStates \cup {"s_res_status", "s_header_field",
                                    "s_header_value"} => TextOf(s) = {}
  BY <1>1 DEF TextOf
<1>3. /\ {"url"} # {"status"} /\ {"url"} # {"header_field"}
      /\ {"url"} # {"header_value"} /\ {"status"} # {"header_field"}
      /\ {"status"} # {"header_value"} /\ {"header_field"} # {"header_value"}
      /\ \A t : {t} # {}
  OBVIOUS
<1> SUFFICES ASSUME NEW s PROVE
           /\ TextOf(s) = {"url"} <=> s \in UrlStates
           /\ TextOf(s) = {"status"} <=> s = "s_res_status"
           /\ TextOf(s) = {"header_field"} <=> s = "s_header_field"
           /\ TextOf(s) = {"header_value"} <=> s = "s_header_value"
           /\ TextOf(s) = {} <=>
                s \notin UrlStates \cup {"s_res_status", "s_header_field",
                                         "s_header_value"}
  OBVIOUS
<1>4. CASE s \in UrlStates
  BY <1>1, <1>2, <1>3, <1>4
<1>5. CASE s = "s_res_status"
  BY <1>1, <1>2, <1>3, <1>5
<1>6. CASE s = "s_header_field"
  BY <1>1, <1>2, <1>3, <1>6
<1>7. CASE s = "s_header_value"
  BY <1>1, <1>2, <1>3, <1>7
<1>8. CASE s \notin UrlStates \cup {"s_res_status", "s_header_field",
                                    "s_header_value"}
  BY <1>2, <1>3, <1>8
<1> QED
  BY <1>4, <1>5, <1>6, <1>7, <1>8

\* What was sent is a message of its own kind.
SentType ==
    /\ sent = [uri |-> sent.uri, reason |-> sent.reason,
               headers |-> sent.headers, body |-> sent.body,
               complete |-> sent.complete]
    /\ sent.uri \in Nat /\ sent.reason \in Nat /\ sent.body \in Nat
    /\ sent.complete \in BOOLEAN

\* The byte that is looked at is one of a body.
InBodyText ==
    \/ parser.state \in {"s_body_identity", "s_chunk_data", "s_body_identity_eof"}
    \/ parser.state = "s_message_done" /\ "F_CHUNKED" \notin parser.flags

\* The byte belongs to the message that is remembered.
Counts == Taken /\ ~sent.complete

\* What a step adds to the memory of what was sent, field by field.
LEMMA RememberFields ==
    ASSUME SentType, Remember,
           Counts /\ InBodyText => TextOf(parser'.state) = {}
    PROVE  LET to == TextOf(parser'.state)
               hs == sent.headers
           IN  /\ SentType'
               /\ sent'.uri = IF Counts /\ to = {"url"} THEN sent.uri + 1
                              ELSE sent.uri
               /\ sent'.reason = IF Counts /\ to = {"status"} THEN sent.reason + 1
                                 ELSE sent.reason
               /\ sent'.body = IF Counts /\ InBodyText THEN sent.body + 1
                               ELSE sent.body
               /\ sent'.headers =
                    IF Counts /\ to = {"header_field"}
                      THEN IF TextOf(parser.state) = to
                             THEN [hs EXCEPT ![Len(hs)].name = @ + 1]
                             ELSE Append(hs, [name |-> 1, value |-> 0])
                    ELSE IF Counts /\ to = {"header_value"}
                      THEN [hs EXCEPT ![Len(hs)].value = @ + 1]
                    ELSE hs
               /\ sent'.complete = (sent.complete \/ Completed)
<1> DEFINE s == parser'.state
           to == TextOf(s)
           hs == sent.headers
           longer == [hs EXCEPT ![Len(hs)].name = @ + 1]
           begins == Append(hs, [name |-> 1, value |-> 0])
           value == [hs EXCEPT ![Len(hs)].value = @ + 1]
           Is(r, u, w, h, b, d) ==
             r = [uri |-> u, reason |-> w, headers |-> h, body |-> b,
                  complete |-> d]
<1>1. Completed \in BOOLEAN
  BY DEF Completed
<1>2. ASSUME NEW r, NEW u \in Nat, NEW w \in Nat, NEW h, NEW b \in Nat,
             NEW d \in BOOLEAN, Is(r, u, w, h, b, d)
      PROVE  /\ r.uri = u /\ r.reason = w /\ r.headers = h /\ r.body = b
             /\ r.complete = d
             /\ \A k : /\ [r EXCEPT !.uri = k] = [uri |-> k, reason |-> w,
                            headers |-> h, body |-> b, complete |-> d]
                       /\ [r EXCEPT !.reason = k] = [uri |-> u, reason |-> k,
                            headers |-> h, body |-> b, complete |-> d]
                       /\ [r EXCEPT !.headers = k] = [uri |-> u, reason |-> w,
                            headers |-> k, body |-> b, complete |-> d]
                       /\ [r EXCEPT !.body = k] = [uri |-> u, reason |-> w,
                            headers |-> h, body |-> k, complete |-> d]
                       /\ [r EXCEPT !.complete = k] = [uri |-> u, reason |-> w,
                            headers |-> h, body |-> b, complete |-> k]
  BY <1>2, SMT
<1> DEFINE u == IF Counts /\ to = {"url"} THEN sent.uri + 1 ELSE sent.uri
           w == IF Counts /\ to = {"status"} THEN sent.reason + 1 ELSE sent.reason
           b == IF Counts /\ InBodyText THEN sent.body + 1 ELSE sent.body
           h == IF Counts /\ to = {"header_field"}
                  THEN IF TextOf(parser.state) = to THEN longer ELSE begins
                ELSE IF Counts /\ to = {"header_value"} THEN value
                ELSE hs
           d == sent.complete \/ Completed
<1>3. /\ Is(sent, sent.uri, sent.reason, hs, sent.body, sent.complete)
      /\ sent.uri \in Nat /\ sent.reason \in Nat /\ sent.body \in Nat
      /\ sent.complete \in BOOLEAN
  BY DEF SentType
<1>4. u \in Nat /\ w \in Nat /\ b \in Nat /\ d \in BOOLEAN
  BY <1>1, <1>3
<1>5. /\ ~Counts => sent' = [sent EXCEPT !.complete = sent.complete \/ Completed]
      /\ Counts => sent' = [WithByte(sent) EXCEPT !.complete = Completed]
  BY DEF Remember, Counts
<1>6. Counts => ~sent.complete
  BY DEF Counts
<1>7. Is(sent', u, w, h, b, d)
  <2>1. CASE ~Counts
    <3>1. /\ u = sent.uri /\ w = sent.reason /\ b = sent.body /\ h = hs
      BY <2>1
    <3> HIDE DEF u, w, b, h
    <3> QED
      BY <1>2, <1>3, <1>5, <2>1, <3>1
  <2>2. CASE Counts
    <3> DEFINE W == WithByte(sent)
    <3>1. d = Completed
      BY <1>1, <1>3, <1>6, <2>2
    <3>2. sent' = [W EXCEPT !.complete = Completed]
      BY <1>5, <2>2
    <3>3. Is(W, u, w, h, b, sent.complete)
      <4>1. CASE to = {"url"}
        <5>1. /\ s \in UrlStates /\ s # "s_res_status" /\ s # "s_header_field"
              /\ s # "s_header_value" /\ ~InBodyText
          BY <2>2, <4>1, TextTable
        <5>2. W = [sent EXCEPT !.uri = sent.uri + 1]
          BY <5>1 DEF WithByte, InBodyText
        <5>3. u = sent.uri + 1 /\ w = sent.reason /\ b = sent.body /\ h = hs
          BY <2>2, <4>1, <5>1
        <5> HIDE DEF W, u, w, b, h
        <5> QED
          BY <1>2, <1>3, <5>2, <5>3
      <4>2. CASE to = {"status"}
        <5>1. /\ s \notin UrlStates /\ s = "s_res_status" /\ s # "s_header_field"
              /\ s # "s_header_value" /\ ~InBodyText
          BY <2>2, <4>2, TextTable
        <5>2. W = [sent EXCEPT !.reason = sent.reason + 1]
          BY <5>1 DEF WithByte, InBodyText
        <5>3. u = sent.uri /\ w = sent.reason + 1 /\ b = sent.body /\ h = hs
          BY <2>2, <4>2, <5>1
        <5> HIDE DEF W, u, w, b, h
        <5> QED
          BY <1>2, <1>3, <5>2, <5>3
      <4>3. CASE to = {"header_field"}
        <5>1. /\ s \notin UrlStates /\ s # "s_res_status" /\ s = "s_header_field"
              /\ s # "s_header_value" /\ ~InBodyText
              /\ TextOf(parser.state) = to <=> parser.state = "s_header_field"
          BY <2>2, <4>3, TextTable
        <5>2. W = [sent EXCEPT !.headers = IF parser.state = s THEN longer
                                           ELSE begins]
          <6>1. CASE parser.state = s
            <7>1. W = [sent EXCEPT !.headers[Len(hs)].name = @ + 1]
              BY <5>1, <6>1 DEF WithByte, InBodyText
            <7>2. [sent EXCEPT !.headers[Len(hs)].name = @ + 1]
                     = [sent EXCEPT !.headers = longer]
              BY <1>3, Zenon
            <7> QED
              BY <6>1, <7>1, <7>2
          <6>2. CASE parser.state # s
            BY <5>1, <6>2 DEF WithByte, InBodyText
          <6> QED
            BY <6>1, <6>2
        <5>3. /\ u = sent.uri /\ w = sent.reason /\ b = sent.body
              /\ h = IF parser.state = s THEN longer ELSE begins
          BY <2>2, <4>3, <5>1
        <5> HIDE DEF W, u, w, b, h
        <5> QED
          BY <1>2, <1>3, <5>2, <5>3
      <4>4. CASE to = {"header_value"}
        <5>1. /\ s \notin UrlStates /\ s # "s_res_status" /\ s # "s_header_field"
              /\ s = "s_header_value" /\ ~InBodyText
          BY <2>2, <4>4, TextTable
        <5>2. W = [sent EXCEPT !.headers = value]
          <6>1. W = [sent EXCEPT !.headers[Len(hs)].value = @ + 1]
            BY <5>1 DEF WithByte, InBodyText
          <6>2. [sent EXCEPT !.headers[Len(hs)].value = @ + 1]
                   = [sent EXCEPT !.headers = value]
            BY <1>3, Zenon
          <6> QED
            BY <6>1, <6>2
        <5>3. u = sent.uri /\ w = sent.reason /\ b = sent.body /\ h = value
          BY <2>2, <4>4, <5>1
        <5> HIDE DEF W, u, w, b, h
        <5> QED
          BY <1>2, <1>3, <5>2, <5>3
      <4>5. CASE to = {}
        <5>1. /\ s \notin UrlStates /\ s # "s_res_status" /\ s # "s_header_field"
              /\ s # "s_header_value"
          BY <4>5, TextTable
        <5>2. W = IF InBodyText THEN [sent EXCEPT !.body = sent.body + 1] ELSE sent
          BY <5>1 DEF WithByte, InBodyText
        <5>3. /\ u = sent.uri /\ w = sent.reason /\ h = hs
              /\ b = IF InBodyText THEN sent.body + 1 ELSE sent.body
          BY <2>2, <4>5
        <5> HIDE DEF W, u, w, b, h
        <5>4. CASE InBodyText
          BY <1>2, <1>3, <5>2, <5>3, <5>4
        <5>5. CASE ~InBodyText
          BY <1>2, <1>3, <5>2, <5>3, <5>5
        <5> QED
          BY <5>4, <5>5
      <4> QED
        BY <4>1, <4>2, <4>3, <4>4, <4>5, TextTable
    <3> HIDE DEF W, u, w, b, h, d
    <3> QED
      BY <1>1, <1>2, <1>3, <1>4, <3>1, <3>2, <3>3
  <2> QED
    BY <2>1, <2>2
<1> HIDE DEF u, w, b, h, d
<1>8. /\ sent'.uri = u /\ sent'.reason = w /\ sent'.headers = h
      /\ sent'.body = b /\ sent'.complete = d
  BY <1>2, <1>4, <1>7
<1>9. SentType'
  BY <1>4, <1>7, <1>8 DEF SentType
<1> QED
  BY <1>8, <1>9 DEF u, w, b, h, d

-----------------------------------------------------------------------------
(* What the builder sees of a pass through the switch: a text or a part of *)
(* a body is begun, goes on or ends, or the step has to do with none.      *)

\* The type of the message and its status stay as they are.
Plain == SameType /\ SameStatus

\* The state before the first byte of a header's name or value.
StartsIn(t) == CASE t = "header_field" -> {"s_header_field_start"}
                 [] t = "header_value" -> {"s_header_value_discard_ws",
                                           "s_header_value_start"}
                 [] OTHER -> RequestLine \cup BeforeReason
EndsIn(t) == CASE t = "header_field" -> {"s_header_value_discard_ws"}
               [] t = "header_value" -> {"s_header_almost_done"}
               [] OTHER -> RequestLine \cup {"s_header_field_start",
                                             "s_res_line_almost_done"}

\* The first byte of text t, a byte more of it, and the byte after it.
Enters(t) == /\ TextOf(parser.state) = {} /\ TextOf(parser'.state) = {t}
             /\ parser.state \in StartsIn(t)
             /\ Onward(MARK(t), <<>>) /\ Plain
Stays(t) == /\ TextOf(parser.state) = {t} /\ TextOf(parser'.state) = {t}
            /\ Onward(marks, <<>>) /\ Plain
Leaves(t) == /\ TextOf(parser.state) = {t} /\ TextOf(parser'.state) = {}
             /\ parser'.state \in EndsIn(t)
             /\ \/ Onward(Unmark(t), Data(t, marks))
                \/ Again(Unmark(t), Data(t, marks))
             /\ Plain

\* A value of no bytes.
EmptyValue == /\ From("s_header_value_discard_lws", "s_header_field_start")
              /\ Again(Unmark("header_value"),
                       Data("header_value", MARK("header_value")))
              /\ Plain

\* A byte of a body, the last one of a body of known length, the end of a chunk.
BodyByte == /\ parser.state \in {"s_body_identity", "s_body_identity_eof",
                                 "s_chunk_data"}
            /\ parser'.state \in BodyMarked
            /\ Onward(MARK("body"), <<>>) /\ Plain
BodyLast == /\ From("s_body_identity", "s_message_done")
            /\ Again(Unmark("body"), Data("body", Advance(MARK("body"))))
            /\ parser'.flags = parser.flags /\ Plain
ChunkLast == /\ From("s_chunk_data_almost_done", "s_chunk_data_done")
             /\ Onward(Unmark("body"), Data("body", marks)) /\ Plain

\* Where a message begins, and the states with a status or a value still to come.
Begun == cb' = Notify("message_begin")
StatusToCome == BeforeReason \cup {"s_res_or_resp_H"}
ValuesToCome == HeaderStates \ {"s_header_field_start", "s_header_field"}

\* How the states of a step without text follow each other.
Follows(s, t) ==
    /\ s \in StartStates => t \in StartStates \/ Begun
    /\ s \in NewStates => t \in NewStates \/ Begun
    /\ cb' = Notify("message_complete")
         => t \in NewStates /\ s \notin StartStates \cup NewStates
    /\ t \in StatusToCome => s \in StatusToCome \/ Begun
    /\ s \notin BodyMarked
    /\ t = "s_message_done" => "F_CHUNKED" \in parser'.flags
    /\ s = "s_message_done" => byte' = NoByte /\ t # "s_message_done"
    /\ t \in ValuesToCome => s \in ValuesToCome
    /\ t \in Discards => s \in Discards
    /\ t = "s_header_value_start" => s = "s_header_value_lws"

\* A pass that has nothing to do with a text.
NoText == /\ TextOf(parser.state) = {} /\ TextOf(parser'.state) = {}
          /\ Follows(parser.state, parser'.state)
          /\ marks' \in {marks, Advance(marks), NoMarks}
          /\ cb' = <<>> \/ \E n : n \notin Texts /\ cb' = Notify(n)
          /\ SameType \/ parser.type = "HTTP_BOTH"
          /\ SameStatus \/ parser.state \in BeforeReason

\* All that a pass can do.
Deeds == \/ \E t \in Texts \ {"body"} : Enters(t) \/ Stays(t) \/ Leaves(t)
         \/ EmptyValue \/ BodyByte \/ BodyLast \/ ChunkLast \/ NoText

\* The names of the callbacks that hand over no text.
LEMMA Notices ==
    /\ \A n \in {"message_begin", "headers_complete", "chunk_header",
                 "chunk_complete", "message_complete"} : n \notin Texts
    /\ \A n, m : Notify(n) = Notify(m) => n = m
    /\ \A n : Notify(n) # <<>>
<1>1. \A n, m : Notify(n) = Notify(m) => n = m
  <2> SUFFICES ASSUME NEW n, NEW m, Notify(n) = Notify(m) PROVE n = m
    OBVIOUS
  <2>1. /\ <<[on |-> n, len |-> 0]>>[1] = [on |-> n, len |-> 0]
        /\ <<[on |-> m, len |-> 0]>>[1] = [on |-> m, len |-> 0]
        /\ [on |-> n, len |-> 0].on = n /\ [on |-> m, len |-> 0].on = m
    BY SMT
  <2> QED
    BY <2>1 DEF Notify
<1>2. \A n : Notify(n) # <<>>
  BY SMT DEF Notify
<1> QED
  BY <1>1, <1>2 DEF Texts

\* Where the states of a first line, of headers and of a body stand.
LEMMA DeedNames ==
    /\ \A s \in RequestLine \cup BeforeReason \cup StartStates \cup NewStates
                  \cup {"s_res_or_resp_H", "s_res_line_almost_done"} :
          /\ TextOf(s) = {} /\ s \notin BodyMarked /\ s \notin ValuesToCome
          /\ s \notin Discards /\ s # "s_message_done"
          /\ s # "s_header_value_start"
    /\ \A s \in InHeaders \ {"s_header_field", "s_header_value"} :
          /\ TextOf(s) = {} /\ s \notin BodyMarked /\ s # "s_message_done"
    /\ \A s \in InBody : /\ TextOf(s) = {} /\ s \notin ValuesToCome
                         /\ s \notin Discards /\ s # "s_header_value_start"
    /\ \A s \in RequestLine \cup InHeaders \cup InBody
                  \cup {"s_res_line_almost_done"} :
          s \notin StatusToCome \cup StartStates \cup NewStates
    /\ \A s \in BeforeReason \cup {"s_res_or_resp_H"} :
          s \notin StartStates \cup NewStates
    /\ \A s \in StartStates \cup NewStates : s \notin StatusToCome
    /\ Discards \subseteq ValuesToCome /\ ValuesToCome \subseteq InHeaders
    /\ BodyMarked \subseteq InBody
    /\ \A s \in NewStates : s \in StartStates \cup {"s_dead"}
<1>1. \A s \in RequestLine \cup BeforeReason \cup StartStates \cup NewStates
                  \cup {"s_res_or_resp_H", "s_res_line_almost_done"} :
          s \notin UrlStates \cup {"s_res_status", "s_header_field",
                                   "s_header_value"}
  BY SMT DEF RequestLine, BeforeReason, StartStates, NewStates, UrlStates,
     UrlHeads, UrlTails
<1>2. \A s \in (InHeaders \ {"s_header_field", "s_header_value"}) \cup InBody :
          s \notin UrlStates \cup {"s_res_status", "s_header_field",
                                   "s_header_value"}
  BY SMT DEF InHeaders, HeaderStates, InBody, BodyStates, ChunkDataStates,
     ChunkSizeStates, UrlStates, UrlHeads, UrlTails
<1>3. \A s \in RequestLine \cup BeforeReason \cup StartStates \cup NewStates
                  \cup {"s_res_or_resp_H", "s_res_line_almost_done"} :
          /\ s \notin BodyMarked /\ s \notin ValuesToCome
          /\ s \notin Discards /\ s # "s_message_done"
          /\ s # "s_header_value_start"
  BY SMT DEF RequestLine, BeforeReason, StartStates, NewStates, BodyMarked,
     OwingStates, ValuesToCome, HeaderStates, Discards
<1>4. \A s \in InHeaders : s \notin BodyMarked /\ s # "s_message_done"
  BY SMT DEF InHeaders, HeaderStates, BodyMarked, OwingStates
<1>5. \A s \in InBody : /\ s \notin ValuesToCome
                        /\ s \notin Discards /\ s # "s_header_value_start"
  BY SMT DEF InBody, BodyStates, ChunkDataStates, ChunkSizeStates,
     ValuesToCome, HeaderStates, Discards
<1>6. \A s \in RequestLine \cup InHeaders \cup InBody
                  \cup {"s_res_line_almost_done"} :
          s \notin StatusToCome \cup StartStates \cup NewStates
  BY SMT DEF RequestLine, InHeaders, HeaderStates, InBody, BodyStates,
     ChunkDataStates, ChunkSizeStates, StatusToCome, BeforeReason, StartStates,
     NewStates
<1>7. /\ \A s \in BeforeReason \cup {"s_res_or_resp_H"} :
            s \notin StartStates \cup NewStates
      /\ \A s \in StartStates \cup NewStates : s \notin StatusToCome
  BY SMT DEF StatusToCome, BeforeReason, StartStates, NewStates
<1>8. /\ Discards \subseteq ValuesToCome /\ ValuesToCome \subseteq InHeaders
      /\ BodyMarked \subseteq InBody
      /\ \A s \in NewStates : s \in StartStates \cup {"s_dead"}
  BY SMT DEF Discards, ValuesToCome, InHeaders, HeaderStates, BodyMarked,
     OwingStates, InBody, BodyStates, ChunkDataStates, NewStates, StartStates
<1> QED
  BY <1>1, <1>2, <1>3, <1>4, <1>5, <1>6, <1>7, <1>8, TextTable

\* The first byte of a message.
LEMMA BeginDeeds ==
    ASSUME Pass, KindInv, BeginMoves
    PROVE  NoText
<1> DEFINE s == parser.state
           t == parser'.state
<1>1. parser.http_errno = "OK"
  BY PassParser
<1>2. /\ s \in StartStates \cup {"s_dead", "s_res_or_resp_H"}
      /\ t \in StartStates \cup {"s_dead", "s_res_or_resp_H", "s_res_H",
                                 "s_req_method", "s_res_HT"}
      /\ marks' \in {marks, Advance(marks), NoMarks}
      /\ cb' = <<>> \/ cb' = Notify("message_begin")
      /\ SameStatus
      /\ SameType \/ s \in {"s_start_req_or_res", "s_res_or_resp_H"}
      /\ s \in StartStates => t \in StartStates \/ Begun
      /\ s = "s_dead" => t = "s_dead"
      /\ s \in NewStates => s = t \/ Begun
      /\ s = "s_res_or_resp_H" => t \in {"s_res_HT", "s_req_method"}
      /\ t = "s_res_HT" => s = "s_res_or_resp_H"
      /\ t \in {"s_res_H", "s_res_or_resp_H"} => Begun
  BY SMT DEF BeginMoves, From, Onward, Again, Begun, StartStates, NewStates,
     Kept, SameStatus, SameType
<1>3. /\ "s_res_H" \in BeforeReason /\ "s_res_HT" \in BeforeReason
      /\ "s_req_method" \in RequestLine /\ "s_dead" \in NewStates
  BY DEF BeforeReason, RequestLine, NewStates
<1>4. SameType \/ parser.type = "HTTP_BOTH"
  BY <1>1, <1>2 DEF KindInv, s_now
<1>5. cb' # Notify("message_complete")
  BY <1>2, Notices
<1>6. TextOf(s) = {} /\ TextOf(t) = {} /\ s \notin BodyMarked
        /\ t \notin ValuesToCome /\ t \notin Discards /\ t # "s_message_done"
        /\ t # "s_header_value_start" /\ s # "s_message_done"
  BY <1>2, <1>3, DeedNames
<1>7. t \in StatusToCome => s \in StatusToCome \/ Begun
  BY <1>2, <1>3, DeedNames DEF StatusToCome
<1> HIDE DEF s, t
<1>8. Follows(s, t)
  BY <1>2, <1>5, <1>6, <1>7 DEF Follows
<1> QED
  BY <1>2, <1>4, <1>6, <1>8, Notices DEF NoText, s, t

\* The first line of a message.
LEMMA LineDeeds ==
    ASSUME Pass, LineMoves
    PROVE  Deeds
<1> DEFINE s == parser.state
           t == parser'.state
<1>1. SameType
  BY DEF LineMoves, Kept
<1>3. /\ "s_header_field_start" \in InHeaders
      /\ "s_header_field_start" \notin {"s_header_field", "s_header_value"}
      /\ "s_header_field_start" \notin ValuesToCome
      /\ "s_header_field_start" \notin Discards
  BY DEF InHeaders, HeaderStates, ValuesToCome, Discards
<1>4. CASE /\ s \in RequestLine \cup BeforeReason \cup {"s_res_line_almost_done"}
           /\ t \in RequestLine \cup BeforeReason \cup {"s_res_line_almost_done",
                                                        "s_header_field_start"}
           /\ t \in BeforeReason => s \in BeforeReason
           /\ Onward(marks, <<>>)
           /\ SameStatus \/ s \in BeforeReason
  <2>1. /\ TextOf(s) = {} /\ TextOf(t) = {} /\ s \notin BodyMarked
        /\ t \notin ValuesToCome /\ t \notin Discards /\ t # "s_message_done"
        /\ t # "s_header_value_start" /\ s # "s_message_done"
        /\ s \notin StartStates \cup NewStates
    BY <1>3, <1>4, DeedNames
  <2>2. t \in StatusToCome => s \in StatusToCome
    BY <1>4, <1>3, DeedNames DEF StatusToCome
  <2>3. cb' = <<>> /\ marks' = Advance(marks)
    BY <1>4 DEF Onward
  <2>4. cb' # Notify("message_complete")
    BY <2>3, Notices
  <2> HIDE DEF s, t
  <2>5. Follows(s, t)
    BY <2>1, <2>2, <2>4 DEF Follows
  <2> QED
    BY <1>1, <1>4, <2>1, <2>3, <2>5 DEF NoText, Deeds, s, t
<1>5. CASE \/ /\ s = "s_req_spaces_before_url" /\ t \in UrlStates
              /\ Onward(MARK("url"), <<>>) /\ Kept
           \/ /\ s = "s_res_status_start" /\ t = "s_res_status"
              /\ Onward(MARK("status"), <<>>) /\ Kept
  <2>1. s \in RequestLine \cup BeforeReason
    BY <1>5 DEF RequestLine, BeforeReason
  <2>2. TextOf(s) = {} /\ \A x \in {"url", "status"} : s \in StartsIn(x)
    BY <2>1, DeedNames DEF StartsIn
  <2>3. \E x \in {"url", "status"} : TextOf(t) = {x} /\ Onward(MARK(x), <<>>) /\ Plain
    BY <1>5, TextTable DEF Kept, Plain
  <2> QED
    BY <2>2, <2>3 DEF Enters, Deeds, Texts
<1>6. CASE \/ /\ s \in UrlStates /\ t \in UrlStates
              /\ Onward(marks, <<>>) /\ Kept
           \/ /\ s = "s_res_status" /\ t = "s_res_status"
              /\ Onward(marks, <<>>) /\ Kept
  <2>1. \E x \in {"url", "status"} :
           TextOf(s) = {x} /\ TextOf(t) = {x} /\ Onward(marks, <<>>) /\ Plain
    BY <1>6, TextTable DEF Kept, Plain
  <2> QED
    BY <2>1 DEF Stays, Deeds, Texts
<1>7. CASE \/ /\ s \in UrlStates
              /\ t \in {"s_req_http_start", "s_req_line_almost_done",
                        "s_header_field_start"}
              /\ Onward(Unmark("url"), Data("url", marks)) /\ Kept
           \/ /\ s = "s_res_status"
              /\ t \in {"s_res_line_almost_done", "s_header_field_start"}
              /\ Onward(Unmark("status"), Data("status", marks)) /\ Kept
  <2>1. \A x \in {"url", "status"} : t \in EndsIn(x)
    BY <1>7 DEF EndsIn, RequestLine
  <2>2. TextOf(t) = {}
    <3>1. t \in RequestLine \cup {"s_res_line_almost_done", "s_header_field_start"}
      BY <1>7 DEF RequestLine
    <3> QED
      BY <1>3, <3>1, DeedNames
  <2>3. \E x \in {"url", "status"} :
           TextOf(s) = {x} /\ Onward(Unmark(x), Data(x, marks)) /\ Plain
    BY <1>7, TextTable DEF Kept, Plain
  <2> QED
    BY <2>1, <2>2, <2>3 DEF Leaves, Deeds, Texts
<1>8. CASE Among(RequestLine, RequestLine \cup {"s_header_field_start"})
             /\ Onward(marks, <<>>) /\ Kept
  <2>1. t \notin BeforeReason
    BY <1>3, <1>8, DeedNames DEF Among, StatusToCome
  <2> QED
    BY <1>4, <1>8, <2>1 DEF Among, Kept
<1>9. CASE /\ \/ Among(BeforeReason, BeforeReason \cup {"s_res_line_almost_done",
                                                        "s_header_field_start"})
              \/ From("s_res_line_almost_done", "s_header_field_start")
           /\ Onward(marks, <<>>)
           /\ SameStatus \/ parser.state \in {"s_res_first_status_code",
                                              "s_res_status_code"}
  <2>1. "s_header_field_start" \notin BeforeReason
    BY <1>3, DeedNames DEF StatusToCome
  <2>2. {"s_res_first_status_code", "s_res_status_code"} \subseteq BeforeReason
    BY DEF BeforeReason
  <2> QED
    BY <1>4, <1>9, <2>1, <2>2 DEF Among, From
<1> QED
  BY <1>5, <1>6, <1>7, <1>8, <1>9 DEF LineMoves, Among, From

\* The headers.
LEMMA HeaderDeeds ==
    ASSUME Pass, HeaderMoves
    PROVE  Deeds
<1> DEFINE s == parser.state
           t == parser'.state
<1>1. Plain
  BY DEF HeaderMoves, Kept, Plain
<1>2. TextOf("s_header_field") = {"header_field"}
        /\ TextOf("s_header_value") = {"header_value"}
  BY TextTable
<1>3. CASE /\ s \in InHeaders \ {"s_header_field", "s_header_value"}
           /\ t \in InHeaders \ {"s_header_field", "s_header_value"}
           /\ t \in ValuesToCome => s \in ValuesToCome
           /\ t \in Discards => s \in Discards
           /\ t = "s_header_value_start" => s = "s_header_value_lws"
           /\ Onward(marks, <<>>) \/ Again(marks, <<>>)
  <2>1. /\ TextOf(s) = {} /\ TextOf(t) = {} /\ s \notin BodyMarked
        /\ t # "s_message_done" /\ s # "s_message_done"
        /\ s \notin StartStates \cup NewStates
        /\ t \notin StatusToCome
    BY <1>3, DeedNames
  <2>2. cb' = <<>> /\ marks' \in {marks, Advance(marks), NoMarks}
    BY <1>3 DEF Onward, Again
  <2>3. cb' # Notify("message_complete")
    BY <2>2, Notices
  <2> HIDE DEF s, t
  <2>4. Follows(s, t)
    BY <1>3, <2>1, <2>3 DEF Follows
  <2> QED
    BY <1>1, <2>1, <2>2, <2>4 DEF NoText, Deeds, Plain, s, t
<1>4. ASSUME NEW x \in {"header_field", "header_value"}, TextOf(t) = {x},
             s \in StartsIn(x), Onward(MARK(x), <<>>),
             s \in InHeaders \ {"s_header_field", "s_header_value"}
      PROVE  Deeds
  <2>1. TextOf(s) = {}
    BY <1>4, DeedNames
  <2> QED
    BY <1>1, <1>4, <2>1 DEF Deeds, Enters, Texts
<1>5. CASE /\ s \in {"s_header_field", "s_header_value"} /\ t = s
           /\ Onward(marks, <<>>)
  <2>1. \E x \in {"header_field", "header_value"} :
           TextOf(s) = {x} /\ TextOf(t) = {x}
    BY <1>2, <1>5
  <2> QED
    BY <1>1, <1>5, <2>1 DEF Deeds, Stays, Texts
<1>6. ASSUME NEW x \in {"header_field", "header_value"}, TextOf(s) = {x},
             t \in EndsIn(x),
             t \in InHeaders \ {"s_header_field", "s_header_value"},
             \/ Onward(Unmark(x), Data(x, marks))
             \/ Again(Unmark(x), Data(x, marks))
      PROVE  Deeds
  <2>1. TextOf(t) = {}
    BY <1>6, DeedNames
  <2> QED
    BY <1>1, <1>6, <2>1 DEF Deeds, Leaves, Texts
<1>7. /\ {"s_header_field_start", "s_headers_almost_done", "s_header_almost_done",
          "s_header_value_lws", "s_header_value_start"} \cup Discards
            \subseteq InHeaders \ {"s_header_field", "s_header_value"}
      /\ {"s_header_almost_done", "s_header_value_lws"} \cup Discards
            \subseteq ValuesToCome
      /\ "s_header_value_discard_ws" \in Discards
      /\ {"s_header_field_start", "s_headers_almost_done"} \cap ValuesToCome = {}
      /\ {"s_header_value_lws", "s_header_value_start", "s_header_field_start",
          "s_headers_almost_done"} \cap Discards = {}
      /\ "s_header_value_start" \notin Discards
  BY SMT DEF InHeaders, HeaderStates, Discards, ValuesToCome
<1>8. CASE From("s_header_field_start", "s_headers_almost_done")
             /\ (Onward(marks, <<>>) \/ Again(marks, <<>>))
  BY <1>3, <1>7, <1>8 DEF From
<1>9. CASE From("s_header_field_start", "s_header_field")
             /\ Onward(MARK("header_field"), <<>>)
  BY <1>2, <1>4, <1>7, <1>9 DEF From, StartsIn
<1>10. CASE /\ \/ From("s_header_field", "s_header_field")
               \/ From("s_header_value", "s_header_value")
            /\ Onward(marks, <<>>)
  BY <1>5, <1>10 DEF From
<1>11. CASE Among(Discards, Discards) /\ Onward(marks, <<>>)
  BY <1>3, <1>7, <1>11 DEF Among
<1>12. CASE From("s_header_almost_done", "s_header_value_lws")
              /\ Onward(marks, <<>>)
  BY <1>3, <1>7, <1>12 DEF From
<1>13. CASE From("s_header_field", "s_header_value_discard_ws")
              /\ Onward(Unmark("header_field"), Data("header_field", marks))
  BY <1>2, <1>6, <1>7, <1>13 DEF From, EndsIn
<1>14. CASE Among({"s_header_value_discard_ws", "s_header_value_start"},
                  {"s_header_value"}) /\ Onward(MARK("header_value"), <<>>)
  BY <1>2, <1>4, <1>7, <1>14 DEF Among, StartsIn
<1>15. CASE /\ From("s_header_value", "s_header_almost_done")
            /\ \/ Onward(Unmark("header_value"), Data("header_value", marks))
               \/ Again(Unmark("header_value"), Data("header_value", marks))
  BY <1>2, <1>6, <1>7, <1>15 DEF From, EndsIn
<1>16. CASE Among({"s_header_value_lws"},
                  {"s_header_value_start", "s_header_field_start"})
              /\ Again(marks, <<>>)
  BY <1>3, <1>7, <1>16 DEF Among
<1>17. CASE From("s_header_value_discard_lws", "s_header_field_start")
              /\ Again(Unmark("header_value"),
                       Data("header_value", MARK("header_value")))
  BY <1>1, <1>17 DEF Deeds, EmptyValue
<1> QED
  BY <1>8, <1>9, <1>10, <1>11, <1>12, <1>13, <1>14, <1>15, <1>16, <1>17
     DEF HeaderMoves

\* The last byte of a message.
LEMMA EndDeeds ==
    ASSUME Pass, EndMoves
    PROVE  NoText
<1> DEFINE s == parser.state
           t == parser'.state
<1>1. /\ s \in {"s_headers_done", "s_message_done"} /\ t \in NewStates
      /\ cb' = Notify("message_complete") /\ byte' = NoByte
      /\ marks' \in {marks, Advance(marks), NoMarks}
      /\ SameType /\ SameStatus
  BY DEF EndMoves, Among, Kept, NewStates
<1>2. s \in InBody
  BY <1>1 DEF InBody, BodyStates
<1>3. s \notin BodyMarked
  BY <1>1 DEF BodyMarked, OwingStates
<1>4. /\ TextOf(s) = {} /\ TextOf(t) = {}
      /\ s \notin StartStates \cup NewStates
      /\ t \notin StatusToCome /\ t \notin ValuesToCome /\ t \notin Discards
      /\ t # "s_message_done" /\ t # "s_header_value_start"
  BY <1>1, <1>2, DeedNames
<1> HIDE DEF s, t
<1>5. Follows(s, t)
  BY <1>1, <1>3, <1>4 DEF Follows
<1> QED
  BY <1>1, <1>4, <1>5, Notices DEF NoText, s, t

\* The body.
LEMMA BodyDeeds ==
    ASSUME Pass, KindInv', parser'.http_errno = "OK", BodyMoves
    PROVE  Deeds
<1> DEFINE s == parser.state
           t == parser'.state
           notices == {"chunk_complete", "headers_complete", "chunk_header"}
<1>1. Plain
  BY DEF BodyMoves, Kept, Plain
<1>2. CASE /\ s \in {"s_headers_almost_done"} \cup (InBody \ BodyMarked)
           /\ s # "s_message_done"
           /\ t \in InBody \cup {"s_header_field_start"}
           /\ t = "s_message_done" => "F_CHUNKED" \in parser'.flags
           /\ \/ \E c \in notices : Onward(marks, Notify(c)) \/ Again(marks, Notify(c))
              \/ Onward(marks, <<>>)
  <2>1. /\ "s_headers_almost_done" \in InHeaders \ {"s_header_field", "s_header_value"}
        /\ "s_header_field_start" \in InHeaders \ {"s_header_field", "s_header_value"}
        /\ "s_header_field_start" \notin ValuesToCome
        /\ "s_header_field_start" \notin Discards
    BY DEF InHeaders, HeaderStates, ValuesToCome, Discards
  <2>2. /\ TextOf(s) = {} /\ TextOf(t) = {} /\ s \notin BodyMarked
        /\ s \notin StartStates \cup NewStates
        /\ t \notin StatusToCome /\ t \notin ValuesToCome /\ t \notin Discards
        /\ t # "s_header_value_start"
    BY <1>2, <2>1, DeedNames
  <2>3. /\ cb' = <<>> \/ \E c \in notices : cb' = Notify(c)
        /\ marks' \in {marks, Advance(marks), NoMarks}
    BY <1>2 DEF Onward, Again
  <2>4. cb' # Notify("message_complete") /\ \A c \in notices : c \notin Texts
    BY <2>3, Notices
  <2> HIDE DEF s, t
  <2>5. Follows(s, t)
    BY <1>2, <2>2, <2>4 DEF Follows
  <2> QED
    BY <1>1, <2>2, <2>3, <2>4, <2>5 DEF NoText, Deeds, Plain, s, t
<1>3. CASE From("s_headers_almost_done", "s_message_done")
             /\ "F_TRAILING" \in parser.flags
             /\ Again(marks, Notify("chunk_complete")) /\ Kept
  <2>1. "F_CHUNKED" \in parser'.flags
    BY <1>3 DEF Kept, KindInv
  <2>2. "s_message_done" \in InBody
    BY DEF InBody, BodyStates
  <2> QED
    BY <1>2, <1>3, <2>1, <2>2 DEF From
<1>4. CASE From("s_headers_almost_done", "s_headers_done")
             /\ Again(marks, Notify("headers_complete"))
  <2>1. "s_headers_done" \in InBody
    BY DEF InBody
  <2> QED
    BY <1>2, <1>4, <2>1 DEF From
<1>5. CASE Among({"s_headers_done"}, {"s_chunk_size_start", "s_body_identity",
                                      "s_body_identity_eof"})
             /\ Onward(marks, <<>>)
  <2>1. /\ {"s_chunk_size_start", "s_body_identity", "s_body_identity_eof",
            "s_headers_done"} \subseteq InBody
        /\ "s_headers_done" \notin BodyMarked
    BY DEF InBody, BodyStates, ChunkSizeStates, BodyMarked, OwingStates
  <2> QED
    BY <1>2, <1>5, <2>1 DEF Among
<1>6. CASE /\ \/ From("s_body_identity", "s_body_identity")
              \/ From("s_body_identity_eof", "s_body_identity_eof")
              \/ Among({"s_chunk_data"}, {"s_chunk_data", "s_chunk_data_almost_done"})
           /\ Onward(MARK("body"), <<>>)
  BY <1>1, <1>6 DEF Deeds, BodyByte, From, Among, BodyMarked, OwingStates
<1>7. CASE From("s_body_identity", "s_message_done")
             /\ Again(Unmark("body"), Data("body", Advance(MARK("body"))))
             /\ parser'.flags = parser.flags
  BY <1>1, <1>7 DEF Deeds, BodyLast
<1>8. CASE Among(ChunkSizeStates, ChunkSizeStates) /\ Onward(marks, <<>>)
  <2>1. \A x \in ChunkSizeStates : x \in InBody \ BodyMarked /\ x # "s_message_done"
    BY SMT DEF InBody, ChunkSizeStates, BodyMarked, OwingStates
  <2> QED
    BY <1>2, <1>8, <2>1 DEF Among
<1>9. CASE /\ \/ From("s_chunk_size_almost_done", "s_header_field_start")
              \/ From("s_chunk_size_almost_done", "s_chunk_data")
           /\ Onward(marks, Notify("chunk_header"))
  <2>1. /\ "s_chunk_size_almost_done" \in InBody \ BodyMarked
        /\ "s_chunk_data" \in InBody
    BY DEF InBody, BodyStates, ChunkDataStates, ChunkSizeStates, BodyMarked,
       OwingStates
  <2> QED
    BY <1>2, <1>9, <2>1 DEF From
<1>10. CASE From("s_chunk_data_almost_done", "s_chunk_data_done")
              /\ Onward(Unmark("body"), Data("body", marks))
  BY <1>1, <1>10 DEF Deeds, ChunkLast
<1>11. CASE From("s_chunk_data_done", "s_chunk_size_start")
              /\ Onward(marks, Notify("chunk_complete"))
  <2>1. /\ "s_chunk_data_done" \in InBody \ BodyMarked
        /\ "s_chunk_size_start" \in InBody
    BY DEF InBody, BodyStates, ChunkDataStates, ChunkSizeStates, BodyMarked,
       OwingStates
  <2> QED
    BY <1>2, <1>11, <2>1 DEF From
<1> QED
  BY <1>3, <1>4, <1>5, <1>6, <1>7, <1>8, <1>9, <1>10, <1>11 DEF BodyMoves

\* Every pass that finds no error is one of those.
LEMMA MovesDeeds ==
    ASSUME Pass, KindInv, KindInv', Moves
    PROVE  Deeds
  BY BeginDeeds, LineDeeds, HeaderDeeds, EndDeeds, BodyDeeds DEF Moves, Deeds

-----------------------------------------------------------------------------
(* The account of each text: what is under its mark and what is told. *)

\* How much of text t is under its mark.
Marked(t) == IF marks[t] = NoMark THEN 0 ELSE marks[t]

\* One byte of a body that has been told but not taken.
Due == IF s_now = "s_message_done" /\ "F_CHUNKED" \notin parser.flags THEN 1 ELSE 0

\* A step tells n bytes of text t, or nothing of it.
Tells(t, n) == cb' = <<[on |-> t, len |-> n]>>
Untold(t) == cb' = <<>> \/ \E n, l : n # t /\ l \in Nat /\ Tells(n, l)

\* Which callbacks announce and complete a message.
LEMMA Announcements ==
    /\ cb' = <<>> => ~Announced /\ ~Completed
    /\ \A n, l : Tells(n, l) => /\ Announced <=> n = "message_begin"
                                /\ Completed <=> n = "message_complete"
<1>1. cb' = <<>> => ~Announced /\ ~Completed
  BY SMT DEF Announced, Completed
<1> SUFFICES ASSUME NEW n, NEW l, Tells(n, l)
             PROVE  /\ Announced <=> n = "message_begin"
                    /\ Completed <=> n = "message_complete"
  BY <1>1
<1>2. DOMAIN cb' = {1} /\ cb'[1].on = n
  BY SMT DEF Tells
<1> QED
  BY <1>2 DEF Announced, Completed

\* A text under its mark is told, and nothing else.
LEMMA DataTells ==
    ASSUME NEW t \in Texts, NEW mk, NEW k \in Nat, mk[t] = k, cb' = Data(t, mk)
    PROVE  Tells(t, k) /\ ~Announced /\ ~Completed
<1>1. k # NoMark
  BY SMT DEF NoMark
<1>2. Tells(t, k)
  BY <1>1 DEF Data, Tells
<1>3. t # "message_begin" /\ t # "message_complete"
  BY Notices
<1> QED
  BY <1>2, <1>3, Announcements

\* Marks, as they are and as a step may set them.
LEMMA MarkFacts ==
    ASSUME IInv
    PROVE  /\ marks \in [Texts -> Nat \cup {NoMark}]
           /\ \A t \in Texts : Marked(t) \in Nat
           /\ \A t \in Texts \ {"body"} : t \notin TextOf(s_now) => Marked(t) = 0
           /\ s_now \notin BodyMarked => Marked("body") = 0
           /\ call = "running" => \A t \in Texts \ {"body"} :
                                     t \in TextOf(s_now) => marks[t] = Marked(t)
<1>1. /\ marks \in [Texts -> Nat \cup {NoMark}] /\ CallInv
      /\ call \in {"idle", "begun", "running", "ended"}
  BY DEF IInv, TypeOK
<1>2. \A t \in Texts : marks[t] \in Nat \cup {NoMark} /\ NoMarks[t] = NoMark
  BY <1>1 DEF NoMarks
<1>3. "body" \in Texts
  BY DEF Texts
<1> QED
  BY <1>1, <1>2, <1>3 DEF CallInv, Marked

\* The same marks after a step.
LEMMA MarkFactsNext ==
    ASSUME IInv'
    PROVE  /\ marks' \in [Texts -> Nat \cup {NoMark}]
           /\ \A t \in Texts : Marked(t)' \in Nat
           /\ \A t \in Texts \ {"body"} :
                 t \notin TextOf(parser'.state) => Marked(t)' = 0
           /\ parser'.state \notin BodyMarked => Marked("body")' = 0
<1>1. /\ marks' \in [Texts -> Nat \cup {NoMark}] /\ CallInv'
      /\ call' \in {"idle", "begun", "running", "ended"}
  BY DEF IInv, TypeOK
<1>2. \A t \in Texts : marks'[t] \in Nat \cup {NoMark} /\ NoMarks[t] = NoMark
  BY <1>1 DEF NoMarks
<1>3. "body" \in Texts
  BY DEF Texts
<1> QED
  BY <1>1, <1>2, <1>3 DEF CallInv, Marked, s_now

\* One byte more under the mark of t.
LEMMA MarkGrows ==
    ASSUME marks \in [Texts -> Nat \cup {NoMark}], NEW t \in Texts,
           marks' = Advance(MARK(t))
    PROVE  Marked(t)' = Marked(t) + 1 /\ Marked(t)' \in Nat
<1>1. marks[t] \in Nat \cup {NoMark} /\ NoMark \notin Nat
  BY SMT DEF NoMark
<1>2. MARK(t)[t] = Marked(t) /\ Marked(t) \in Nat
  BY <1>1 DEF MARK, Marked
<1>3. marks'[t] = Marked(t) + 1
  BY <1>1, <1>2 DEF Advance
<1> DEFINE k == Marked(t)
<1>4. k + 1 # NoMark /\ k + 1 \in Nat
  <2>1. k \in Nat
    BY <1>2
  <2> HIDE DEF k
  <2> QED
    BY <2>1, SMT DEF NoMark
<1> QED
  BY <1>3, <1>4 DEF Marked

\* The mark of t is one byte on, if it was set.
LEMMA MarkAdvances ==
    ASSUME marks \in [Texts -> Nat \cup {NoMark}], NEW t \in Texts,
           marks[t] # NoMark, marks' = Advance(marks)
    PROVE  Marked(t)' = Marked(t) + 1
<1>1. MARK(t) = marks
  BY DEF MARK
<1> QED
  BY <1>1, MarkGrows

\* A text, byte by byte: it has to do with the step or it has not.
LEMMA TextAccount ==
    ASSUME Pass, Holds, Deeds, NEW t \in Texts \ {"body"}
    PROVE  \/ /\ Untold(t) /\ Marked(t) = 0 /\ Marked(t)' = 0
              /\ TextOf(parser.state) # {t} /\ TextOf(parser'.state) # {t}
           \/ /\ cb' = <<>> /\ TextOf(parser'.state) = {t} /\ byte' = NoByte
              /\ Marked(t)' = Marked(t) + 1
              /\ TextOf(parser.state) = {t} \/ Enters(t)
           \/ /\ Tells(t, Marked(t)) /\ Marked(t)' = 0
              /\ TextOf(parser.state) = {t} /\ TextOf(parser'.state) = {}
              /\ parser'.state \in EndsIn(t) /\ Plain
           \/ /\ Tells(t, 0) /\ t = "header_value" /\ EmptyValue
              /\ Marked(t) = 0 /\ Marked(t)' = 0
              /\ TextOf(parser.state) = {} /\ TextOf(parser'.state) = {}
<1> DEFINE s == parser.state
           r == parser'.state
<1>1. /\ marks \in [Texts -> Nat \cup {NoMark}] /\ call = "running"
      /\ \A u \in Texts : Marked(u) \in Nat
      /\ \A u \in Texts \ {"body"} : u \notin TextOf(s) => Marked(u) = 0
      /\ \A u \in Texts \ {"body"} : u \in TextOf(s) => marks[u] = Marked(u)
      /\ \A u \in Texts \ {"body"} : u \notin TextOf(r) => Marked(u)' = 0
      /\ \A u \in Texts \ {"body"} : marks[u] # NoMark <=> u \in TextOf(s)
  BY MarkFacts, MarkFactsNext DEF Pass, Holds, IInv, CallInv, s_now
<1>2. \A u \in Texts : t # u => ({t} # {u} /\ t \notin {u})
  OBVIOUS
<1>3. ASSUME NEW u \in Texts \ {"body"}, u # t, Enters(u) \/ Stays(u)
      PROVE  /\ Untold(t) /\ Marked(t) = 0 /\ Marked(t)' = 0
             /\ TextOf(s) # {t} /\ TextOf(r) # {t}
  <2>1. /\ TextOf(s) = {} \/ TextOf(s) = {u}
        /\ TextOf(r) = {u} /\ cb' = <<>>
    BY <1>3 DEF Enters, Stays, Onward
  <2> QED
    BY <1>1, <1>3, <2>1 DEF Untold
<1>4. ASSUME NEW u \in Texts \ {"body"}, Leaves(u)
      PROVE  Tells(u, Marked(u)) /\ TextOf(s) = {u} /\ TextOf(r) = {}
               /\ r \in EndsIn(u) /\ Plain
  <2>1. /\ TextOf(s) = {u} /\ TextOf(r) = {} /\ cb' = Data(u, marks)
        /\ r \in EndsIn(u) /\ Plain
    BY <1>4 DEF Leaves, Onward, Again
  <2>2. marks[u] = Marked(u) /\ Marked(u) \in Nat
    BY <1>1, <2>1
  <2> QED
    BY <2>1, <2>2, DataTells
<1>5. ASSUME Enters(t) \/ Stays(t)
      PROVE  /\ cb' = <<>> /\ TextOf(r) = {t} /\ byte' = NoByte
             /\ Marked(t)' = Marked(t) + 1
             /\ TextOf(s) = {t} \/ Enters(t)
  <2>1. CASE Enters(t)
    <3>1. cb' = <<>> /\ TextOf(r) = {t} /\ byte' = NoByte
            /\ marks' = Advance(MARK(t))
      BY <2>1 DEF Enters, Onward
    <3> QED
      BY <1>1, <2>1, <3>1, MarkGrows
  <2>2. CASE Stays(t)
    <3>1. cb' = <<>> /\ TextOf(s) = {t} /\ TextOf(r) = {t} /\ byte' = NoByte
            /\ marks' = Advance(marks)
      BY <2>2 DEF Stays, Onward
    <3>2. marks[t] # NoMark
      BY <1>1, <3>1
    <3> QED
      BY <1>1, <3>1, <3>2, MarkAdvances
  <2> QED
    BY <1>5, <2>1, <2>2
<1>6. CASE Leaves(t)
  <2>1. Tells(t, Marked(t)) /\ TextOf(s) = {t} /\ TextOf(r) = {}
          /\ r \in EndsIn(t) /\ Plain
    BY <1>4, <1>6
  <2> QED
    BY <1>1, <2>1
<1>7. ASSUME NEW u \in Texts \ {"body"}, u # t, Leaves(u)
      PROVE  /\ Untold(t) /\ Marked(t) = 0 /\ Marked(t)' = 0
             /\ TextOf(s) # {t} /\ TextOf(r) # {t}
  <2>1. Tells(u, Marked(u)) /\ TextOf(s) = {u} /\ TextOf(r) = {}
    BY <1>4, <1>7
  <2>2. Marked(u) \in Nat
    BY <1>1
  <2> QED
    BY <1>1, <1>7, <2>1, <2>2 DEF Untold
<1>8. CASE EmptyValue
  <2>1. /\ s \in InHeaders \ {"s_header_field", "s_header_value"}
        /\ r \in InHeaders \ {"s_header_field", "s_header_value"}
        /\ cb' = Data("header_value", MARK("header_value"))
    BY <1>8 DEF EmptyValue, From, Again, InHeaders, HeaderStates
  <2>2. TextOf(s) = {} /\ TextOf(r) = {}
    BY <2>1, DeedNames
  <2>3. "header_value" \in Texts \ {"body"}
    BY DEF Texts
  <2>4. MARK("header_value")["header_value"] = 0 /\ 0 \in Nat
    BY <1>1, <2>2, <2>3 DEF MARK
  <2>5. Tells("header_value", 0)
    BY <2>1, <2>3, <2>4, DataTells
  <2>6. Marked(t) = 0 /\ Marked(t)' = 0
    BY <1>1, <2>2
  <2>7. t # "header_value" => Untold(t)
    BY <2>4, <2>5 DEF Untold
  <2> QED
    BY <1>8, <2>2, <2>5, <2>6, <2>7
<1>9. ASSUME TextOf(s) = {}, TextOf(r) = {}, Untold(t)
      PROVE  /\ Untold(t) /\ Marked(t) = 0 /\ Marked(t)' = 0
             /\ TextOf(s) # {t} /\ TextOf(r) # {t}
  BY <1>1, <1>9
<1>10. CASE BodyByte \/ BodyLast \/ ChunkLast
  <2>1. /\ s \in InBody /\ r \in InBody
        /\ \/ cb' = <<>>
           \/ \E mk \in {marks, Advance(MARK("body"))} : cb' = Data("body", mk)
    BY <1>10, DeedNames DEF BodyByte, BodyLast, ChunkLast, From, Onward, Again,
       InBody, BodyStates, ChunkDataStates
  <2>2. TextOf(s) = {} /\ TextOf(r) = {}
    BY <2>1, DeedNames
  <2>3. Untold(t)
    <3>1. CASE cb' = <<>>
      BY <3>1 DEF Untold
    <3>2. ASSUME NEW mk \in {marks, Advance(MARK("body"))}, cb' = Data("body", mk)
          PROVE  Untold(t)
      <4>1. "body" \in Texts
        BY DEF Texts
      <4>2. mk["body"] \in Nat \cup {NoMark}
        <5>1. MARK("body") \in [Texts -> Nat \cup {NoMark}]
          <6>1. marks["body"] \in Nat \cup {NoMark} /\ 0 \in Nat
            BY <1>1, <4>1
          <6> QED
            BY <1>1, <4>1, <6>1, Zenon DEF MARK
        <5>2. Advance(MARK("body")) \in [Texts -> Nat \cup {NoMark}]
          BY <5>1, SMT DEF Advance, NoMark
        <5> QED
          BY <1>1, <4>1, <5>2
      <4>3. CASE mk["body"] = NoMark
        BY <3>2, <4>3 DEF Data, Untold
      <4>4. CASE mk["body"] \in Nat
        <5>1. Tells("body", mk["body"])
          BY <3>2, <4>1, <4>4, DataTells
        <5> QED
          BY <4>4, <5>1 DEF Untold
      <4> QED
        BY <4>2, <4>3, <4>4
    <3> QED
      BY <2>1, <3>1, <3>2
  <2> QED
    BY <1>9, <2>2, <2>3
<1>11. CASE NoText
  <2>1. /\ TextOf(s) = {} /\ TextOf(r) = {}
        /\ cb' = <<>> \/ \E n : n \notin Texts /\ cb' = Notify(n)
    BY <1>11 DEF NoText
  <2>2. Untold(t)
    <3>1. ASSUME NEW n, n \notin Texts, cb' = Notify(n)
          PROVE  Untold(t)
      <4>1. n # t /\ 0 \in Nat /\ Tells(n, 0)
        BY <3>1 DEF Tells, Notify
      <4> QED
        BY <4>1 DEF Untold
    <3> QED
      BY <2>1, <3>1 DEF Untold
  <2> QED
    BY <1>9, <2>1, <2>2
<1> HIDE DEF s, r
<1> QED
  BY <1>3, <1>5, <1>6, <1>7, <1>8, <1>10, <1>11 DEF Deeds, s, r

\* The states of a text are none of a body.
NotBody(s) == s \notin BodyMarked /\ s # "s_message_done"

\* No text but the body is told in a state of the body.
LEMMA TextNotBody ==
    /\ \A s : TextOf(s) # {} => NotBody(s)
    /\ \A t \in Texts \ {"body"} :
          \A s \in StartsIn(t) \cup EndsIn(t) : NotBody(s)
<1>1. \A s \in UrlStates \cup {"s_res_status", "s_header_field",
                               "s_header_value"} : NotBody(s)
  BY SMT DEF NotBody, BodyMarked, OwingStates, UrlStates, UrlHeads, UrlTails
<1>2. \A s \in {"s_header_field_start", "s_header_value_discard_ws",
                "s_header_value_start", "s_header_almost_done",
                "s_res_line_almost_done"} \cup RequestLine \cup BeforeReason :
         NotBody(s)
  BY SMT DEF NotBody, BodyMarked, OwingStates, RequestLine, BeforeReason
<1>3. ASSUME NEW t \in Texts \ {"body"}, NEW s \in StartsIn(t) \cup EndsIn(t)
      PROVE  NotBody(s)
  <2>1. CASE t = "header_field"
    BY <1>2, <1>3, <2>1 DEF StartsIn, EndsIn
  <2>2. CASE t = "header_value"
    BY <1>2, <1>3, <2>2 DEF StartsIn, EndsIn
  <2>3. CASE t \notin {"header_field", "header_value"}
    BY <1>2, <1>3, <2>3 DEF StartsIn, EndsIn
  <2> QED
    BY <2>1, <2>2, <2>3
<1> QED
  BY <1>1, <1>3, TextTable

\* What a step tells of a text, l bytes of it or nothing.
Says(t, l) == l \in Nat /\ (Tells(t, l) \/ (l = 0 /\ Untold(t)))

\* A body, byte by byte: what is told and what is under the mark afterwards is
\* what was under the mark, and the byte of the step if that is taken.
LEMMA BodyAccount ==
    ASSUME Pass, Holds, Deeds
    PROVE  \E l : /\ Says("body", l)
                  /\ l + Marked("body")' + Due
                       = Marked("body") + Due'
                           + (IF InBodyText /\ byte' = NoByte THEN 1 ELSE 0)
<1> DEFINE s == parser.state
           r == parser'.state
           m == Marked("body")
           k == Marked("body")'
           one == IF InBodyText /\ byte' = NoByte THEN 1 ELSE 0
           Goal == \E l : Says("body", l) /\ l + k + Due = m + Due' + one
<1>1. /\ marks \in [Texts -> Nat \cup {NoMark}] /\ "body" \in Texts
      /\ m \in Nat /\ k \in Nat
      /\ s \notin BodyMarked => m = 0
      /\ r \notin BodyMarked => k = 0
      /\ byte # NoByte
  BY MarkFacts, MarkFactsNext DEF Pass, Holds, s_now, Texts
<1>2. \A x : NotBody(x) => x \notin {"s_body_identity", "s_chunk_data",
                                     "s_body_identity_eof", "s_message_done"}
  BY SMT DEF NotBody, BodyMarked, OwingStates
<1>3. /\ NotBody(s) => one = 0 /\ Due = 0 /\ m = 0
      /\ NotBody(r) => Due' = 0 /\ k = 0
  BY <1>1, <1>2 DEF InBodyText, Due, s_now, NotBody
<1>4. /\ r \in BodyMarked => Due' = 0
      /\ s \in BodyMarked => Due = 0
  BY SMT DEF BodyMarked, OwingStates, Due, s_now
<1>5. CASE \E u \in Texts \ {"body"} : Enters(u) \/ Stays(u) \/ Leaves(u)
  <2>1. PICK u \in Texts \ {"body"} : Enters(u) \/ Stays(u) \/ Leaves(u)
    BY <1>5
  <2>2. NotBody(s) /\ NotBody(r)
    <3>1. {u} # {}
      OBVIOUS
    <3>2. CASE Enters(u)
      BY <2>1, <3>1, <3>2, TextNotBody DEF Enters
    <3>3. CASE Stays(u)
      BY <2>1, <3>1, <3>3, TextNotBody DEF Stays
    <3>4. CASE Leaves(u)
      BY <2>1, <3>1, <3>4, TextNotBody DEF Leaves
    <3> QED
      BY <2>1, <3>2, <3>3, <3>4
  <2>3. Untold("body")
    <3>1. CASE Enters(u) \/ Stays(u)
      BY <3>1 DEF Enters, Stays, Onward, Untold
    <3>2. CASE Leaves(u)
      <4>1. u # "body" /\ cb' = Data(u, marks) /\ marks[u] \in Nat \cup {NoMark}
        BY <1>1, <3>2 DEF Leaves, Onward, Again
      <4>2. CASE marks[u] = NoMark
        BY <4>1, <4>2 DEF Data, Untold
      <4>3. CASE marks[u] \in Nat
        <5>1. Tells(u, marks[u])
          BY <4>1, <4>3, DataTells
        <5> QED
          BY <4>1, <4>3, <5>1 DEF Untold
      <4> QED
        BY <4>1, <4>2, <4>3
    <3> QED
      BY <2>1, <3>1, <3>2
  <2>4. Says("body", 0) /\ 0 + k + Due = m + Due' + one
    <3>1. Says("body", 0)
      BY <2>3 DEF Says
    <3>2. k = 0 /\ m = 0 /\ Due = 0 /\ Due' = 0 /\ one = 0
      BY <1>3, <2>2
    <3> HIDE DEF k, m, one
    <3> QED
      BY <3>1, <3>2
  <2> QED
    BY <2>4
<1>6. CASE EmptyValue
  <2>1. /\ s = "s_header_value_discard_lws" /\ r = "s_header_field_start"
        /\ cb' = Data("header_value", MARK("header_value"))
        /\ "header_value" \in Texts \ {"body"}
    BY <1>6 DEF EmptyValue, From, Again, Texts
  <2>2. NotBody(s) /\ NotBody(r)
    BY <2>1, SMT DEF NotBody, BodyMarked, OwingStates
  <2>3. MARK("header_value")["header_value"] \in Nat
    <3>1. marks["header_value"] \in Nat \cup {NoMark} /\ 0 \in Nat
      BY <1>1, <2>1
    <3> QED
      BY <1>1, <2>1, <3>1, Zenon DEF MARK
  <2>4. Untold("body")
    <3>1. Tells("header_value", MARK("header_value")["header_value"])
      BY <2>1, <2>3, DataTells
    <3> QED
      BY <2>3, <3>1 DEF Untold
  <2>5. Says("body", 0)
    BY <2>4 DEF Says
  <2>6. k = 0 /\ m = 0 /\ Due = 0 /\ Due' = 0 /\ one = 0
    BY <1>3, <2>2
  <2>7. Says("body", 0) /\ 0 + k + Due = m + Due' + one
    <3> HIDE DEF k, m, one
    <3> QED
      BY <2>5, <2>6
  <2> QED
    BY <2>7
<1>7. CASE BodyByte
  <2>1. /\ s \in {"s_body_identity", "s_body_identity_eof", "s_chunk_data"}
        /\ r \in BodyMarked /\ byte' = NoByte
        /\ marks' = Advance(MARK("body")) /\ cb' = <<>>
    BY <1>7 DEF BodyByte, Onward
  <2>2. s \in BodyMarked /\ InBodyText
    BY <2>1 DEF BodyMarked, OwingStates, InBodyText
  <2>3. k = m + 1
    BY <1>1, <2>1, MarkGrows
  <2>4. Due = 0 /\ Due' = 0 /\ one = 1
    BY <1>4, <2>1, <2>2
  <2>5. Says("body", 0)
    BY <2>1 DEF Says, Untold
  <2>6. 0 + k + Due = m + Due' + one
    <3> HIDE DEF k, m, one
    <3> QED
      BY <1>1, <2>3, <2>4
  <2> QED
    BY <2>5, <2>6
<1>8. CASE BodyLast
  <2>1. /\ s = "s_body_identity" /\ r = "s_message_done"
        /\ cb' = Data("body", Advance(MARK("body")))
        /\ byte' = byte /\ parser'.flags = parser.flags
    BY <1>8 DEF BodyLast, From, Again
  <2>2. "F_CHUNKED" \notin parser.flags
    BY <2>1 DEF Pass, IInv, ParserInv, FramingInv
  <2>3. s \in BodyMarked /\ r \notin BodyMarked
    BY <2>1, SMT DEF BodyMarked, OwingStates
  <2>4. Due = 0 /\ Due' = 1 /\ one = 0 /\ k = 0
    BY <1>1, <1>4, <2>1, <2>2, <2>3 DEF Due, s_now
  <2>5. Advance(MARK("body"))["body"] = m + 1 /\ m + 1 \in Nat
    <3>1. marks["body"] \in Nat \cup {NoMark}
      BY <1>1
    <3>2. MARK("body")["body"] = m /\ m # NoMark
      <4>1. NoMark \notin Nat
        BY SMT DEF NoMark
      <4> QED
        BY <1>1, <3>1, <4>1 DEF MARK, Marked
    <3>3. Advance(MARK("body"))["body"] = m + 1
      BY <1>1, <3>2 DEF Advance
    <3> HIDE DEF m
    <3> QED
      BY <1>1, <3>3
  <2>6. Says("body", m + 1)
    <3>1. Tells("body", Advance(MARK("body"))["body"])
      <4>1. Advance(MARK("body"))["body"] \in Nat
        BY <2>5
      <4> QED
        BY <1>1, <2>1, <4>1, DataTells
    <3> QED
      BY <2>5, <3>1 DEF Says
  <2>7. (m + 1) + k + Due = m + Due' + one
    <3> HIDE DEF k, m, one
    <3> QED
      BY <1>1, <2>4
  <2> QED
    BY <2>6, <2>7
<1>9. CASE ChunkLast
  <2>1. /\ s = "s_chunk_data_almost_done" /\ r = "s_chunk_data_done"
        /\ cb' = Data("body", marks)
    BY <1>9 DEF ChunkLast, From, Onward
  <2>2. /\ NotBody(r) /\ one = 0 /\ Due = 0
    BY <2>1, SMT DEF NotBody, BodyMarked, OwingStates, InBodyText, Due, s_now
  <2>3. k = 0 /\ Due' = 0
    BY <1>3, <2>2
  <2>4. Says("body", m)
    <3>1. marks["body"] \in Nat \cup {NoMark} /\ NoMark \notin Nat
      <4>1. NoMark \notin Nat
        BY SMT DEF NoMark
      <4> QED
        BY <1>1, <4>1
    <3>2. CASE marks["body"] = NoMark
      <4>1. m = 0 /\ cb' = <<>>
        BY <2>1, <3>2 DEF Data, Marked
      <4> QED
        BY <1>1, <4>1 DEF Says, Untold
    <3>3. CASE marks["body"] \in Nat
      <4>1. m = marks["body"]
        BY <3>1, <3>3 DEF Marked
      <4>2. Tells("body", marks["body"])
        BY <1>1, <2>1, <3>3, DataTells
      <4> QED
        BY <1>1, <4>1, <4>2 DEF Says
    <3> QED
      BY <3>1, <3>2, <3>3
  <2>5. m + k + Due = m + Due' + one
    <3> HIDE DEF k, m, one
    <3> QED
      BY <1>1, <2>2, <2>3
  <2> QED
    BY <2>4, <2>5
<1>10. CASE NoText
  <2>1. /\ s \notin BodyMarked
        /\ r = "s_message_done" => "F_CHUNKED" \in parser'.flags
        /\ s = "s_message_done" => byte' = NoByte
        /\ cb' = <<>> \/ \E n : n \notin Texts /\ cb' = Notify(n)
        /\ marks' \in {marks, Advance(marks), NoMarks}
    BY <1>10 DEF NoText, Follows
  <2>2. Says("body", 0)
    <3>1. ASSUME NEW n, n \notin Texts, cb' = Notify(n)
          PROVE  Untold("body")
      <4>1. n # "body" /\ 0 \in Nat /\ Tells(n, 0)
        BY <1>1, <3>1 DEF Tells, Notify
      <4> QED
        BY <4>1 DEF Untold
    <3>2. Untold("body")
      BY <2>1, <3>1 DEF Untold
    <3> QED
      BY <3>2 DEF Says
  <2>3. m = 0 /\ k = 0
    <3>1. m = 0
      BY <1>1, <2>1
    <3>2. marks["body"] = NoMark
      <4>1. NoMark \notin Nat
        BY SMT DEF NoMark
      <4> QED
        BY <2>1 DEF Pass, IInv, CallInv, s_now
    <3>3. marks'["body"] = NoMark
      BY <1>1, <2>1, <3>2 DEF Advance, NoMarks
    <3> QED
      BY <3>1, <3>3 DEF Marked
  <2>4. Due' = 0
    BY <2>1 DEF Due, s_now
  <2>5. Due = one
    <3>1. s \notin {"s_body_identity", "s_chunk_data", "s_body_identity_eof"}
      BY <2>1 DEF BodyMarked, OwingStates
    <3> QED
      BY <2>1, <3>1 DEF Due, InBodyText, s_now
  <2>6. Due \in Nat
    BY DEF Due
  <2>7. 0 + k + Due = m + Due' + one
    <3> HIDE DEF k, m, one
    <3> QED
      BY <2>3, <2>4, <2>5, <2>6
  <2> QED
    BY <2>2, <2>7
<1> HIDE DEF Goal
<1> QED
  BY <1>5, <1>6, <1>7, <1>8, <1>9, <1>10 DEF Deeds, Goal

\* Only the pass that tells the last byte of a body leaves it due.
LEMMA DueAgain == ASSUME Pass, Deeds PROVE Due' # 0 => byte' = byte
<1> SUFFICES ASSUME Due' # 0 PROVE byte' = byte
  OBVIOUS
<1>1. parser'.state = "s_message_done" /\ "F_CHUNKED" \notin parser'.flags
  BY DEF Due, s_now
<1>2. /\ ~NotBody(parser'.state) /\ parser'.state \notin BodyMarked
  BY <1>1, SMT DEF NotBody, BodyMarked, OwingStates
<1>3. ASSUME NEW u \in Texts \ {"body"}, Enters(u) \/ Stays(u) \/ Leaves(u)
      PROVE  FALSE
  <2>1. {u} # {}
    OBVIOUS
  <2> QED
    BY <1>2, <1>3, <2>1, TextNotBody DEF Enters, Stays, Leaves
<1>4. ~EmptyValue /\ ~BodyByte /\ ~ChunkLast /\ ~NoText
  BY <1>1, <1>2 DEF EmptyValue, BodyByte, ChunkLast, NoText, From, Follows
<1>5. BodyLast
  BY <1>3, <1>4 DEF Deeds
<1> QED
  BY <1>5 DEF BodyLast, Again

-----------------------------------------------------------------------------
(* What a pass does to the message and to the memory of what was sent. *)

\* Every pass calls one callback at most, and only one that has to do with no text
\* announces or completes a message.
LEMMA DeedFacts ==
    ASSUME Pass, Holds, Deeds
    PROVE  /\ cb' = <<>> \/ \E n : \E l \in Nat : Tells(n, l)
           /\ \/ NoText
              \/ /\ parser.state \notin StartStates \cup NewStates
                 /\ parser'.state \notin StatusToCome
                 /\ ~Announced /\ ~Completed /\ Plain
           /\ InBodyText => TextOf(parser'.state) = {}
<1> DEFINE s == parser.state
           r == parser'.state
           Calls == cb' = <<>> \/ \E n : \E l \in Nat : Tells(n, l)
           Text == /\ s \notin StartStates \cup NewStates
                   /\ r \notin StatusToCome
                   /\ ~Announced /\ ~Completed /\ Plain
<1>1. /\ marks \in [Texts -> Nat \cup {NoMark}] /\ "body" \in Texts
      /\ "header_value" \in Texts
  BY MarkFacts DEF Pass, Texts
<1>2. \A t \in Texts : MARK(t) \in [Texts -> Nat \cup {NoMark}]
  <2> SUFFICES ASSUME NEW t \in Texts
               PROVE  MARK(t) \in [Texts -> Nat \cup {NoMark}]
    OBVIOUS
  <2>1. marks[t] \in Nat \cup {NoMark} /\ 0 \in Nat
    BY <1>1
  <2> QED
    BY <1>1, <2>1, Zenon DEF MARK
<1>3. \A mk \in [Texts -> Nat \cup {NoMark}] :
         Advance(mk) \in [Texts -> Nat \cup {NoMark}]
  BY SMT DEF Advance, NoMark
<1>4. ASSUME NEW t \in Texts, NEW mk \in [Texts -> Nat \cup {NoMark}],
             cb' = Data(t, mk)
      PROVE  Calls /\ ~Announced /\ ~Completed
  <2>1. mk[t] \in Nat \cup {NoMark}
    OBVIOUS
  <2>2. CASE mk[t] = NoMark
    BY <1>4, <2>2, Announcements DEF Data
  <2>3. CASE mk[t] \in Nat
    <3>1. Tells(t, mk[t]) /\ ~Announced /\ ~Completed
      BY <1>4, <2>3, DataTells
    <3> QED
      BY <2>3, <3>1
  <2> QED
    BY <2>1, <2>2, <2>3
<1>5. ASSUME cb' = <<>> PROVE Calls /\ ~Announced /\ ~Completed
  BY <1>5, Announcements
<1>6. InBodyText => s \in BodyMarked \/ s = "s_message_done"
  BY DEF InBodyText, BodyMarked, OwingStates
<1>7. ASSUME NEW u \in Texts \ {"body"}, Enters(u) \/ Stays(u) \/ Leaves(u)
      PROVE  Calls /\ Text /\ ~InBodyText
  <2>1. /\ {u} # {}
        /\ TextOf(s) = {u} \/ (TextOf(s) = {} /\ s \in StartsIn(u))
        /\ TextOf(r) = {u} \/ (TextOf(r) = {} /\ r \in EndsIn(u))
        /\ cb' = <<>> \/ cb' = Data(u, marks)
        /\ Plain
        /\ TextOf(s) = {u} \/ TextOf(r) = {u}
    BY <1>7 DEF Enters, Stays, Leaves, Onward, Again
  <2>2. Calls /\ ~Announced /\ ~Completed
    BY <1>1, <1>4, <1>5, <2>1
  <2>3. ~InBodyText
    BY <1>6, <2>1, TextNotBody DEF NotBody
  <2>4. \A x : TextOf(x) = {u} =>
               x \notin StartStates \cup NewStates \cup StatusToCome
    <3>1. \A x : x \in StartStates \cup NewStates \cup BeforeReason
                        \cup {"s_res_or_resp_H"} => TextOf(x) = {}
      BY DeedNames
    <3> QED
      BY <2>1, <3>1 DEF StatusToCome
  <2>5. s \in StartsIn(u) => s \notin StartStates \cup NewStates
    <3>1. {"s_header_field_start", "s_header_value_discard_ws",
           "s_header_value_start"} \subseteq InHeaders
      BY DEF InHeaders, HeaderStates
    <3>2. CASE u = "header_field"
      BY <3>1, <3>2, DeedNames DEF StartsIn
    <3>3. CASE u = "header_value"
      BY <3>1, <3>3, DeedNames DEF StartsIn
    <3>4. CASE u \notin {"header_field", "header_value"}
      BY <3>4, DeedNames DEF StartsIn
    <3> QED
      BY <3>2, <3>3, <3>4
  <2>6. r \in EndsIn(u) => r \notin StatusToCome
    <3>1. {"s_header_field_start", "s_header_value_discard_ws",
           "s_header_almost_done"} \subseteq InHeaders
      BY DEF InHeaders, HeaderStates
    <3>2. CASE u = "header_field"
      BY <3>1, <3>2, DeedNames DEF EndsIn
    <3>3. CASE u = "header_value"
      BY <3>1, <3>3, DeedNames DEF EndsIn
    <3>4. CASE u \notin {"header_field", "header_value"}
      BY <3>1, <3>4, DeedNames DEF EndsIn
    <3> QED
      BY <3>2, <3>3, <3>4
  <2> QED
    BY <2>1, <2>2, <2>3, <2>4, <2>5, <2>6
<1>8. CASE EmptyValue
  <2>1. /\ s \in InHeaders \ {"s_header_field", "s_header_value"}
        /\ r \in InHeaders \ {"s_header_field", "s_header_value"}
        /\ cb' = Data("header_value", MARK("header_value")) /\ Plain
    BY <1>8 DEF EmptyValue, From, Again, InHeaders, HeaderStates
  <2>2. Calls /\ ~Announced /\ ~Completed
    BY <1>1, <1>2, <1>4, <2>1
  <2> QED
    BY <2>1, <2>2, DeedNames
<1>9. CASE BodyByte \/ BodyLast \/ ChunkLast
  <2>1. /\ s \in InBody /\ r \in InBody /\ Plain
        /\ \/ cb' = <<>>
           \/ \E mk \in {marks, Advance(MARK("body"))} : cb' = Data("body", mk)
    BY <1>9, DeedNames DEF BodyByte, BodyLast, ChunkLast, From, Onward, Again,
       InBody, BodyStates, ChunkDataStates
  <2>2. Calls /\ ~Announced /\ ~Completed
    <3>1. Advance(MARK("body")) \in [Texts -> Nat \cup {NoMark}]
      BY <1>1, <1>2, <1>3
    <3> QED
      BY <1>1, <1>4, <1>5, <2>1, <3>1
  <2> QED
    BY <2>1, <2>2, DeedNames
<1>10. CASE NoText
  <2>1. Calls
    <3>1. ASSUME NEW n, cb' = Notify(n) PROVE Calls
      <4>1. 0 \in Nat /\ Tells(n, 0)
        BY <3>1 DEF Tells, Notify
      <4> QED
        BY <4>1
    <3> QED
      BY <1>5, <1>10, <3>1 DEF NoText
  <2> QED
    BY <1>10, <2>1 DEF NoText
<1> QED
  BY <1>7, <1>8, <1>9, <1>10 DEF Deeds

\* What the callbacks of a step make of the message, text by text.
LEMMA BuildEffects ==
    ASSUME message \in Messages, parser \in Parsers, Build,
           cb' = <<>> \/ \E n : \E l \in Nat : Tells(n, l)
    PROVE  LET request == parser.type = "HTTP_REQUEST"
           IN  /\ message' \in Messages
               /\ \A l : Says("body", l) => message'.body = message.body + l
               /\ \A l : /\ Says("url", l)
                         /\ request \/ (l = 0 /\ Untold("url"))
                         => message'.uri = message.uri + l
               /\ Untold("header_field") /\ Untold("header_value")
                    => message'.headers = message.headers
               /\ \A l : Tells("header_field", l)
                    => message'.headers = Append(message.headers,
                                                 [name |-> l, value |-> 0])
               /\ \A l : Tells("header_value", l)
                    => message'.headers = WithValue(message.headers, l)
               /\ Untold("status") \/ request
                    => message'.status_code = message.status_code
               /\ \A l : Tells("status", l) /\ ~request
                    => message'.status_code = parser.status_code
<1> DEFINE request == parser.type = "HTTP_REQUEST"
           Goal(b, u, h, c) ==
             /\ \A l : Says("body", l) => b = message.body + l
             /\ \A l : Says("url", l) /\ (request \/ (l = 0 /\ Untold("url")))
                         => u = message.uri + l
             /\ Untold("header_field") /\ Untold("header_value")
                  => h = message.headers
             /\ \A l : Tells("header_field", l)
                  => h = Append(message.headers, [name |-> l, value |-> 0])
             /\ \A l : Tells("header_value", l) => h = WithValue(message.headers, l)
             /\ Untold("status") \/ request => c = message.status_code
             /\ \A l : Tells("status", l) /\ ~request => c = parser.status_code
<1>1. /\ message.body \in Nat /\ message.uri \in Nat
      /\ message.body + 0 = message.body /\ message.uri + 0 = message.uri
  BY SMT DEF Messages
<1>2. CASE cb' = <<>>
  <2>1. message' = message
    BY <1>2, BuildNone
  <2>2. \A n, l : ~Tells(n, l)
    BY <1>2, SMT DEF Tells
  <2>3. \A t, l : Says(t, l) => l = 0
    BY <2>2 DEF Says
  <2>4. Goal(message.body, message.uri, message.headers, message.status_code)
    BY <1>1, <2>2, <2>3
  <2> HIDE DEF Goal
  <2>5. Goal(message'.body, message'.uri, message'.headers, message'.status_code)
    BY <2>1, <2>4
  <2> QED
    BY <2>1, <2>5 DEF Goal
<1>3. ASSUME NEW n, NEW l \in Nat, Tells(n, l)
      PROVE  /\ message' \in Messages
             /\ Goal(message'.body, message'.uri, message'.headers,
                     message'.status_code)
  <2>1. \A m, k : Tells(m, k) => m = n /\ k = l
    <3> SUFFICES ASSUME NEW m, NEW k, Tells(m, k) PROVE m = n /\ k = l
      OBVIOUS
    <3>1. <<[on |-> m, len |-> k]>>[1] = <<[on |-> n, len |-> l]>>[1]
      BY <1>3 DEF Tells
    <3>2. [on |-> m, len |-> k] = [on |-> n, len |-> l]
      BY <3>1, SMT
    <3>3. /\ [on |-> m, len |-> k].on = m /\ [on |-> m, len |-> k].len = k
          /\ [on |-> n, len |-> l].on = n /\ [on |-> n, len |-> l].len = l
      OBVIOUS
    <3> QED
      BY <3>2, <3>3
  <2>2. \A t : Untold(t) => n # t
    <3> SUFFICES ASSUME NEW t, Untold(t) PROVE n # t
      OBVIOUS
    <3>1. cb' # <<>>
      BY <1>3, SMT DEF Tells
    <3> QED
      BY <2>1, <3>1 DEF Untold
  <2>3. \A t, k : Says(t, k) => IF n = t THEN k = l ELSE k = 0
    BY <2>1, <2>2 DEF Says
  <2> DEFINE b == IF n = "body" THEN message.body + l ELSE message.body
             u == IF n = "url" /\ request THEN message.uri + l ELSE message.uri
             h == IF n = "header_field"
                    THEN Append(message.headers, [name |-> l, value |-> 0])
                  ELSE IF n = "header_value" THEN WithValue(message.headers, l)
                  ELSE message.headers
             c == IF n = "status" /\ ~request THEN parser.status_code
                  ELSE message.status_code
  <2>4. /\ message' \in Messages /\ message'.uri = u /\ message'.body = b
        /\ message'.headers = h /\ message'.status_code = c
    BY <1>3, BuildOne DEF Tells
  <2>5. \A k : Says("body", k) => b = message.body + k
    BY <1>1, <2>3
  <2>6. \A k : Says("url", k) /\ (request \/ (k = 0 /\ Untold("url")))
                 => u = message.uri + k
    BY <1>1, <2>2, <2>3
  <2>7. /\ Untold("header_field") /\ Untold("header_value") => h = message.headers
        /\ \A k : Tells("header_field", k)
             => h = Append(message.headers, [name |-> k, value |-> 0])
        /\ \A k : Tells("header_value", k) => h = WithValue(message.headers, k)
    BY <2>1, <2>2
  <2>8. /\ Untold("status") \/ request => c = message.status_code
        /\ \A k : Tells("status", k) /\ ~request => c = parser.status_code
    BY <2>1, <2>2
  <2> HIDE DEF b, u, h, c
  <2>9. Goal(b, u, h, c)
    BY <2>5, <2>6, <2>7, <2>8
  <2> HIDE DEF Goal
  <2> QED
    BY <2>4, <2>9
<1> QED
  BY <1>2, <1>3

-----------------------------------------------------------------------------
(* The invariant behind the properties of the built message. *)

\* What each part of the builder's state is.
BuiltType ==
    /\ message \in Messages /\ handed \in Messages \cup {NotHanded}
    /\ parsed \in {"none", "good", "bad", "indeterminate"}
    /\ begun \in Nat /\ torn \in BOOLEAN /\ SentType

\* The first message, as long as nothing is wrong and the session has not taken it.
First == parser.http_errno = "OK" /\ begun <= 1 /\ handed = NotHanded

\* Before it is begun nothing was sent; when it is complete no other is begun.
StageInv ==
    First => /\ begun = 0 => /\ s_now \in StartStates
                             /\ sent.reason = 0 /\ ~sent.complete
             /\ sent.complete => s_now \in NewStates

\* What was sent of a URL and of a body is built or under its mark, but for the
\* last byte of a body, which is built before it is taken.
TextInv ==
    First => /\ parser.type # "HTTP_RESPONSE"
                  => message.uri + Marked("url") = sent.uri
             /\ message.body + Marked("body") = sent.body + Due

\* After a reason phrase the status is the status of the line it ends.
StatusInv ==
    First /\ sent.reason > 0
      => /\ s_now \notin StatusToCome
         /\ s_now # "s_res_status" => message.status_code = parser.status_code

\* The last header is under its marks as long as it is read.
HeadersInv ==
    First /\ ~torn =>
      IF s_now = "s_header_field"
        THEN /\ call = "running"
             /\ sent.headers = Append(message.headers,
                                 [name |-> marks["header_field"], value |-> 0])
      ELSE IF s_now = "s_header_value"
        THEN /\ call = "running"
             /\ sent.headers = WithValue(message.headers, marks["header_value"])
      ELSE /\ sent.headers = message.headers
           /\ s_now # "s_header_value_start"
           /\ s_now \in Discards
                => message.headers[Len(message.headers)].value = 0

\* A value comes after a name.
HasHeader ==
    parser.http_errno = "OK" /\ handed = NotHanded /\ s_now \in ValuesToCome
      => message.headers # <<>>

\* The session takes the request between two buffers and then parses no more.
HandedInv ==
    handed # NotHanded => parsed = "good" /\ call = "idle"
                            /\ parser.type = "HTTP_REQUEST"

\* An error is in the last verdict.
VerdictInv ==
    call = "idle" /\ parser.http_errno # "OK"
      => parsed = "bad" \/ (parser.http_errno = "HEADER_OVERFLOW" /\ ret = "all")

\* The last byte of a body is taken in the call in which it is told.
DueInv == parser.http_errno = "OK" /\ Due # 0 => byte # NoByte

\* The inductive invariant of the builder, next to IInv and KindInv.
BuiltInv == /\ BuiltType /\ StageInv /\ TextInv /\ StatusInv /\ HeadersInv
            /\ HasHeader /\ HandedInv /\ VerdictInv /\ DueInv

-----------------------------------------------------------------------------
(* What holds of every step with callbacks. *)

\* The verdict, and that an error found in a buffer is in it.
LEMMA Verdicts ==
    /\ Verdict \in {"good", "bad", "indeterminate"}
    /\ ret' = "short" => Verdict = "bad"
<1>1. CASE parser'.upgrade \/ ret' = "short"
  <2>1. ~(~parser'.upgrade /\ ret' = "all" /\ message'.complete)
    BY <1>1
  <2> QED
    BY <1>1, <2>1 DEF Verdict
<1>2. CASE ~parser'.upgrade /\ ret' = "all" /\ message'.complete
  BY <1>2 DEF Verdict
<1>3. CASE /\ ~(parser'.upgrade \/ ret' = "short")
           /\ ~(~parser'.upgrade /\ ret' = "all" /\ message'.complete)
  BY <1>3 DEF Verdict
<1> QED
  BY <1>1, <1>2, <1>3

\* What is built keeps its type.
LEMMA TypeKept ==
    ASSUME BuiltType, parser \in Parsers, Build, Remember,
           cb' = <<>> \/ \E n : \E l \in Nat : Tells(n, l),
           Counts /\ InBodyText => TextOf(parser'.state) = {}
    PROVE  BuiltType'
<1>1. /\ handed' = handed
      /\ parsed' = IF call' = "idle" THEN Verdict ELSE parsed
  BY DEF Build
<1>2. parsed' \in {"none", "good", "bad", "indeterminate"}
  BY <1>1, Verdicts DEF BuiltType
<1>3. message' \in Messages
  BY BuildEffects DEF BuiltType
<1>4. SentType'
  BY RememberFields DEF BuiltType
<1>5. torn' \in BOOLEAN /\ begun' \in Nat
  <2>1. begun + 1 \in Nat
    BY DEF BuiltType
  <2> QED
    BY <2>1 DEF Remember, BuiltType
<1> QED
  BY <1>1, <1>2, <1>3, <1>4, <1>5 DEF BuiltType

-----------------------------------------------------------------------------
(* A pass of the switch keeps it. *)

Grows == /\ Pass /\ Holds /\ Deeds /\ KindInv /\ parser'.http_errno = "OK"
         /\ Build /\ Remember /\ BuiltInv

\* What a pass makes of everything but the texts, and that a message that is
\* complete is left alone until the next one is begun.
LEMMA GrowsFacts ==
    ASSUME Grows
    PROVE  /\ First' => First
           /\ handed' = handed /\ handed = NotHanded
           /\ parser \in Parsers
           /\ BuiltType'
           /\ begun' = IF Announced THEN begun + 1 ELSE begun
           /\ Counts <=> byte' = NoByte /\ ~sent.complete
           /\ cb' = <<>> \/ \E n : \E l \in Nat : Tells(n, l)
           /\ First' /\ sent.complete =>
                /\ NoText /\ ~Announced /\ begun > 0
                /\ parser.state \in NewStates /\ parser'.state \in NewStates
<1>1. /\ Pass /\ Holds /\ Deeds /\ Build /\ Remember /\ BuiltInv
      /\ parser'.http_errno = "OK" /\ parser.http_errno = "OK"
      /\ parser \in Parsers /\ call = "running" /\ byte # NoByte
  BY PassParser DEF Grows, Pass
<1>2. /\ cb' = <<>> \/ \E n : \E l \in Nat : Tells(n, l)
      /\ \/ NoText
         \/ /\ parser.state \notin StartStates \cup NewStates
            /\ ~Announced /\ ~Completed
      /\ InBodyText => TextOf(parser'.state) = {}
  BY <1>1, DeedFacts
<1>3. handed' = handed
  BY <1>1 DEF Build
<1>4. handed = NotHanded
  BY <1>1 DEF BuiltInv, HandedInv
<1>5. begun' = IF Announced THEN begun + 1 ELSE begun
  BY <1>1 DEF Remember
<1>6. begun \in Nat /\ begun' \in Nat /\ begun <= begun'
  <2>1. begun \in Nat
    BY <1>1 DEF BuiltInv, BuiltType
  <2>2. begun + 1 \in Nat /\ begun <= begun + 1 /\ begun <= begun
    BY <2>1
  <2> QED
    BY <1>5, <2>1, <2>2
<1>7. BuiltType'
  BY <1>1, <1>2, TypeKept DEF BuiltInv
<1>8. First' => First
  <2>1. begun' <= 1 => begun <= 1
    BY <1>6
  <2> QED
    BY <1>1, <1>3, <2>1 DEF First
<1>9. Counts <=> byte' = NoByte /\ ~sent.complete
  BY <1>1 DEF Counts, Taken
<1>10. ASSUME First', sent.complete
       PROVE  /\ NoText /\ ~Announced /\ begun > 0
              /\ parser.state \in NewStates /\ parser'.state \in NewStates
  <2>1. parser.state \in NewStates /\ begun # 0
    BY <1>1, <1>8, <1>10 DEF BuiltInv, StageInv, s_now
  <2>2. NoText
    BY <1>2, <2>1
  <2>3. ~Announced
    <3>1. begun + 1 <= 1 => begun = 0
      BY <1>6
    <3> QED
      BY <1>5, <1>10, <2>1, <3>1 DEF First
  <2>4. ~Begun
    <3>1. Begun => Tells("message_begin", 0)
      BY DEF Begun, Notify, Tells
    <3> QED
      BY <2>3, <3>1, Announcements
  <2>5. parser'.state \in NewStates
    BY <2>1, <2>2, <2>4 DEF NoText, Follows
  <2>6. begun > 0
    BY <1>6, <2>1
  <2> QED
    BY <2>1, <2>2, <2>3, <2>5, <2>6
<1> QED
  BY <1>1, <1>2, <1>3, <1>4, <1>5, <1>7, <1>8, <1>9, <1>10

\* A pass and the stage of the message.
LEMMA GrowsStage == ASSUME Grows PROVE StageInv'
<1> DEFINE s == parser.state
           r == parser'.state
<1>1. /\ BuiltInv /\ SentType /\ Remember /\ Pass /\ Holds /\ Deeds
      /\ begun \in Nat
  BY DEF Grows, BuiltInv, BuiltType
<1>2. /\ \/ NoText
         \/ /\ s \notin StartStates \cup NewStates /\ ~Announced /\ ~Completed
      /\ InBodyText => TextOf(r) = {}
  BY <1>1, DeedFacts
<1>3. /\ sent'.reason = IF Counts /\ TextOf(r) = {"status"} THEN sent.reason + 1
                        ELSE sent.reason
      /\ sent'.complete = (sent.complete \/ Completed)
  BY <1>1, <1>2, RememberFields
<1>4. Begun => Announced
  <2>1. Begun => Tells("message_begin", 0)
    BY DEF Begun, Notify, Tells
  <2> QED
    BY <2>1, Announcements
<1>5. NoText /\ Completed => cb' = Notify("message_complete")
  <2>1. ASSUME NEW n, cb' = Notify(n), Completed
        PROVE  cb' = Notify("message_complete")
    <3>1. Tells(n, 0)
      BY <2>1 DEF Tells, Notify
    <3> QED
      BY <2>1, <3>1, Announcements
  <2> QED
    BY <2>1, Announcements DEF NoText
<1>6. ASSUME First', begun' = 0
      PROVE  r \in StartStates /\ sent'.reason = 0 /\ ~sent'.complete
  <2>1. begun = 0 /\ ~Announced
    <3>1. begun + 1 # 0
      BY <1>1
    <3> QED
      BY <1>6, <3>1, GrowsFacts
  <2>2. s \in StartStates /\ sent.reason = 0 /\ ~sent.complete
    BY <1>1, <1>6, <2>1, GrowsFacts DEF BuiltInv, StageInv, s_now
  <2>3. NoText
    BY <1>2, <2>2
  <2>4. r \in StartStates /\ TextOf(r) = {} /\ ~Completed
    BY <1>4, <1>5, <2>1, <2>2, <2>3 DEF NoText, Follows
  <2>5. {} # {"status"}
    OBVIOUS
  <2> QED
    BY <1>3, <2>2, <2>4, <2>5
<1>7. ASSUME First', sent'.complete
      PROVE  r \in NewStates
  <2>1. CASE sent.complete
    BY <1>7, <2>1, GrowsFacts
  <2>2. CASE ~sent.complete
    <3>1. Completed
      BY <1>3, <1>7, <2>2
    <3>2. NoText /\ cb' = Notify("message_complete")
      BY <1>2, <1>5, <3>1
    <3> QED
      BY <3>2 DEF NoText, Follows
  <2> QED
    BY <2>1, <2>2
<1> QED
  BY <1>6, <1>7 DEF StageInv, s_now

\* What is in no text: the states in which a message begins or is over.
LEMMA NewNotText ==
    \A s \in NewStates :
       /\ TextOf(s) = {} /\ s \notin BodyMarked /\ s # "s_message_done"
       /\ s \notin {"s_body_identity", "s_chunk_data", "s_body_identity_eof",
                    "s_header_field", "s_header_value", "s_header_value_start"}
       /\ s \notin Discards /\ s \notin StatusToCome
<1>1. \A s \in NewStates :
         s \notin {"s_body_identity", "s_chunk_data", "s_body_identity_eof",
                   "s_header_field", "s_header_value", "s_header_value_start"}
  BY SMT DEF NewStates
<1> QED
  BY <1>1, DeedNames

\* A pass and the body.
LEMMA GrowsBody ==
    ASSUME Grows, First'
    PROVE  message'.body + Marked("body")' = sent'.body + Due'
<1> DEFINE m == Marked("body")
           k == Marked("body")'
           one == IF InBodyText /\ byte' = NoByte THEN 1 ELSE 0
           b == message.body
           c == message'.body
           x == sent.body
           y == sent'.body
           d == Due
           e == Due'
<1>1. /\ BuiltInv /\ SentType /\ Remember /\ Build /\ Pass /\ Holds /\ Deeds
      /\ message \in Messages /\ message' \in Messages /\ parser \in Parsers
      /\ First
      /\ cb' = <<>> \/ \E n : \E l \in Nat : Tells(n, l)
  BY GrowsFacts DEF Grows, BuiltInv, BuiltType
<1>2. PICK l : Says("body", l) /\ l + k + d = m + e + one
  BY <1>1, BodyAccount
<1>3. c = b + l
  BY <1>1, <1>2, BuildEffects
<1>4. y = x + one
  <2>1. y = IF Counts /\ InBodyText THEN x + 1 ELSE x
    BY <1>1, DeedFacts, RememberFields
  <2>2. x + 0 = x
    BY <1>1 DEF SentType
  <2>3. sent.complete => ~InBodyText
    BY GrowsFacts, NewNotText DEF InBodyText
  <2> QED
    BY <2>1, <2>2, <2>3, GrowsFacts
<1>5. b + m = x + d
  BY <1>1 DEF BuiltInv, TextInv
<1>6. /\ b \in Nat /\ c \in Nat /\ x \in Nat /\ y \in Nat /\ l \in Nat
      /\ m \in Nat /\ k \in Nat /\ d \in {0, 1} /\ e \in {0, 1}
      /\ one \in {0, 1}
  <2>1. b \in Nat /\ c \in Nat
    BY <1>1, SMT DEF Messages
  <2>2. x \in Nat /\ y \in Nat
    BY <1>1, GrowsFacts DEF SentType, BuiltType
  <2>3. l \in Nat
    BY <1>2 DEF Says
  <2>4. m \in Nat /\ k \in Nat
    BY <1>1, MarkFacts, MarkFactsNext DEF Pass, Holds, Texts
  <2>5. d \in {0, 1} /\ e \in {0, 1} /\ one \in {0, 1}
    BY DEF Due
  <2> QED
    BY <2>1, <2>2, <2>3, <2>4, <2>5
<1> HIDE DEF m, k, one, b, c, x, y, d, e
<1>7. c + k = y + e
  BY <1>2, <1>3, <1>4, <1>5, <1>6
<1> QED
  BY <1>7 DEF c, k, y, e

\* A pass and the URL.
LEMMA GrowsUrl ==
    ASSUME Grows, First', parser'.type # "HTTP_RESPONSE"
    PROVE  message'.uri + Marked("url")' = sent'.uri
<1> DEFINE m == Marked("url")
           k == Marked("url")'
           to == TextOf(parser'.state)
           one == IF to = {"url"} /\ byte' = NoByte THEN 1 ELSE 0
           b == message.uri
           c == message'.uri
           x == sent.uri
           y == sent'.uri
           request == parser.type = "HTTP_REQUEST"
<1>1. /\ BuiltInv /\ SentType /\ Remember /\ Build /\ Pass /\ Holds /\ Deeds
      /\ message \in Messages /\ message' \in Messages /\ parser \in Parsers
      /\ First
      /\ cb' = <<>> \/ \E n : \E l \in Nat : Tells(n, l)
      /\ "url" \in Texts \ {"body"} /\ byte # NoByte
  BY GrowsFacts DEF Grows, BuiltInv, BuiltType, Pass, Texts
<1>2. m \in Nat /\ k \in Nat
  BY <1>1, MarkFacts, MarkFactsNext DEF Pass, Holds
<1>3. PICK l : /\ Says("url", l) /\ l + k = m + one
               /\ request \/ (l = 0 /\ Untold("url"))
  <2>1. CASE Untold("url") /\ m = 0 /\ k = 0 /\ to # {"url"}
    <3>1. Says("url", 0)
      BY <2>1 DEF Says
    <3>2. 0 + k = m + one
      BY <2>1
    <3> QED
      BY <2>1, <3>1, <3>2
  <2>2. CASE cb' = <<>> /\ to = {"url"} /\ byte' = NoByte /\ k = m + 1
    <3>1. Says("url", 0) /\ Untold("url")
      BY <2>2 DEF Says, Untold
    <3>2. one = 1
      BY <2>2
    <3>3. 0 + k = m + one
      <4> HIDE DEF k, m, one
      <4> QED
        BY <1>2, <2>2, <3>2
    <3> QED
      BY <3>1, <3>3
  <2>3. CASE /\ Tells("url", m) /\ k = 0 /\ to = {} /\ Plain
             /\ TextOf(parser.state) = {"url"}
    <3>1. Says("url", m)
      BY <1>2, <2>3 DEF Says
    <3>2. m + k = m + one
      <4>1. {} # {"url"}
        OBVIOUS
      <4>2. one = 0
        BY <2>3, <4>1
      <4> HIDE DEF k, m, one
      <4> QED
        BY <1>2, <2>3, <4>2
    <3>3. request
      <4>1. parser.state \in UrlStates
        BY <2>3, TextTable
      <4>2. parser.state \notin {"s_start_req_or_res", "s_res_or_resp_H"}
        <5>1. \A z \in UrlStates : z \notin {"s_start_req_or_res", "s_res_or_resp_H"}
          BY SMT DEF UrlStates, UrlHeads, UrlTails
        <5> QED
          BY <4>1, <5>1
      <4>3. parser.type \in {"HTTP_REQUEST", "HTTP_RESPONSE", "HTTP_BOTH"}
        BY <1>1, SMT DEF Parsers
      <4>4. parser.type # "HTTP_BOTH"
        BY <1>1, <4>2 DEF Pass, IInv, ParserInv, FramingInv
      <4> QED
        BY <2>3, <4>3, <4>4 DEF Plain, SameType
    <3> QED
      BY <3>1, <3>2, <3>3
  <2>4. "url" # "header_value"
    OBVIOUS
  <2> QED
    BY <1>1, <2>1, <2>2, <2>3, <2>4, TextAccount
<1>4. c = b + l
  BY <1>1, <1>3, BuildEffects
<1>5. y = x + one
  <2>1. y = IF Counts /\ to = {"url"} THEN x + 1 ELSE x
    BY <1>1, DeedFacts, RememberFields
  <2>2. x + 0 = x
    BY <1>1 DEF SentType
  <2>3. sent.complete => to # {"url"}
    <3>1. {} # {"url"}
      OBVIOUS
    <3> QED
      BY <3>1, GrowsFacts, NewNotText
  <2> QED
    BY <2>1, <2>2, <2>3, GrowsFacts
<1>6. b + m = x
  <2>1. parser.type # "HTTP_RESPONSE"
    <3>1. SameType \/ parser.type = "HTTP_BOTH"
      BY <1>1, DeedFacts DEF NoText, Plain
    <3> QED
      BY <3>1 DEF SameType
  <2> QED
    BY <1>1, <2>1 DEF BuiltInv, TextInv
<1>7. /\ b \in Nat /\ c \in Nat /\ x \in Nat /\ y \in Nat /\ l \in Nat
      /\ one \in {0, 1}
  <2>1. b \in Nat /\ c \in Nat
    BY <1>1, SMT DEF Messages
  <2>2. x \in Nat /\ y \in Nat
    BY <1>1, GrowsFacts DEF SentType, BuiltType
  <2>3. l \in Nat
    BY <1>3 DEF Says
  <2> QED
    BY <2>1, <2>2, <2>3
<1> HIDE DEF m, k, one, b, c, x, y
<1>8. c + k = y
  BY <1>2, <1>3, <1>4, <1>5, <1>6, <1>7
<1> QED
  BY <1>8 DEF c, k, y

\* A pass and the status.
LEMMA GrowsStatus == ASSUME Grows PROVE StatusInv'
<1> DEFINE s == parser.state
           r == parser'.state
<1>1. /\ BuiltInv /\ SentType /\ Remember /\ Build /\ Pass /\ Holds /\ Deeds
      /\ KindInv /\ begun \in Nat
      /\ message \in Messages /\ parser \in Parsers
      /\ cb' = <<>> \/ \E n : \E l \in Nat : Tells(n, l)
      /\ "status" \in Texts \ {"body"} /\ parser.http_errno = "OK"
  BY GrowsFacts, PassParser DEF Grows, BuiltInv, BuiltType, Texts
<1>2. SUFFICES ASSUME First', sent'.reason > 0
               PROVE  /\ r \notin StatusToCome
                      /\ r # "s_res_status"
                           => message'.status_code = parser'.status_code
  BY DEF StatusInv, s_now
<1>3. First
  BY <1>2, GrowsFacts
<1>4. sent'.reason = IF Counts /\ TextOf(r) = {"status"} THEN sent.reason + 1
                     ELSE sent.reason
  BY <1>1, DeedFacts, RememberFields
<1>5. CASE TextOf(r) = {"status"}
  <2>1. r = "s_res_status"
    BY <1>5, TextTable
  <2>2. r \notin StatusToCome
    BY <2>1, SMT DEF StatusToCome, BeforeReason
  <2> QED
    BY <2>1, <2>2
<1>6. CASE TextOf(r) # {"status"}
  <2>1. sent.reason > 0 /\ sent.reason # 0
    BY <1>1, <1>2, <1>4, <1>6 DEF SentType
  <2>2. /\ s \notin StatusToCome
        /\ s # "s_res_status" => message.status_code = parser.status_code
    BY <1>1, <1>3, <2>1 DEF BuiltInv, StatusInv, s_now
  <2>3. begun # 0
    BY <1>1, <1>3, <2>1 DEF BuiltInv, StageInv
  <2>4. ~Announced
    <3>1. begun + 1 <= 1 => begun = 0
      BY <1>1
    <3> QED
      BY <1>2, <2>3, <3>1, GrowsFacts DEF First
  <2>5. ~Begun
    <3>1. Begun => Tells("message_begin", 0)
      BY DEF Begun, Notify, Tells
    <3> QED
      BY <2>4, <3>1, Announcements
  <2>6. r \notin StatusToCome
    BY <1>1, <2>2, <2>5, DeedFacts DEF NoText, Follows
  <2>7. SameStatus
    <3>1. NoText \/ Plain
      BY <1>1, DeedFacts
    <3> QED
      BY <2>2, <3>1 DEF NoText, Plain, StatusToCome
  <2>8. message'.status_code = parser.status_code
    <3>1. CASE s = "s_res_status"
      <4>1. TextOf(s) = {"status"} /\ {"status"} # {}
        BY <3>1, TextTable
      <4>2. Tells("status", Marked("status"))
        BY <1>1, <1>6, <4>1, TextAccount
      <4>3. parser.type # "HTTP_REQUEST"
        BY <1>1, <3>1 DEF KindInv, s_now
      <4> QED
        BY <1>1, <4>2, <4>3, BuildEffects
    <3>2. CASE s # "s_res_status"
      <4>1. TextOf(s) # {"status"}
        BY <3>2, TextTable
      <4>2. Untold("status")
        <5>1. "status" # "header_value"
          OBVIOUS
        <5> QED
          BY <1>1, <1>6, <4>1, <5>1, TextAccount
      <4>3. message'.status_code = message.status_code
        BY <1>1, <4>2, BuildEffects
      <4> QED
        BY <2>2, <3>2, <4>3
    <3> QED
      BY <3>1, <3>2
  <2> QED
    BY <2>6, <2>7, <2>8 DEF SameStatus
<1> QED
  BY <1>5, <1>6

\* A pass and the headers.
LEMMA GrowsHeaders == ASSUME Grows PROVE HeadersInv'
<1> DEFINE s == parser.state
           r == parser'.state
           mh == message.headers
           nh == message'.headers
           sh == sent.headers
           th == sent'.headers
           field == "header_field"
           value == "header_value"
           kf == marks[field]
           kv == marks[value]
           lf == marks'[field]
           lv == marks'[value]
           Fields == {"s_header_field", "s_header_value"}
           Unquiet(z) == z \in Fields \cup Discards \cup {"s_header_value_start"}
<1>1. /\ BuiltInv /\ SentType /\ Remember /\ Build /\ Pass /\ Holds /\ Deeds
      /\ message \in Messages /\ parser \in Parsers /\ torn \in BOOLEAN
      /\ cb' = <<>> \/ \E n : \E l \in Nat : Tells(n, l)
      /\ parser.http_errno = "OK" /\ parser'.http_errno = "OK"
      /\ call = "running" /\ handed = NotHanded /\ byte # NoByte
      /\ field \in Texts \ {"body"} /\ value \in Texts \ {"body"}
      /\ mh \in HeaderSeqs
  <2>1. message \in Messages => mh \in HeaderSeqs
    BY SMT DEF Messages
  <2> QED
    BY <2>1, GrowsFacts, PassParser DEF Grows, BuiltInv, BuiltType, Texts, Pass
<1>2. SUFFICES
        ASSUME First', ~torn'
        PROVE  IF r = "s_header_field"
                 THEN /\ call' = "running"
                      /\ th = Append(nh, [name |-> lf, value |-> 0])
               ELSE IF r = "s_header_value"
                 THEN call' = "running" /\ th = WithValue(nh, lv)
               ELSE /\ th = nh
                    /\ r # "s_header_value_start"
                    /\ r \in Discards => nh[Len(nh)].value = 0
  BY DEF HeadersInv, s_now
<1>3. First /\ ~torn /\ ~Tears
  BY <1>1, <1>2, GrowsFacts DEF Remember
<1>4. IF s = "s_header_field" THEN sh = Append(mh, [name |-> kf, value |-> 0])
      ELSE IF s = "s_header_value" THEN sh = WithValue(mh, kv)
      ELSE /\ sh = mh /\ s # "s_header_value_start"
           /\ s \in Discards => mh[Len(mh)].value = 0
  BY <1>1, <1>3 DEF BuiltInv, HeadersInv, s_now
<1>5. s \in ValuesToCome => mh # <<>>
  BY <1>1 DEF BuiltInv, HasHeader, s_now
<1>6. th = IF Counts /\ TextOf(r) = {field}
             THEN IF TextOf(s) = TextOf(r) THEN [sh EXCEPT ![Len(sh)].name = @ + 1]
                  ELSE Append(sh, [name |-> 1, value |-> 0])
           ELSE IF Counts /\ TextOf(r) = {value}
             THEN [sh EXCEPT ![Len(sh)].value = @ + 1]
           ELSE sh
  BY <1>1, DeedFacts, RememberFields
<1>7. /\ marks \in [Texts -> Nat \cup {NoMark}]
      /\ \A u \in Texts \ {"body"} : u \in TextOf(s) => marks[u] = Marked(u)
      /\ \A u \in Texts \ {"body"} : u \notin TextOf(s) => Marked(u) = 0
      /\ \A u \in Texts : Marked(u) \in Nat
  BY <1>1, MarkFacts DEF Pass, s_now
<1>8. /\ \A z : TextOf(z) = {field} <=> z = "s_header_field"
      /\ \A z : TextOf(z) = {value} <=> z = "s_header_value"
      /\ {field} # {value} /\ {field} # {} /\ {value} # {}
      /\ \A z : z \in Discards => z \notin Fields /\ z # "s_header_value_start"
                                    /\ TextOf(z) = {}
      /\ "s_header_value_start" \notin Discards
  <2>1. \A z \in Discards : z \notin Fields /\ z # "s_header_value_start"
                              /\ z \in InHeaders
    BY SMT DEF Discards, InHeaders, HeaderStates
  <2>2. "s_header_value_start" \notin Discards
    BY DEF Discards
  <2> QED
    BY <2>1, <2>2, TextTable, DeedNames
<1>10. ~sent.complete => (Counts <=> byte' = NoByte)
  BY GrowsFacts
<1>11. \* A step that has to do with neither name nor value.
       ASSUME Untold(field), Untold(value), s \notin Fields, r \notin Fields,
              r # "s_header_value_start", r \in Discards => s \in Discards
       PROVE  /\ th = nh /\ r # "s_header_value_start" /\ r \notin Fields
              /\ r \in Discards => nh[Len(nh)].value = 0
  <2>1. nh = mh
    BY <1>1, <1>11, BuildEffects
  <2>2. th = sh
    BY <1>6, <1>8, <1>11
  <2> QED
    BY <1>4, <1>11, <2>1, <2>2
<1>12. ASSUME ~sent.complete, Enters(field)
       PROVE  /\ r = "s_header_field" /\ call' = "running"
              /\ th = Append(nh, [name |-> lf, value |-> 0])
  <2>1. /\ TextOf(s) = {} /\ TextOf(r) = {field} /\ s = "s_header_field_start"
        /\ cb' = <<>> /\ byte' = NoByte /\ call' = call
        /\ marks' = Advance(MARK(field))
    BY <1>12 DEF Enters, Onward, StartsIn
  <2>2. "s_header_field_start" \notin Fields
    OBVIOUS
  <2>3. sh = mh /\ nh = mh
    BY <1>1, <1>4, <2>1, <2>2, BuildNone
  <2>4. th = Append(sh, [name |-> 1, value |-> 0])
    BY <1>6, <1>8, <1>10, <1>12, <2>1
  <2>5. lf = 1
    <3>1. marks[field] = NoMark
      BY <1>1, <1>8, <2>1 DEF Pass, IInv, CallInv, s_now
    <3>2. MARK(field)[field] = 0
      BY <1>1, <1>7, <3>1 DEF MARK
    <3>3. Advance(MARK(field))[field] = 1
      <4>1. 0 # NoMark
        BY SMT DEF NoMark
      <4> QED
        BY <1>1, <3>2, <4>1 DEF Advance
    <3> QED
      BY <2>1, <3>3
  <2> QED
    BY <1>1, <1>8, <2>1, <2>3, <2>4, <2>5
<1>13. ASSUME ~sent.complete, Stays(field)
       PROVE  /\ r = "s_header_field" /\ call' = "running"
              /\ th = Append(nh, [name |-> lf, value |-> 0])
  <2>1. /\ TextOf(s) = {field} /\ TextOf(r) = {field}
        /\ cb' = <<>> /\ byte' = NoByte /\ call' = call /\ marks' = Advance(marks)
    BY <1>13 DEF Stays, Onward
  <2>2. kf \in Nat
    BY <1>1, <1>7, <2>1
  <2>3. lf = kf + 1
    <3>1. kf # NoMark
      BY <2>2, SMT DEF NoMark
    <3> QED
      BY <1>1, <2>1, <3>1 DEF Advance
  <2>4. sh = Append(mh, [name |-> kf, value |-> 0]) /\ nh = mh
    BY <1>1, <1>4, <1>8, <2>1, BuildNone
  <2>5. th = [sh EXCEPT ![Len(sh)].name = @ + 1]
    BY <1>6, <1>8, <1>10, <1>13, <2>1
  <2>6. th = Append(mh, [name |-> kf + 1, value |-> 0])
    BY <1>1, <2>2, <2>4, <2>5, LongerName
  <2> QED
    BY <1>1, <1>8, <2>1, <2>3, <2>4, <2>6
<1>14. ASSUME ~sent.complete, Leaves(field)
       PROVE  /\ r \in Discards /\ th = nh /\ nh[Len(nh)].value = 0
  <2>1. /\ TextOf(s) = {field} /\ TextOf(r) = {}
        /\ r = "s_header_value_discard_ws"
    BY <1>14 DEF Leaves, EndsIn
  <2>2. Tells(field, Marked(field)) /\ Marked(field) = kf /\ kf \in Nat
    <3>1. Tells(field, Marked(field))
      BY <1>1, <1>8, <2>1, TextAccount
    <3> QED
      BY <1>1, <1>7, <2>1, <3>1
  <2>3. nh = Append(mh, [name |-> kf, value |-> 0])
    BY <1>1, <2>2, BuildEffects
  <2>4. sh = nh /\ th = sh
    BY <1>4, <1>6, <1>8, <2>1, <2>3
  <2>5. nh[Len(nh)].value = 0
    BY <1>1, <2>2, <2>3, AppendFits
  <2>6. r \in Discards
    BY <2>1 DEF Discards
  <2> QED
    BY <2>4, <2>5, <2>6
<1>15. ASSUME ~sent.complete, Enters(value)
       PROVE  r = "s_header_value" /\ call' = "running" /\ th = WithValue(nh, lv)
  <2>1. /\ TextOf(s) = {} /\ TextOf(r) = {value}
        /\ s \in {"s_header_value_discard_ws", "s_header_value_start"}
        /\ cb' = <<>> /\ byte' = NoByte /\ call' = call
        /\ marks' = Advance(MARK(value))
    BY <1>15 DEF Enters, Onward, StartsIn
  <2>2. s \notin Fields /\ s # "s_header_value_start"
    BY <1>4, <2>1
  <2>3. s \in Discards /\ s \in ValuesToCome
    BY <2>1, <2>2, DeedNames DEF Discards
  <2>4. sh = mh /\ nh = mh /\ mh # <<>> /\ mh[Len(mh)].value = 0
    BY <1>1, <1>4, <1>5, <2>1, <2>2, <2>3, BuildNone
  <2>5. th = [sh EXCEPT ![Len(sh)].value = @ + 1]
    BY <1>6, <1>8, <1>10, <1>15, <2>1
  <2>6. lv = 1
    <3>1. marks[value] = NoMark
      BY <1>1, <1>8, <2>1 DEF Pass, IInv, CallInv, s_now
    <3>2. MARK(value)[value] = 0
      BY <1>1, <1>7, <3>1 DEF MARK
    <3>3. Advance(MARK(value))[value] = 1
      <4>1. 0 # NoMark
        BY SMT DEF NoMark
      <4> QED
        BY <1>1, <3>2, <4>1 DEF Advance
    <3> QED
      BY <2>1, <3>3
  <2>7. th = WithValue(mh, 1)
    <3> DEFINE longer(w) == [w EXCEPT ![Len(w)].value = @ + 1]
    <3>1. WithValue(mh, 0) = mh /\ longer(WithValue(mh, 0)) = WithValue(mh, 0 + 1)
      <4>1. 0 \in Nat
        OBVIOUS
      <4> QED
        BY <1>1, <2>4, <4>1, LongerValue
    <3>2. th = longer(sh) /\ 0 + 1 = 1
      BY <2>5
    <3> HIDE DEF longer
    <3> QED
      BY <2>4, <3>1, <3>2
  <2> QED
    BY <1>1, <1>8, <2>1, <2>4, <2>6, <2>7
<1>16. ASSUME ~sent.complete, Stays(value)
       PROVE  r = "s_header_value" /\ call' = "running" /\ th = WithValue(nh, lv)
  <2>1. /\ TextOf(s) = {value} /\ TextOf(r) = {value}
        /\ cb' = <<>> /\ byte' = NoByte /\ call' = call /\ marks' = Advance(marks)
    BY <1>16 DEF Stays, Onward
  <2>2. kv \in Nat
    BY <1>1, <1>7, <2>1
  <2>3. lv = kv + 1
    <3>1. kv # NoMark
      BY <2>2, SMT DEF NoMark
    <3> QED
      BY <1>1, <2>1, <3>1 DEF Advance
  <2>4. sh = WithValue(mh, kv) /\ nh = mh /\ mh # <<>>
    <3>1. "s_header_value" \in ValuesToCome
      BY DEF ValuesToCome, HeaderStates
    <3>2. s = "s_header_value"
      BY <1>8, <2>1
    <3> QED
      BY <1>1, <1>4, <1>5, <2>1, <3>1, <3>2, BuildNone
  <2>5. th = [sh EXCEPT ![Len(sh)].value = @ + 1]
    BY <1>6, <1>8, <1>10, <1>16, <2>1
  <2>6. th = WithValue(mh, kv + 1)
    BY <1>1, <2>2, <2>4, <2>5, LongerValue
  <2> QED
    BY <1>1, <1>8, <2>1, <2>3, <2>4, <2>6
<1>17. ASSUME ~sent.complete, Leaves(value)
       PROVE  r = "s_header_almost_done" /\ th = nh
  <2>1. /\ TextOf(s) = {value} /\ TextOf(r) = {}
        /\ r = "s_header_almost_done"
    BY <1>17 DEF Leaves, EndsIn
  <2>2. Tells(value, kv)
    <3>1. Tells(value, Marked(value))
      BY <1>1, <1>8, <2>1, TextAccount
    <3>2. kv = Marked(value)
      BY <1>1, <1>7, <2>1
    <3> QED
      BY <3>1, <3>2
  <2>3. nh = WithValue(mh, kv)
    BY <1>1, <2>2, BuildEffects
  <2>4. sh = nh /\ th = sh
    BY <1>4, <1>6, <1>8, <2>1, <2>3
  <2> QED
    BY <2>1, <2>4
<1>18. ASSUME ~sent.complete, EmptyValue
       PROVE  r = "s_header_field_start" /\ th = nh
  <2>1. s = "s_header_value_discard_lws" /\ r = "s_header_field_start"
    BY <1>18 DEF EmptyValue, From
  <2>2. s \in Discards /\ s \in ValuesToCome /\ s \notin Fields /\ r \notin Fields
    <3>1. s \in Discards
      BY <2>1 DEF Discards
    <3> QED
      BY <2>1, <3>1, DeedNames
  <2>3. sh = mh /\ mh # <<>> /\ mh[Len(mh)].value = 0
    BY <1>4, <1>5, <2>2
  <2>4. Tells(value, 0)
    <3>1. MARK(value)[value] = 0 /\ 0 \in Nat
      <4>1. marks[value] = NoMark
        <5>1. value \notin TextOf(s)
          BY <1>8, <2>2, TextTable, DeedNames
        <5> QED
          BY <1>1, <5>1 DEF Pass, IInv, CallInv, s_now
      <4> QED
        BY <1>1, <1>7, <4>1 DEF MARK
    <3>2. cb' = Data(value, MARK(value))
      BY <1>18 DEF EmptyValue, Again
    <3> QED
      BY <1>1, <3>1, <3>2, DataTells
  <2>5. nh = WithValue(mh, 0)
    BY <1>1, <2>4, BuildEffects
  <2>6. nh = mh
    <3>1. 0 \in Nat
      OBVIOUS
    <3> QED
      BY <1>1, <2>3, <2>5, <3>1, LongerValue
  <2>7. th = sh
    BY <1>6, <1>8, <2>2
  <2> QED
    BY <2>1, <2>3, <2>6, <2>7
<1>19. ASSUME NEW u \in Texts \ {"body", field, value},
              Enters(u) \/ Stays(u) \/ Leaves(u)
       PROVE  /\ Untold(field) /\ Untold(value) /\ s \notin Fields /\ r \notin Fields
              /\ r # "s_header_value_start" /\ r \notin Discards
  <2>1. /\ TextOf(s) = {u} \/ (TextOf(s) = {} /\ s \in StartsIn(u))
        /\ TextOf(r) = {u} \/ (TextOf(r) = {} /\ r \in EndsIn(u))
    BY <1>19 DEF Enters, Stays, Leaves
  <2>2. {u} # {field} /\ {u} # {value} /\ {u} # {}
    OBVIOUS
  <2>3. TextOf(s) \notin {{field}, {value}} /\ TextOf(r) \notin {{field}, {value}}
    BY <1>8, <2>1, <2>2
  <2>4. s \notin Fields /\ r \notin Fields
    BY <1>8, <2>3
  <2>5. Untold(field) /\ Untold(value)
    <3>1. ~EmptyValue
      <4>1. EmptyValue => s = "s_header_value_discard_lws"
                            /\ r = "s_header_field_start"
        BY DEF EmptyValue, From
      <4>2. TextOf("s_header_value_discard_lws") = {}
              /\ TextOf("s_header_field_start") = {}
        <5>1. {"s_header_value_discard_lws", "s_header_field_start"} \subseteq
                InHeaders \ Fields
          BY DEF InHeaders, HeaderStates
        <5> QED
          BY <5>1, DeedNames
      <4>3. TextOf(s) = {u} \/ TextOf(r) = {u}
        BY <1>19 DEF Enters, Stays, Leaves
      <4> QED
        BY <2>2, <4>1, <4>2, <4>3
    <3> QED
      BY <1>1, <2>3, <3>1, TextAccount
  <2>6. r # "s_header_value_start" /\ r \notin Discards
    <3>1. TextOf("s_header_value_start") = {}
      <4>1. "s_header_value_start" \in InHeaders \ Fields
        BY DEF InHeaders, HeaderStates
      <4> QED
        BY <4>1, DeedNames
    <3>2. CASE TextOf(r) = {u}
      BY <1>8, <2>2, <3>1, <3>2
    <3>3. CASE r \in EndsIn(u)
      <4>1. r \in RequestLine \cup {"s_header_field_start",
                                    "s_res_line_almost_done"}
        BY <3>3 DEF EndsIn
      <4>2. r \notin {"s_header_value_start"} \cup Discards
        BY <4>1, SMT DEF RequestLine, Discards
      <4> QED
        BY <4>2
    <3> QED
      BY <2>1, <3>2, <3>3
  <2> QED
    BY <2>4, <2>5, <2>6
<1>20. ASSUME BodyByte \/ BodyLast \/ ChunkLast
       PROVE  /\ Untold(field) /\ Untold(value) /\ s \notin Fields /\ r \notin Fields
              /\ r # "s_header_value_start" /\ r \notin Discards
  <2>1. s \in InBody /\ r \in InBody
    BY <1>20, DeedNames DEF BodyByte, BodyLast, ChunkLast, From, InBody,
       BodyStates, ChunkDataStates
  <2>2. TextOf(s) = {} /\ TextOf(r) = {} /\ s \notin ValuesToCome
    BY <2>1, DeedNames
  <2>3. ~EmptyValue
    <3>1. "s_header_value_discard_lws" \in ValuesToCome
      BY DEF ValuesToCome, HeaderStates
    <3> QED
      BY <2>2, <3>1 DEF EmptyValue, From
  <2> QED
    BY <1>1, <1>8, <2>1, <2>2, <2>3, TextAccount, DeedNames
<1>21. ASSUME NoText
       PROVE  /\ Untold(field) /\ Untold(value) /\ s \notin Fields /\ r \notin Fields
              /\ r # "s_header_value_start"
              /\ r \in Discards => s \in Discards
  <2>1. /\ TextOf(s) = {} /\ TextOf(r) = {}
        /\ cb' = <<>> \/ \E n : n \notin Texts /\ cb' = Notify(n)
        /\ r \in Discards => s \in Discards
        /\ r = "s_header_value_start" => s = "s_header_value_lws"
    BY <1>21 DEF NoText, Follows
  <2>2. Untold(field) /\ Untold(value)
    <3>1. ASSUME NEW n, n \notin Texts, cb' = Notify(n)
          PROVE  Untold(field) /\ Untold(value)
      <4>1. n # field /\ n # value /\ 0 \in Nat /\ Tells(n, 0)
        BY <1>1, <3>1 DEF Tells, Notify
      <4> QED
        BY <4>1 DEF Untold
    <3> QED
      BY <2>1, <3>1 DEF Untold
  <2>3. r # "s_header_value_start"
    BY <1>1, <1>3, <2>1 DEF Tears
  <2> QED
    BY <1>8, <2>1, <2>2, <2>3
<1>22. CASE /\ ~sent.complete
            /\ Enters(field) \/ Stays(field) \/ Leaves(field)
  <2>1. r \in Discards => r \notin Fields /\ r # "s_header_value_start"
    BY <1>8
  <2> QED
    BY <1>12, <1>13, <1>14, <1>22, <2>1
<1>23. CASE /\ ~sent.complete
            /\ Enters(value) \/ Stays(value) \/ Leaves(value) \/ EmptyValue
  <2>1. /\ "s_header_almost_done" \notin Discards
        /\ "s_header_field_start" \notin Discards
    BY DEF Discards
  <2>2. CASE Enters(value) \/ Stays(value)
    BY <1>15, <1>16, <1>23, <2>2
  <2>3. CASE Leaves(value) \/ EmptyValue
    BY <1>17, <1>18, <1>23, <2>1, <2>3
  <2> QED
    BY <1>23, <2>2, <2>3
<1>24. CASE \/ \E u \in Texts \ {"body", field, value} :
                  Enters(u) \/ Stays(u) \/ Leaves(u)
            \/ BodyByte \/ BodyLast \/ ChunkLast \/ NoText
  <2>1. /\ Untold(field) /\ Untold(value) /\ s \notin Fields /\ r \notin Fields
        /\ r # "s_header_value_start"
        /\ r \in Discards => s \in Discards
    BY <1>19, <1>20, <1>21, <1>24
  <2>2. /\ th = nh /\ r # "s_header_value_start" /\ r \notin Fields
        /\ r \in Discards => nh[Len(nh)].value = 0
    BY <1>11, <2>1
  <2> QED
    BY <2>2
<1>25. \* A complete message is left alone.
       CASE sent.complete
  <2>1. NoText /\ s \in NewStates /\ r \in NewStates
    BY <1>2, <1>25, GrowsFacts
  <2>2. TextOf(s) = {} /\ TextOf(r) = {} /\ s \notin Fields
    BY <2>1, NewNotText
  <2>3. th = sh /\ sh = mh
    BY <1>4, <1>6, <1>8, <2>1, <2>2, NewNotText
  <2>4. nh = mh
    BY <1>1, <1>21, <2>1, BuildEffects
  <2> QED
    BY <2>1, <2>3, <2>4, NewNotText
<1> QED
  BY <1>1, <1>22, <1>23, <1>24, <1>25 DEF Deeds

\* A pass and the header that a value comes after.
LEMMA GrowsName == ASSUME Grows PROVE HasHeader'
<1> DEFINE s == parser.state
           r == parser'.state
           mh == message.headers
           nh == message'.headers
           field == "header_field"
           value == "header_value"
<1>1. /\ BuiltInv /\ Build /\ Pass /\ Holds /\ Deeds
      /\ message \in Messages /\ parser \in Parsers
      /\ cb' = <<>> \/ \E n : \E l \in Nat : Tells(n, l)
      /\ parser.http_errno = "OK" /\ handed = NotHanded
      /\ field \in Texts \ {"body"} /\ value \in Texts \ {"body"}
      /\ mh \in HeaderSeqs
  <2>1. message \in Messages => mh \in HeaderSeqs
    BY SMT DEF Messages
  <2> QED
    BY <2>1, GrowsFacts, PassParser DEF Grows, BuiltInv, BuiltType, Texts
<1>2. s \in ValuesToCome => mh # <<>>
  BY <1>1 DEF BuiltInv, HasHeader, s_now
<1>3. \/ nh = mh
      \/ \E l \in Nat : nh = Append(mh, [name |-> l, value |-> 0])
      \/ \E l \in Nat : nh = WithValue(mh, l)
  <2>1. CASE cb' = <<>>
    <3>1. Untold(field) /\ Untold(value)
      BY <2>1 DEF Untold
    <3> QED
      BY <1>1, <3>1, BuildEffects
  <2>2. ASSUME NEW n, NEW l \in Nat, Tells(n, l)
        PROVE  \/ nh = mh
               \/ \E k \in Nat : nh = Append(mh, [name |-> k, value |-> 0])
               \/ \E k \in Nat : nh = WithValue(mh, k)
    <3>1. CASE n = field
      BY <1>1, <2>2, <3>1, BuildEffects
    <3>2. CASE n = value
      BY <1>1, <2>2, <3>2, BuildEffects
    <3>3. CASE n # field /\ n # value
      <4>1. Untold(field) /\ Untold(value)
        BY <2>2, <3>3 DEF Untold
      <4> QED
        BY <1>1, <4>1, BuildEffects
    <3> QED
      BY <3>1, <3>2, <3>3
  <2> QED
    BY <1>1, <2>1, <2>2
<1>4. mh # <<>> => nh # <<>>
  BY <1>1, <1>3, AppendFits, ValueFits
<1>5. ASSUME Leaves(field) PROVE nh # <<>>
  <2>1. {field} # {} /\ TextOf(s) = {field} /\ TextOf(r) = {}
    BY <1>5 DEF Leaves
  <2>2. Tells(field, Marked(field))
    BY <1>1, <2>1, TextAccount
  <2>3. Marked(field) \in Nat
    BY <1>1, MarkFacts DEF Pass
  <2>4. nh = Append(mh, [name |-> Marked(field), value |-> 0])
    BY <1>1, <2>2, BuildEffects
  <2> QED
    BY <1>1, <2>3, <2>4, AppendFits
<1>6. ASSUME r \in ValuesToCome, s \notin ValuesToCome
      PROVE  Leaves(field)
  <2>1. /\ ~NoText
        /\ ~EmptyValue
        /\ ~(BodyByte \/ BodyLast \/ ChunkLast)
    <3>1. ~NoText
      BY <1>6 DEF NoText, Follows
    <3>2. ~EmptyValue
      <4>1. "s_header_value_discard_lws" \in ValuesToCome
        BY DEF ValuesToCome, HeaderStates
      <4> QED
        BY <1>6, <4>1 DEF EmptyValue, From
    <3>3. ~(BodyByte \/ BodyLast \/ ChunkLast)
      <4>1. BodyByte \/ BodyLast \/ ChunkLast => r \in InBody
        BY DeedNames DEF BodyByte, BodyLast, ChunkLast, From, InBody, BodyStates,
           ChunkDataStates
      <4> QED
        BY <1>6, <4>1, DeedNames
    <3> QED
      BY <3>1, <3>2, <3>3
  <2>2. /\ {"s_header_value_discard_ws", "s_header_value_start",
            "s_header_value"} \subseteq ValuesToCome
        /\ "s_header_field" \notin ValuesToCome
        /\ \A z \in RequestLine \cup {"s_header_field_start", "s_res_status",
                    "s_res_line_almost_done"} \cup UrlStates : z \notin ValuesToCome
    BY SMT DEF ValuesToCome, HeaderStates, RequestLine, UrlStates, UrlHeads, UrlTails
  <2>3. ASSUME NEW u \in Texts \ {"body"}, Enters(u) \/ Stays(u) \/ Leaves(u)
        PROVE  Leaves(field)
    <3>1. CASE u = field
      <4>1. ~(Enters(field) \/ Stays(field))
        BY <1>6, <2>2, TextTable DEF Enters, Stays
      <4> QED
        BY <2>3, <3>1, <4>1
    <3>2. CASE u = value
      <4>1. Enters(value) => s \in {"s_header_value_discard_ws",
                                    "s_header_value_start"}
        BY DEF Enters, StartsIn
      <4>2. Stays(value) \/ Leaves(value) => s = "s_header_value"
        BY TextTable DEF Stays, Leaves
      <4> QED
        BY <1>6, <2>2, <2>3, <3>2, <4>1, <4>2
    <3>3. CASE u = "url" \/ u = "status"
      <4>1. Enters(u) \/ Stays(u) => r \in UrlStates \cup {"s_res_status"}
        BY <3>3, TextTable DEF Enters, Stays
      <4>2. Leaves(u) => r \in RequestLine \cup {"s_header_field_start",
                                                 "s_res_line_almost_done"}
        BY <3>3 DEF Leaves, EndsIn
      <4> QED
        BY <1>6, <2>2, <2>3, <4>1, <4>2
    <3> QED
      BY <3>1, <3>2, <3>3 DEF Texts
  <2> QED
    BY <1>1, <2>1, <2>3 DEF Deeds
<1>7. r \in ValuesToCome => nh # <<>>
  BY <1>2, <1>4, <1>5, <1>6
<1> QED
  BY <1>7 DEF HasHeader, s_now

\* Hence a pass that finds no error keeps the invariant.
LEMMA GrowsHolds == ASSUME Grows PROVE BuiltInv'
<1>1. parser'.http_errno = "OK" /\ handed' = NotHanded
  BY GrowsFacts DEF Grows
<1>2. TextInv'
  BY GrowsBody, GrowsUrl DEF TextInv
<1>3. DueInv'
  BY DueAgain DEF DueInv, Grows, Pass
<1> QED
  BY <1>1, <1>2, <1>3, GrowsFacts, GrowsStage, GrowsStatus, GrowsHeaders, GrowsName
     DEF BuiltInv, HandedInv, VerdictInv

-----------------------------------------------------------------------------
(* Every other step keeps it, too. *)

\* A step that ends with an error, told by its verdict or by none yet.
LEMMA WrongHolds ==
    ASSUME BuiltInv, parser \in Parsers, Build, Remember, handed = NotHanded,
           parser'.http_errno # "OK",
           cb' = <<>> \/ \E n : \E l \in Nat : Tells(n, l),
           \/ ret' = "short" /\ call' = "idle"
           \/ ret' = "all" /\ parser'.http_errno = "HEADER_OVERFLOW"
    PROVE  BuiltInv'
<1>1. ~Counts
  BY DEF Counts, Taken
<1>2. BuiltType'
  BY <1>1, TypeKept DEF BuiltInv
<1>3. handed' = NotHanded /\ parsed' = IF call' = "idle" THEN Verdict ELSE parsed
  BY DEF Build
<1>4. ~First' /\ HasHeader' /\ HandedInv' /\ DueInv'
  BY <1>3 DEF First, HasHeader, HandedInv, DueInv
<1>5. VerdictInv'
  BY <1>3, Verdicts DEF VerdictInv
<1> QED
  BY <1>2, <1>4, <1>5 DEF BuiltInv, StageInv, TextInv, StatusInv, HeadersInv

\* A step that takes no byte and announces or completes no message adds nothing to
\* what was sent.
LEMMA QuietFacts ==
    ASSUME BuiltType, Build, Remember, ~Taken, ~Announced, ~Completed
    PROVE  /\ begun' = begun /\ handed' = handed /\ torn' = (torn \/ Tears)
           /\ sent'.uri = sent.uri /\ sent'.reason = sent.reason
           /\ sent'.headers = sent.headers /\ sent'.body = sent.body
           /\ sent'.complete = sent.complete
<1>1. ~Counts /\ SentType
  BY DEF Counts, BuiltType
<1>2. /\ begun' = begun /\ torn' = (torn \/ Tears) /\ handed' = handed
  BY DEF Remember, Build
<1>3. /\ sent'.uri = sent.uri /\ sent'.reason = sent.reason
      /\ sent'.headers = sent.headers /\ sent'.body = sent.body
      /\ sent'.complete = (sent.complete \/ Completed)
  BY <1>1, RememberFields
<1>4. (sent.complete \/ Completed) = sent.complete
  <2>1. sent.complete \in BOOLEAN
    BY <1>1 DEF SentType
  <2> QED
    BY <2>1
<1> QED
  BY <1>2, <1>3, <1>4

\* The parser stays where it is.
Stands == /\ parser'.state = parser.state /\ parser'.type = parser.type
          /\ parser'.flags = parser.flags /\ parser'.http_errno = parser.http_errno
          /\ parser'.status_code = parser.status_code

\* A step that only begins a call or fetches a byte.
LEMMA StillHolds ==
    ASSUME BuiltInv, parser \in Parsers, Build, Remember, handed = NotHanded,
           parser.http_errno = "OK", Stands, cb' = <<>>, byte = NoByte, ~Tears,
           call = "running" => call' = "running" /\ marks' = marks,
           Marked("url")' = Marked("url"), Marked("body")' = Marked("body")
    PROVE  BuiltInv'
<1>1. ~Taken /\ ~Counts /\ ~Announced /\ ~Completed
  BY Announcements DEF Taken, Counts
<1>2. /\ begun' = begun /\ handed' = handed /\ torn' = torn
      /\ sent'.uri = sent.uri /\ sent'.reason = sent.reason
      /\ sent'.headers = sent.headers /\ sent'.body = sent.body
      /\ sent'.complete = sent.complete
  <2>1. torn \in BOOLEAN
    BY DEF BuiltInv, BuiltType
  <2> QED
    BY <1>1, <2>1, QuietFacts DEF BuiltInv
<1>3. message' = message
  BY BuildNone
<1>4. BuiltType'
  BY <1>1, TypeKept DEF BuiltInv
<1>5. /\ First' <=> First
      /\ Due' = Due
  BY <1>2 DEF First, Due, s_now, Stands
<1>6. StageInv'
  BY <1>2, <1>5 DEF BuiltInv, StageInv, s_now, Stands
<1>7. TextInv'
  BY <1>2, <1>3, <1>5 DEF BuiltInv, TextInv, Stands
<1>8. StatusInv'
  BY <1>2, <1>3, <1>5 DEF BuiltInv, StatusInv, s_now, Stands
<1>9. HeadersInv'
  <2>1. SUFFICES ASSUME First', ~torn' PROVE HeadersInv'
    BY DEF HeadersInv
  <2>2. First /\ ~torn
    BY <1>2, <1>5, <2>1
  <2>3. CASE s_now = "s_header_field"
    BY <1>2, <1>3, <2>2, <2>3 DEF BuiltInv, HeadersInv, s_now, Stands
  <2>4. CASE s_now = "s_header_value"
    BY <1>2, <1>3, <2>2, <2>4 DEF BuiltInv, HeadersInv, s_now, Stands
  <2>5. CASE s_now \notin {"s_header_field", "s_header_value"}
    BY <1>2, <1>3, <2>2, <2>5 DEF BuiltInv, HeadersInv, s_now, Stands
  <2> QED
    BY <2>3, <2>4, <2>5
<1>10. HasHeader'
  BY <1>2, <1>3 DEF BuiltInv, HasHeader, s_now, Stands
<1>11. HandedInv' /\ VerdictInv' /\ DueInv'
  BY <1>2, <1>5 DEF BuiltInv, HandedInv, VerdictInv, DueInv, Stands
<1> QED
  BY <1>4, <1>6, <1>7, <1>8, <1>9, <1>10, <1>11 DEF BuiltInv

\* The switch.
LEMMA ExecuteKeeps ==
    ASSUME IInv, KindInv, BuiltInv, Execute, Build, Remember
    PROVE  BuiltInv'
<1>1. Pass /\ Holds /\ KindInv' /\ (Moves \/ Errs)
  BY ExecutePass, ExecuteHolds, KindKept, ExecuteMoves DEF Goes
<1>2. CASE Moves
  <2>1. Deeds /\ parser'.http_errno = "OK"
    BY <1>1, <1>2, MovesDeeds DEF Moves
  <2>2. Grows
    BY <1>1, <2>1 DEF Grows
  <2> QED
    BY <2>2, GrowsHolds
<1>3. CASE Errs
  <2>1. handed = NotHanded /\ parser \in Parsers
    BY <1>1, PassParser DEF Pass, BuiltInv, HandedInv
  <2>2. cb' = <<>> \/ \E n : \E l \in Nat : Tells(n, l)
    <3>1. CASE cb' = Data("header_value", marks)
      <4>1. /\ "header_value" \in Texts
            /\ marks["header_value"] \in Nat \cup {NoMark}
        BY <1>1, MarkFacts DEF Pass, Texts
      <4>2. CASE marks["header_value"] = NoMark
        BY <3>1, <4>2 DEF Data
      <4>3. CASE marks["header_value"] \in Nat
        <5>1. Tells("header_value", marks["header_value"])
          BY <3>1, <4>1, <4>3, DataTells
        <5> QED
          BY <4>3, <5>1
      <4> QED
        BY <4>1, <4>2, <4>3
    <3> QED
      BY <1>3, <3>1 DEF Errs
  <2> QED
    BY <1>3, <2>1, <2>2, WrongHolds DEF Errs
<1> QED
  BY <1>1, <1>2, <1>3

\* The next byte.
LEMMA NextByteKeeps ==
    ASSUME IInv, BuiltInv, NextByte, Build, Remember
    PROVE  BuiltInv'
<1>1. /\ parser.http_errno = "OK" /\ call \in {"begun", "running"}
      /\ byte = NoByte /\ cb' = <<>>
  BY NextByteFacts
<1>2. handed = NotHanded /\ parser \in Parsers
  BY <1>1 DEF BuiltInv, HandedInv, IInv, TypeOK
<1>3. CASE /\ parser'.http_errno = "HEADER_OVERFLOW" /\ call' = "idle"
           /\ ret' = "short"
  BY <1>1, <1>2, <1>3, WrongHolds
<1>4. CASE /\ parser'.http_errno = "OK" /\ call' = "running" /\ marks' = marks
           /\ parser'.state = parser.state /\ parser'.type = parser.type
           /\ parser'.flags = parser.flags
           /\ parser'.status_code = parser.status_code
  <2>1. Stands
    BY <1>1, <1>4 DEF Stands
  <2>2. ~Tears
    BY <1>4 DEF Tears
  <2>3. \A t : Marked(t)' = Marked(t)
    BY <1>4 DEF Marked
  <2> QED
    BY <1>1, <1>2, <1>4, <2>1, <2>2, <2>3, StillHolds
<1> QED
  BY <1>3, <1>4, NextByteFacts

\* A call begins.
LEMMA BeginCallKeeps ==
    ASSUME IInv, BuiltInv, MayParse, BeginCall, Build, Remember
    PROVE  BuiltInv'
<1>1. /\ call = "idle" /\ cb' = <<>> /\ parser' = parser
      /\ parser \in Parsers /\ byte = NoByte /\ marks = NoMarks
  BY DEF BeginCall, IInv, TypeOK, CallInv
<1>2. handed = NotHanded
  <2>1. parser.type = "HTTP_REQUEST" => parsed # "good"
    BY DEF MayParse
  <2> QED
    BY <2>1 DEF BuiltInv, HandedInv
<1>3. CASE parser.http_errno # "OK"
  <2>1. ret' = "short" /\ call' = "idle" /\ parser'.http_errno # "OK"
    BY <1>1, <1>3 DEF BeginCall
  <2> QED
    BY <1>1, <1>2, <2>1, WrongHolds
<1>4. CASE parser.http_errno = "OK"
  <2>1. /\ call' = "begun"
        /\ marks' = [t \in Texts |-> IF t \in TextOf(parser.state) THEN 0
                                     ELSE NoMark]
    BY <1>4 DEF BeginCall
  <2>2. Stands /\ ~Tears
    BY <1>1, SMT DEF Stands, Tears
  <2>3. \A t \in Texts : Marked(t)' = Marked(t)
    BY <1>1, <2>1 DEF Marked, NoMarks
  <2>4. "url" \in Texts /\ "body" \in Texts
    BY DEF Texts
  <2> QED
    BY <1>1, <1>2, <1>4, <2>2, <2>3, <2>4, StillHolds
<1> QED
  BY <1>3, <1>4

\* The end of a call tells what is under the marks.
LEMMA UnfinishedSays ==
    ASSUME IInv, call = "running", cb' = Unfinished
    PROVE  /\ cb' = <<>> \/ \E n : \E l \in Nat : Tells(n, l)
           /\ ~Announced /\ ~Completed
           /\ Says("body", Marked("body"))
           /\ \A t \in Texts \ {"body"} :
                 /\ TextOf(s_now) = {t} => Tells(t, Marked(t))
                 /\ TextOf(s_now) # {t} => Untold(t) /\ Marked(t) = 0
<1>1. /\ marks \in [Texts -> Nat \cup {NoMark}] /\ NoMark \notin Nat
      /\ \A t \in Texts \ {"body"} : marks[t] # NoMark <=> t \in TextOf(s_now)
      /\ marks["body"] # NoMark => s_now \in BodyMarked
      /\ "body" \in Texts
      /\ \A t \in Texts : Marked(t) \in Nat
  <2>1. NoMark \notin Nat
    BY SMT DEF NoMark
  <2> QED
    BY <2>1, MarkFacts DEF IInv, TypeOK, CallInv, Texts
<1>2. \A t \in Texts : t \in TextOf(s_now) => TextOf(s_now) = {t}
  BY TextTable DEF Texts
<1>3. ASSUME NEW u \in Texts \ {"body"}, marks[u] # NoMark
      PROVE  /\ cb' = <<>> \/ \E n : \E l \in Nat : Tells(n, l)
             /\ ~Announced /\ ~Completed
             /\ Says("body", Marked("body"))
             /\ \A t \in Texts \ {"body"} :
                   /\ TextOf(s_now) = {t} => Tells(t, Marked(t))
                   /\ TextOf(s_now) # {t} => Untold(t) /\ Marked(t) = 0
  <2>1. cb' = Data(u, marks) /\ marks[u] \in Nat /\ marks[u] = Marked(u)
    BY <1>1, <1>3, UnfinishedText DEF Marked
  <2>2. Tells(u, Marked(u)) /\ ~Announced /\ ~Completed
    BY <1>1, <2>1, DataTells
  <2>3. TextOf(s_now) = {u} /\ {u} # {}
    BY <1>1, <1>2, <1>3
  <2>4. s_now \notin BodyMarked
    BY <2>3, TextNotBody DEF NotBody
  <2>5. Says("body", Marked("body"))
    <3>1. Untold("body") /\ Marked("body") = 0
      BY <1>1, <2>2, <2>4 DEF Untold, Marked
    <3> QED
      BY <3>1 DEF Says
  <2>6. \A t \in Texts \ {"body"} : TextOf(s_now) # {t} => Untold(t) /\ Marked(t) = 0
    <3>1. \A t \in Texts \ {"body"} : TextOf(s_now) # {t} => marks[t] = NoMark
      BY <1>1, <1>2
    <3> QED
      BY <1>1, <2>2, <2>3, <3>1 DEF Untold, Marked
  <2>7. \A t \in Texts \ {"body"} : TextOf(s_now) = {t} => t = u
    BY <2>3
  <2> QED
    BY <1>1, <2>2, <2>5, <2>6, <2>7
<1>4. ASSUME \A t \in Texts \ {"body"} : marks[t] = NoMark
      PROVE  /\ cb' = <<>> \/ \E n : \E l \in Nat : Tells(n, l)
             /\ ~Announced /\ ~Completed
             /\ Says("body", Marked("body"))
             /\ \A t \in Texts \ {"body"} :
                   /\ TextOf(s_now) = {t} => Tells(t, Marked(t))
                   /\ TextOf(s_now) # {t} => Untold(t) /\ Marked(t) = 0
  <2>1. \A t \in Texts \ {"body"} : TextOf(s_now) # {t} /\ Marked(t) = 0
    BY <1>1, <1>4 DEF Marked
  <2>2. CASE marks["body"] = NoMark
    <3>1. \A t \in Texts : marks[t] = NoMark
      BY <1>4, <2>2
    <3>2. cb' = <<>>
      BY <3>1, UnfinishedText
    <3>3. Marked("body") = 0 /\ \A t : Untold(t)
      BY <2>2, <3>2 DEF Marked, Untold
    <3> QED
      BY <2>1, <3>2, <3>3, Announcements DEF Says
  <2>3. CASE marks["body"] # NoMark
    <3>1. cb' = Data("body", marks) /\ marks["body"] \in Nat
            /\ marks["body"] = Marked("body")
      BY <1>1, <2>3, UnfinishedText DEF Marked
    <3>2. Tells("body", Marked("body")) /\ ~Announced /\ ~Completed
      BY <1>1, <3>1, DataTells
    <3>3. \A t \in Texts \ {"body"} : Untold(t)
      BY <1>1, <3>2 DEF Untold
    <3> QED
      BY <1>1, <2>1, <3>2, <3>3 DEF Says
  <2> QED
    BY <2>2, <2>3
<1> QED
  BY <1>3, <1>4

\* A call ends.
LEMMA EndCallKeeps ==
    ASSUME IInv, KindInv, BuiltInv, EndCall, Build, Remember
    PROVE  BuiltInv'
<1> DEFINE mh == message.headers
           nh == message'.headers
           field == "header_field"
           value == "header_value"
<1>1. /\ parser.http_errno = "OK" /\ call = "running" /\ call' = "idle"
      /\ byte = NoByte /\ marks' = NoMarks /\ ret' = "all"
  BY EndCallFacts
<1>2. /\ handed = NotHanded /\ parser \in Parsers /\ message \in Messages
      /\ BuiltType
  BY <1>1 DEF BuiltInv, BuiltType, HandedInv, IInv, TypeOK
<1>3. CASE parser'.http_errno = "HEADER_OVERFLOW" /\ cb' = <<>>
  <2>1. parser'.http_errno # "OK"
    BY <1>3
  <2> QED
    BY <1>1, <1>2, <1>3, <2>1, WrongHolds
<1>4. CASE /\ Stands /\ cb' = Unfinished
  <2>1. /\ cb' = <<>> \/ \E n : \E l \in Nat : Tells(n, l)
        /\ ~Announced /\ ~Completed
        /\ Says("body", Marked("body"))
        /\ \A t \in Texts \ {"body"} :
              /\ TextOf(s_now) = {t} => Tells(t, Marked(t))
              /\ TextOf(s_now) # {t} => Untold(t) /\ Marked(t) = 0
        /\ {"url", "status", field, value} \subseteq Texts \ {"body"}
        /\ "body" \in Texts
    BY <1>1, <1>4, UnfinishedSays DEF Texts
  <2>2. ~Taken /\ ~Counts
    BY <1>1 DEF Taken, Counts
  <2>3. /\ begun' = begun /\ handed' = handed /\ torn' = (torn \/ Tears)
        /\ sent'.uri = sent.uri /\ sent'.reason = sent.reason
        /\ sent'.headers = sent.headers /\ sent'.body = sent.body
        /\ sent'.complete = sent.complete
    BY <1>2, <2>1, <2>2, QuietFacts
  <2>4. BuiltType'
    BY <1>2, <2>1, <2>2, TypeKept
  <2>5. (First' <=> First) /\ Due' = Due
    BY <1>4, <2>3 DEF First, Due, s_now, Stands
  <2>6. StageInv'
    BY <1>4, <2>3, <2>5 DEF BuiltInv, StageInv, s_now, Stands
  <2>7. \A t \in Texts : Marked(t)' = 0 /\ Marked(t) \in Nat
    <3>1. \A t \in Texts : marks'[t] = NoMark
      BY <1>1 DEF NoMarks
    <3> QED
      BY <3>1, MarkFacts DEF Marked
  <2>8. TextInv'
    <3>1. message'.body = message.body + Marked("body")
      BY <1>2, <2>1, BuildEffects
    <3>2. message'.body + 0 = message'.body /\ message'.uri + 0 = message'.uri
      <4>1. message' \in Messages
        BY <2>4 DEF BuiltType
      <4>2. message'.body \in Nat /\ message'.uri \in Nat
        BY <4>1, SMT DEF Messages
      <4> QED
        BY <4>2
    <3>3. ASSUME First, parser.type # "HTTP_RESPONSE"
          PROVE  message'.uri = message.uri + Marked("url")
      <4>1. CASE TextOf(s_now) = {"url"}
        <5>1. s_now \in UrlStates
          BY <4>1, TextTable
        <5>2. \A z \in UrlStates : z \notin {"s_start_req_or_res", "s_res_or_resp_H"}
          BY SMT DEF UrlStates, UrlHeads, UrlTails
        <5>3. parser.type \in {"HTTP_REQUEST", "HTTP_RESPONSE", "HTTP_BOTH"}
          BY <1>2, SMT DEF Parsers
        <5>4. parser.type = "HTTP_REQUEST"
          BY <3>3, <5>1, <5>2, <5>3 DEF IInv, ParserInv, FramingInv, s_now
        <5>5. Says("url", Marked("url"))
          BY <2>1, <2>7, <4>1 DEF Says
        <5> QED
          BY <1>2, <2>1, <5>4, <5>5, BuildEffects
      <4>2. CASE TextOf(s_now) # {"url"}
        <5>1. Untold("url") /\ Marked("url") = 0 /\ Says("url", 0)
          BY <2>1, <4>2 DEF Says
        <5> QED
          BY <1>2, <2>1, <5>1, BuildEffects
      <4> QED
        BY <4>1, <4>2
    <3> QED
      BY <1>4, <2>1, <2>3, <2>5, <2>7, <3>1, <3>2, <3>3
         DEF BuiltInv, TextInv, Stands
  <2>9. StatusInv'
    <3>1. SUFFICES ASSUME First', sent'.reason > 0, s_now # "s_res_status"
                   PROVE  message'.status_code = message.status_code
      BY <1>4, <2>3, <2>5 DEF BuiltInv, StatusInv, s_now, Stands
    <3>2. TextOf(s_now) # {"status"}
      BY <3>1, TextTable
    <3>3. Untold("status")
      BY <2>1, <3>2
    <3> QED
      BY <1>2, <2>1, <3>3, BuildEffects
  <2>10. ASSUME s_now \notin {"s_header_field", "s_header_value"}
         PROVE  nh = mh
    <3>1. TextOf(s_now) # {field} /\ TextOf(s_now) # {value}
      BY <2>10, TextTable
    <3>2. Untold(field) /\ Untold(value)
      BY <2>1, <3>1
    <3> QED
      BY <1>2, <2>1, <3>2, BuildEffects
  <2>11. HeadersInv'
    <3>1. SUFFICES ASSUME First', ~torn' PROVE HeadersInv'
      BY DEF HeadersInv
    <3>2. First /\ ~torn /\ ~Tears
      BY <2>3, <2>5, <3>1
    <3>3. s_now \notin {"s_header_field", "s_header_value"}
      BY <1>1, <1>4, <3>2 DEF Tears, s_now, Stands
    <3>4. /\ sent.headers = mh /\ s_now # "s_header_value_start"
          /\ s_now \in Discards => mh[Len(mh)].value = 0
      BY <3>2, <3>3 DEF BuiltInv, HeadersInv
    <3> QED
      BY <1>4, <2>3, <2>10, <3>3, <3>4 DEF HeadersInv, s_now, Stands
  <2>12. HasHeader'
    <3>1. SUFFICES ASSUME s_now \in ValuesToCome PROVE nh # <<>>
      BY <1>4 DEF HasHeader, s_now, Stands
    <3>2. mh # <<>>
      BY <1>1, <1>2, <3>1 DEF BuiltInv, HasHeader
    <3>3. CASE s_now = "s_header_value"
      <4>1. TextOf(s_now) = {value}
        BY <3>3, TextTable
      <4>2. Tells(value, Marked(value)) /\ Marked(value) \in Nat
        BY <2>1, <2>7, <4>1
      <4>3. nh = WithValue(mh, Marked(value))
        BY <1>2, <2>1, <4>2, BuildEffects
      <4>4. mh \in HeaderSeqs
        BY <1>2, SMT DEF Messages
      <4> QED
        BY <3>2, <4>2, <4>3, <4>4, ValueFits
    <3>4. CASE s_now # "s_header_value"
      <4>1. s_now # "s_header_field"
        BY <3>1 DEF ValuesToCome
      <4> QED
        BY <2>10, <3>2, <3>4, <4>1
    <3> QED
      BY <3>3, <3>4
  <2>13. HandedInv' /\ VerdictInv' /\ DueInv'
    BY <1>1, <1>2, <1>4, <2>3, <2>5 DEF BuiltInv, HandedInv, VerdictInv, DueInv, Stands
  <2> QED
    BY <2>4, <2>6, <2>8, <2>9, <2>11, <2>12, <2>13 DEF BuiltInv
<1>5. (parser'.http_errno = "HEADER_OVERFLOW" /\ cb' = <<>>)
        \/ (Stands /\ cb' = Unfinished)
  BY <1>1, EndCallFacts DEF Stands
<1> QED
  BY <1>3, <1>4, <1>5

\* The session takes the request.
LEMMA MoveReqKeeps == ASSUME BuiltInv, MoveReq PROVE BuiltInv'
<1>1. /\ parser' = parser /\ call' = call /\ ret' = ret /\ parsed' = parsed
      /\ begun' = begun /\ sent' = sent /\ torn' = torn
      /\ parser.type = "HTTP_REQUEST" /\ call = "idle" /\ parsed = "good"
      /\ handed' = message
      /\ message' = [NewMessage EXCEPT !.version = message.version,
                                       !.complete = message.complete]
  BY DEF MoveReq, vars, history
<1>2. message \in Messages /\ message # NotHanded
  <2>1. message \in Messages
    BY DEF BuiltInv, BuiltType
  <2>2. message.uri \in Nat
    BY <2>1, SMT DEF Messages
  <2>3. NotHanded.uri = Unset /\ Unset \notin Nat
    BY SMT DEF NotHanded, Unset
  <2> QED
    BY <2>1, <2>2, <2>3
<1>3. message' \in Messages
  <2>1. /\ message.version \in Nat \cup {Unset} /\ message.complete \in BOOLEAN
    BY <1>2, SMT DEF Messages
  <2>2. message' = [method |-> 0, uri |-> 0, version |-> message.version,
                    status_code |-> Unset, headers |-> <<>>, body |-> 0,
                    complete |-> message.complete]
    <3>1. \A v, w, d : [[method |-> 0, uri |-> 0, version |-> w, status_code |-> Unset,
                         headers |-> <<>>, body |-> 0, complete |-> d]
                           EXCEPT !.version = v]
                       = [method |-> 0, uri |-> 0, version |-> v, status_code |-> Unset,
                          headers |-> <<>>, body |-> 0, complete |-> d]
      BY SMT
    <3>2. \A v, d, c : [[method |-> 0, uri |-> 0, version |-> v, status_code |-> Unset,
                         headers |-> <<>>, body |-> 0, complete |-> d]
                           EXCEPT !.complete = c]
                       = [method |-> 0, uri |-> 0, version |-> v, status_code |-> Unset,
                          headers |-> <<>>, body |-> 0, complete |-> c]
      BY SMT
    <3>3. message' = [[NewMessage EXCEPT !.version = message.version]
                         EXCEPT !.complete = message.complete]
      BY <1>1, Zenon
    <3>4. [NewMessage EXCEPT !.version = message.version]
          = [method |-> 0, uri |-> 0, version |-> message.version, status_code |-> Unset,
             headers |-> <<>>, body |-> 0, complete |-> FALSE]
      BY <3>1, Zenon DEF NewMessage
    <3> QED
      BY <3>2, <3>3, <3>4, Zenon
  <2>3. <<>> \in HeaderSeqs /\ 0 \in Nat
    BY SMT DEF HeaderSeqs
  <2> QED
    BY <2>1, <2>2, <2>3, SMT DEF Messages
<1>4. BuiltType'
  BY <1>1, <1>2, <1>3 DEF BuiltInv, BuiltType, SentType
<1>5. ~First' /\ HasHeader'
  BY <1>1, <1>2 DEF First, HasHeader
<1>6. HandedInv' /\ VerdictInv' /\ DueInv'
  <2>1. byte' = byte /\ Due' = Due
    BY <1>1 DEF MoveReq, vars, Due, s_now
  <2> QED
    BY <1>1, <2>1 DEF BuiltInv, HandedInv, VerdictInv, DueInv
<1> QED
  BY <1>4, <1>5, <1>6 DEF BuiltInv, StageInv, TextInv, StatusInv, HeadersInv

\* At first nothing is built and nothing is sent.
LEMMA BuilderInitHolds == ASSUME BuilderInit PROVE IInv /\ KindInv /\ BuiltInv
<1>1. /\ Init /\ message = NewMessage /\ parsed = "none" /\ handed = NotHanded
      /\ begun = 0 /\ sent = NothingSent /\ torn = FALSE
  BY DEF BuilderInit
<1>2. IInv /\ KindInv
  BY <1>1, InitHolds, KindInit
<1>3. PICK t \in Types :
         parser = [type |-> t, state |-> InitState(t), flags |-> {},
                   header_state |-> "h_general", index |-> 0, nread |-> 0,
                   content_length |-> 0, http_major |-> 0, http_minor |-> 0,
                   status_code |-> 0, method |-> "DELETE", http_errno |-> "OK",
                   upgrade |-> FALSE]
  BY <1>1 DEF Init
<1>4. /\ s_now \in StartStates /\ parser.http_errno = "OK" /\ call = "idle"
  <2>1. parser.state = InitState(t) /\ parser.http_errno = "OK"
    BY <1>3, SMT
  <2>2. InitState(t) \in StartStates
    BY DEF InitState, StartStates
  <2> QED
    BY <1>1, <2>1, <2>2 DEF Init, s_now
<1>5. /\ NewMessage \in Messages /\ NewMessage.uri = 0 /\ NewMessage.body = 0
      /\ NewMessage.headers = <<>>
  <2>1. <<>> \in HeaderSeqs /\ 0 \in Nat
    BY SMT DEF HeaderSeqs
  <2> QED
    BY <2>1, SMT DEF Messages, NewMessage
<1>6. /\ NothingSent.uri = 0 /\ NothingSent.reason = 0 /\ NothingSent.body = 0
      /\ NothingSent.headers = <<>> /\ NothingSent.complete = FALSE
      /\ NothingSent \in [uri : Nat, reason : Nat, headers : HeaderSeqs,
                          body : Nat, complete : BOOLEAN]
  <2>1. <<>> \in HeaderSeqs /\ 0 \in Nat /\ FALSE \in BOOLEAN
    BY SMT DEF HeaderSeqs
  <2> QED
    BY <2>1, SMT DEF NothingSent
<1>7. BuiltType
  BY <1>1, <1>5, <1>6 DEF BuiltType, SentType
<1>8. /\ s_now \notin {"s_header_field", "s_header_value", "s_header_value_start",
                       "s_message_done"}
      /\ s_now \notin Discards \cup ValuesToCome \cup BodyMarked \cup UrlStates
      /\ TextOf(s_now) = {}
  <2>1. \A z \in StartStates :
           /\ z \notin {"s_header_field", "s_header_value", "s_header_value_start",
                        "s_message_done"}
           /\ z \notin UrlStates
    BY SMT DEF StartStates, UrlStates, UrlHeads, UrlTails
  <2> QED
    BY <1>4, <2>1, DeedNames
<1>9. StageInv /\ HeadersInv /\ HasHeader /\ HandedInv /\ VerdictInv
  BY <1>1, <1>4, <1>5, <1>6, <1>8
     DEF StageInv, HeadersInv, HasHeader, HandedInv, VerdictInv
<1>10. TextInv
  <2>1. Marked("url") = 0 /\ Marked("body") = 0 /\ Due = 0
    BY <1>2, <1>8, MarkFacts DEF Due, Texts
  <2> QED
    BY <1>1, <1>5, <1>6, <2>1 DEF TextInv
<1>11. DueInv
  BY <1>8 DEF DueInv, Due
<1>12. StatusInv
  <2>1. ~(0 > 0)
    OBVIOUS
  <2> QED
    BY <1>1, <1>6, <2>1 DEF StatusInv
<1> QED
  BY <1>2, <1>7, <1>9, <1>10, <1>11, <1>12 DEF BuiltInv

\* Every step keeps what is known of the parser and of the message.
LEMMA BuilderStep ==
    ASSUME IInv, KindInv, BuiltInv, [BuilderNext]_allVars
    PROVE  IInv' /\ KindInv' /\ BuiltInv'
<1>1. CASE ParseBegins
  <2>1. MayParse /\ BeginCall /\ Build /\ Remember
    BY <1>1 DEF ParseBegins
  <2> QED
    BY <2>1, StepHolds, KindSteps, BeginCallKeeps DEF Next, Holds
<1>2. CASE NextByteComes
  <2>1. NextByte /\ Build /\ Remember
    BY <1>2 DEF NextByteComes
  <2> QED
    BY <2>1, StepHolds, KindSteps, NextByteKeeps DEF Next, Holds
<1>3. CASE ParseGoesOn
  <2>1. (Execute \/ EndCall) /\ Build /\ Remember
    BY <1>3 DEF ParseGoesOn
  <2>2. CASE Execute
    BY <2>1, <2>2, StepHolds, KindSteps, ExecuteKeeps DEF Next, Holds
  <2>3. CASE EndCall
    BY <2>1, <2>3, StepHolds, KindSteps, EndCallKeeps DEF Next, Holds
  <2> QED
    BY <2>1, <2>2, <2>3
<1>4. CASE MoveReq
  <2>1. UNCHANGED vars
    BY <1>4 DEF MoveReq
  <2> QED
    BY <1>4, <2>1, StepHolds, KindSteps, MoveReqKeeps DEF Holds
<1>5. CASE UNCHANGED allVars
  <2>1. UNCHANGED vars /\ UNCHANGED built /\ UNCHANGED history
    BY <1>5 DEF allVars
  <2>2. /\ parser' = parser /\ call' = call /\ marks' = marks /\ ret' = ret
        /\ byte' = byte
        /\ message' = message /\ parsed' = parsed /\ handed' = handed
        /\ begun' = begun /\ sent' = sent /\ torn' = torn
    BY <2>1 DEF vars, built, history
  <2>3. BuiltType' /\ StageInv' /\ StatusInv' /\ HandedInv' /\ VerdictInv' /\ HasHeader'
    BY <2>2 DEF BuiltInv, BuiltType, SentType, StageInv, StatusInv, HandedInv,
       VerdictInv, HasHeader, First, s_now
  <2>4. TextInv'
    <3>1. \A t : Marked(t)' = Marked(t)
      BY <2>2 DEF Marked
    <3>2. Due' = Due
      BY <2>2 DEF Due, s_now
    <3> QED
      BY <2>2, <3>1, <3>2 DEF BuiltInv, TextInv, First
  <2>7. DueInv'
    <3>1. Due' = Due
      BY <2>2 DEF Due, s_now
    <3> QED
      BY <2>2, <3>1 DEF BuiltInv, DueInv
  <2>5. HeadersInv'
    BY <2>2 DEF BuiltInv, HeadersInv, First, s_now
  <2>6. BuiltInv'
    BY <2>3, <2>4, <2>5, <2>7 DEF BuiltInv
  <2> QED
    BY <2>1, <2>6, StepHolds, KindSteps DEF Holds
<1> QED
  BY <1>1, <1>2, <1>3, <1>4, <1>5 DEF BuilderNext

-----------------------------------------------------------------------------
(* The theorems. *)

\* The invariant holds of every state of a parser with its callbacks.
THEOREM BuilderInvariance == BuilderSpec => [](IInv /\ KindInv /\ BuiltInv)
<1>1. BuilderInit => IInv /\ KindInv /\ BuiltInv
  BY BuilderInitHolds
<1>2. IInv /\ KindInv /\ BuiltInv /\ [BuilderNext]_allVars
        => (IInv /\ KindInv /\ BuiltInv)'
  BY BuilderStep
<1> QED
  BY <1>1, <1>2, PTL DEF BuilderSpec

\* Between two buffers nothing is under a mark, and no body byte is due.
LEMMA WholeBetween ==
    ASSUME IInv, KindInv, BuiltInv
    PROVE  UrlAndBodyAreWhole /\ HeadersAreWholeUntorn
<1>1. BuilderTypeOK
  <2>1. ASSUME NEW m \in Messages
        PROVE  /\ m.method \in Nat /\ m.uri \in Nat /\ m.body \in Nat
               /\ m.complete \in BOOLEAN
               /\ m.version \in Nat \cup {Unset}
               /\ m.status_code \in Nat \cup {Unset}
               /\ m.headers \in Seq([name : Nat, value : Nat])
    BY SMT DEF Messages, HeaderSeqs
  <2>2. \A m \in {message} \cup ({handed} \ {NotHanded}) : m \in Messages
    BY DEF BuiltInv, BuiltType
  <2>3. ASSUME marks.header_value # NoMark PROVE message.headers # <<>>
    <3>1. "header_value" \in Texts \ {"body"}
      BY DEF Texts
    <3>2. call \in {"begun", "running"}
      <4>1. call \in {"idle", "begun", "running", "ended"}
        BY DEF IInv, TypeOK
      <4> QED
        BY <2>3, <3>1, <4>1 DEF IInv, CallInv, NoMarks
    <3>3. "header_value" \in TextOf(s_now) /\ parser.http_errno = "OK"
      BY <2>3, <3>1, <3>2 DEF IInv, CallInv
    <3>4. s_now = "s_header_value"
      BY <3>3, TextTable
    <3>5. s_now \in ValuesToCome /\ handed = NotHanded
      BY <3>2, <3>4 DEF BuiltInv, HandedInv, ValuesToCome, HeaderStates
    <3> QED
      BY <3>3, <3>5 DEF BuiltInv, HasHeader
  <2>4. parsed \in {"none", "good", "bad", "indeterminate"}
    BY DEF BuiltInv, BuiltType
  <2> QED
    BY <2>1, <2>2, <2>3, <2>4 DEF BuilderTypeOK
<1>2. ASSUME Building
      PROVE  /\ parser.type = "HTTP_REQUEST" => message.uri = sent.uri
             /\ message.body = sent.body
             /\ sent.complete /\ sent.reason > 0
                  => message.status_code = parser.status_code
             /\ ~torn => message.headers = sent.headers
  <2>1. First /\ call = "idle"
    BY <1>2 DEF Building, First
  <2>2. Marked("url") = 0 /\ Marked("body") = 0
    BY <2>1 DEF IInv, CallInv, NoMarks, Marked, Texts
  <2>3. /\ message.body \in Nat /\ message.uri \in Nat
        /\ sent.body \in Nat /\ sent.uri \in Nat
    <3>1. message \in Messages /\ SentType
      BY DEF BuiltInv, BuiltType
    <3> QED
      BY <3>1, SMT DEF Messages, SentType
  <2>4. message.body + 0 = message.body /\ message.uri + 0 = message.uri
          /\ sent.body + 0 = sent.body
    BY <2>3
  <2>5. Due = 0
    BY <2>1 DEF BuiltInv, DueInv, First, IInv, CallInv
  <2>6. parser.type = "HTTP_REQUEST" => message.uri = sent.uri
    BY <2>1, <2>2, <2>4 DEF BuiltInv, TextInv
  <2>7. message.body = sent.body
    BY <2>1, <2>2, <2>4, <2>5 DEF BuiltInv, TextInv
  <2>8. sent.complete /\ sent.reason > 0
          => message.status_code = parser.status_code
    <3>1. "s_res_status" \notin NewStates
      BY DEF NewStates
    <3> QED
      BY <2>1, <3>1 DEF BuiltInv, StageInv, StatusInv
  <2>9. ~torn => message.headers = sent.headers
    BY <2>1 DEF BuiltInv, HeadersInv
  <2> QED
    BY <2>6, <2>7, <2>8, <2>9
<1> QED
  BY <1>1, <1>2 DEF UrlAndBodyAreWhole, HeadersAreWholeUntorn

\* A URL and a body are what the peer has sent, in however many buffers they came,
\* and back() is never taken of headers that are not there: no callback of
\* http_request_parser or http_reply_parser loses or repeats a piece of either.
THEOREM UrlAndBody == BuilderSpec => []UrlAndBodyAreWhole
<1>1. IInv /\ KindInv /\ BuiltInv => UrlAndBodyAreWhole
  BY WholeBetween
<1> QED
  BY <1>1, BuilderInvariance, PTL

\* The headers are what the peer has sent, too, unless a buffer ended in a name or a
\* value or a line was folded, which on_header_field_cb and on_header_value_cb
\* cannot put together.
THEOREM HeadersUntorn == BuilderSpec => []HeadersAreWholeUntorn
<1>1. IInv /\ KindInv /\ BuiltInv => HeadersAreWholeUntorn
  BY WholeBetween
<1> QED
  BY <1>1, BuilderInvariance, PTL

\* An error of http_parser_execute is told by the verdict of the parse() that meets
\* it, but for a header that outgrows its limit at the end of a buffer, and that is
\* told by the next parse().
THEOREM ErrorsTold == BuilderSpec => ErrorsAreTold
<1>1. ASSUME IInv, KindInv, BuiltInv, [BuilderNext]_allVars
      PROVE  [/\ call' = "idle" /\ parser'.http_errno # "OK"
                   => \/ parsed' = "bad"
                      \/ parser'.http_errno = "HEADER_OVERFLOW" /\ ret' = "all"
              /\ parser.http_errno # "OK" /\ calls' # calls
                   => parsed' = "bad"]_allVars
  <2>1. CASE UNCHANGED allVars
    BY <2>1
  <2>2. CASE BuilderNext
    <3>1. VerdictInv'
      BY <1>1, BuilderStep DEF BuiltInv
    <3>2. ASSUME parser.http_errno # "OK", calls' # calls
          PROVE  parsed' = "bad"
      <4>1. BeginCall /\ Build
        BY <2>2, <3>2 DEF BuilderNext, ParseBegins, NextByteComes, ParseGoesOn,
           MoveReq
      <4>2. ret' = "short" /\ call' = "idle"
        BY <3>2, <4>1 DEF BeginCall
      <4> QED
        BY <4>1, <4>2, Verdicts DEF Build
    <3> QED
      BY <3>1, <3>2 DEF VerdictInv
  <2> QED
    BY <1>1, <2>1, <2>2
<1>2. IInv /\ KindInv /\ BuiltInv /\ [BuilderNext]_allVars =>
        [/\ call' = "idle" /\ parser'.http_errno # "OK"
              => \/ parsed' = "bad"
                 \/ parser'.http_errno = "HEADER_OVERFLOW" /\ ret' = "all"
         /\ parser.http_errno # "OK" /\ calls' # calls => parsed' = "bad"]_allVars
  BY <1>1
<1> QED
  BY <1>2, BuilderInvariance, PTL DEF BuilderSpec, ErrorsAreTold
=============================================================================
