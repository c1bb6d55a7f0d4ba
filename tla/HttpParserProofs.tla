--------------------------- MODULE HttpParserProofs ---------------------------
(***************************************************************************)
(* Proofs about HttpParser and about ResponseScript, which composes it     *)
(* with a script, for all responses, limits, segmentations and numbers of  *)
(* requests.                                                               *)
(*                                                                         *)
(* The first part shows that every value has its type, and what            *)
(* js_headers_from_http makes of a list of header lines.  The second shows *)
(* that the parser takes a response for what it is.  Its invariant says    *)
(* where in the response the parser is: Ahead(buf, sent, short, full) says *)
(* that what is in the buffer and what is on its way are together the rest *)
(* of the response, or its beginning if the server has cut it short, and   *)
(* Progress names for each state of the parser which rest that is.  The    *)
(* last is about the script: what forEach gives to its callback, whatever  *)
(* the callback does to the headers.                                       *)
(***************************************************************************)
EXTENDS ResponseScript, SumProofs, SequenceTheorems

-----------------------------------------------------------------------------
(* Numbers and sequences *)

\* The least of a set of natural numbers is in it, and least.
LEMMA MinOf ==
  ASSUME NEW S \in SUBSET Nat, S # {}
  PROVE  Min(S) \in S /\ \A m \in S : Min(S) <= m
BY LeastOf DEF Min

\* A CRLF that was found is in the buffer.
LEMMA CrlfIsIn ==
  ASSUME NEW buf \in Seq(Tokens)
  PROVE  /\ FindCrlf(buf) \in Nat
         /\ FindCrlf(buf) > 0 => FindCrlf(buf) + 1 <= Len(buf)
<1> DEFINE Found == {i \in 1 .. Len(buf) - 1 : buf[i] = CR /\ buf[i + 1] = LF}
<1>1. Found \in SUBSET Nat
  OBVIOUS
<1>2. FindCrlf(buf) = IF Found = {} THEN 0 ELSE CHOOSE i \in Found : \A j \in Found : i <= j
  BY DEF FindCrlf
<1>3. CASE Found = {}
  BY <1>2, <1>3
<1>4. CASE Found # {}
  <2> HIDE DEF Found
  <2>1. FindCrlf(buf) \in Found
    BY <1>1, <1>2, <1>4, LeastOf
  <2> QED BY <2>1 DEF Found
<1> QED BY <1>3, <1>4

\* What is taken off the buffer, and what stays, are sequences of tokens.
LEMMA PartsTyped ==
  ASSUME NEW s \in Seq(Tokens), NEW n \in 0 .. Len(s)
  PROVE  /\ SubSeq(s, 1, n) \in Seq(Tokens) /\ Len(SubSeq(s, 1, n)) = n
         /\ Consume(s, n) \in Seq(Tokens) /\ Len(Consume(s, n)) = Len(s) - n
BY DEF Consume

-----------------------------------------------------------------------------
(* Headers *)

\* No name is twice in the headers.
Distinct(h) == \A i, j \in DOMAIN h : h[i][1] = h[j][1] => i = j

\* The search ends at the first entry of the name.
LEMMA FindIs ==
  ASSUME NEW h \in Seq(Tokens), NEW name
  PROVE  /\ Find(h, name) \in 0 .. Len(h)
         /\ Has(h, name) <=> name \in Names(h)
         /\ Has(h, name) => Find(h, name) \in 1 .. Len(h) /\ h[Find(h, name)][1] = name
<1> DEFINE Places == {i \in DOMAIN h : h[i][1] = name}
<1>1. Places \in SUBSET Nat /\ (Places # {} <=> name \in Names(h))
  BY DEF Names
<1>2. CASE name \in Names(h)
  <2>1. Find(h, name) = Min(Places)
    BY <1>2 DEF Find
  <2>2. Find(h, name) \in Places
    <3> HIDE DEF Places
    <3> QED BY <1>1, <1>2, <2>1, MinOf
  <2> QED BY <1>2, <2>2 DEF Has, NotFound
<1>3. CASE name \notin Names(h)
  BY <1>3 DEF Find, Has, NotFound
<1> QED BY <1>2, <1>3

\* In distinct headers every entry is found by its name.
LEMMA FindsEach ==
  ASSUME NEW h \in Seq(Tokens), Distinct(h), NEW i \in 1 .. Len(h)
  PROVE  Find(h, h[i][1]) = i /\ Has(h, h[i][1])
<1>1. h[i][1] \in Names(h)
  BY DEF Names
<1> QED BY <1>1, FindIs DEF Distinct

\* Setting a header changes the entry of its name, or adds one at the end.
LEMMA SetIs ==
  ASSUME NEW h \in Seq(Tokens), NEW name \in Kinds, NEW value \in Nat
  PROVE  LET g == Set(h, name, value)
         IN  /\ g \in Seq(Tokens)
             /\ Len(g) = IF name \in Names(h) THEN Len(h) ELSE Len(h) + 1
             /\ \A i \in 1 .. Len(h) :
                  g[i] = IF name \in Names(h) /\ i = Find(h, name)
                         THEN <<name, value>> ELSE h[i]
             /\ name \notin Names(h) => g[Len(h) + 1] = <<name, value>>
<1> DEFINE g == Set(h, name, value)
           p == Find(h, name)
<1>1. CASE Has(h, name)
  <2>1. p \in 1 .. Len(h) /\ h[p][1] = name /\ name \in Names(h)
    BY <1>1, FindIs
  <2>2. h[p] \in Tokens
    BY <2>1
  <2>3. [h[p] EXCEPT ![2] = value] = <<name, value>>
    BY <2>1, <2>2 DEF Tokens
  <2>4. g = [h EXCEPT ![p] = [h[p] EXCEPT ![2] = value]]
    BY <1>1 DEF Set
  <2>5. g = [h EXCEPT ![p] = <<name, value>>]
    BY <2>3, <2>4
  <2>6. <<name, value>> \in Tokens
    BY DEF Tokens
  <2> HIDE DEF g, p
  <2>7. g \in Seq(Tokens) /\ Len(g) = Len(h)
    BY <2>1, <2>5, <2>6
  <2>8. \A i \in 1 .. Len(h) : g[i] = IF i = p THEN <<name, value>> ELSE h[i]
    BY <2>1, <2>5
  <2> QED BY <2>1, <2>7, <2>8 DEF g, p
<1>2. CASE ~Has(h, name)
  <2>1. name \notin Names(h)
    BY <1>2, FindIs
  <2>2. g = Append(h, <<name, value>>)
    BY <1>2 DEF Set
  <2>3. <<name, value>> \in Tokens
    BY DEF Tokens
  <2> HIDE DEF g
  <2>4. /\ g \in Seq(Tokens) /\ Len(g) = Len(h) + 1
        /\ \A i \in 1 .. Len(h) : g[i] = h[i]
        /\ g[Len(h) + 1] = <<name, value>>
    BY <2>2, <2>3
  <2> QED BY <2>1, <2>4 DEF g
<1> QED BY <1>1, <1>2

\* and keeps the names distinct.
LEMMA SetDistinct ==
  ASSUME NEW h \in Seq(Tokens), Distinct(h), NEW name \in Kinds, NEW value \in Nat
  PROVE  Distinct(Set(h, name, value))
<1> DEFINE g == Set(h, name, value)
           p == Find(h, name)
<1>1. /\ g \in Seq(Tokens)
      /\ Len(g) = IF name \in Names(h) THEN Len(h) ELSE Len(h) + 1
      /\ \A i \in 1 .. Len(h) :
           g[i] = IF name \in Names(h) /\ i = p THEN <<name, value>> ELSE h[i]
      /\ name \notin Names(h) => g[Len(h) + 1] = <<name, value>>
  BY SetIs
<1>2. name \in Names(h) => p \in 1 .. Len(h) /\ h[p][1] = name
  BY FindIs
<1> HIDE DEF g, p
<1>3. \A i \in 1 .. Len(h) : g[i][1] = h[i][1]
  BY <1>1, <1>2
<1>4. \A i, j \in 1 .. Len(h) : g[i][1] = g[j][1] => i = j
  BY <1>3 DEF Distinct
<1>5. CASE name \in Names(h)
  <2>1. DOMAIN g = 1 .. Len(h)
    BY <1>1, <1>5
  <2>2. Distinct(g)
    BY <1>4, <2>1 DEF Distinct
  <2> QED BY <2>2 DEF g
<1>6. CASE name \notin Names(h)
  <2>1. \A i \in 1 .. Len(h) : h[i][1] # name
    BY <1>6 DEF Names
  <2>2. g[Len(h) + 1][1] = name /\ DOMAIN g = 1 .. Len(h) + 1
    BY <1>1, <1>6
  <2>3. \A i \in 1 .. Len(h) : g[i][1] # g[Len(h) + 1][1]
    BY <1>3, <2>1, <2>2
  <2>4. Distinct(g)
    BY <1>4, <2>2, <2>3 DEF Distinct
  <2> QED BY <2>4 DEF g
<1> QED BY <1>5, <1>6

\* Deleting a header moves the entries behind it up by one.
LEMMA DeleteIs ==
  ASSUME NEW h \in Seq(Tokens), Distinct(h), NEW name, Has(h, name)
  PROVE  LET g == Delete(h, name)
         IN  /\ g \in Seq(Tokens) /\ Distinct(g)
             /\ Len(g) = Len(h) - 1
             /\ \A i \in 1 .. Len(h) - 1 :
                  g[i] = IF i < Find(h, name) THEN h[i] ELSE h[i + 1]
<1> DEFINE g == Delete(h, name)
           p == Find(h, name)
           a == SubSeq(h, 1, p - 1)
           b == SubSeq(h, p + 1, Len(h))
<1>1. p \in 1 .. Len(h) /\ g = a \o b
  BY FindIs DEF Delete, RemoveAt
<1> HIDE DEF p
<1>2. /\ a \in Seq(Tokens) /\ Len(a) = p - 1
      /\ \A i \in 1 .. p - 1 : a[i] = h[i]
  BY <1>1
<1>3. /\ b \in Seq(Tokens) /\ Len(b) = Len(h) - p
      /\ \A i \in 1 .. Len(h) - p : b[i] = h[i + p]
  BY <1>1
<1> HIDE DEF g, a, b
<1>4. /\ g \in Seq(Tokens) /\ Len(g) = Len(h) - 1
      /\ \A i \in 1 .. Len(h) - 1 : g[i] = IF i <= Len(a) THEN a[i] ELSE b[i - Len(a)]
  <2>1. /\ a \o b \in Seq(Tokens) /\ Len(a \o b) = Len(a) + Len(b)
        /\ \A i \in 1 .. Len(a) + Len(b) :
             (a \o b)[i] = IF i <= Len(a) THEN a[i] ELSE b[i - Len(a)]
    BY <1>2, <1>3, ConcatProperties
  <2>2. Len(a) + Len(b) = Len(h) - 1
    BY <1>1, <1>2, <1>3
  <2> QED BY <1>1, <2>1, <2>2
<1>5. \A i \in 1 .. Len(h) - 1 : g[i] = IF i < p THEN h[i] ELSE h[i + 1]
  <2> SUFFICES ASSUME NEW i \in 1 .. Len(h) - 1
               PROVE  g[i] = IF i < p THEN h[i] ELSE h[i + 1]
    OBVIOUS
  <2>1. CASE i < p
    BY <1>1, <1>2, <1>4, <2>1
  <2>2. CASE ~(i < p)
    <3>1. g[i] = b[i - (p - 1)] /\ i - (p - 1) \in 1 .. Len(h) - p
      BY <1>1, <1>2, <1>4, <2>2
    <3>2. b[i - (p - 1)] = h[i - (p - 1) + p]
      BY <1>3, <3>1
    <3>3. i - (p - 1) + p = i + 1
      BY <1>1
    <3> QED BY <2>2, <3>1, <3>2, <3>3
  <2> QED BY <2>1, <2>2
<1>6. Distinct(g)
  <2> SUFFICES ASSUME NEW i \in 1 .. Len(h) - 1, NEW j \in 1 .. Len(h) - 1,
                      g[i][1] = g[j][1]
               PROVE  i = j
    BY <1>4 DEF Distinct
  <2> DEFINE Old(k) == IF k < p THEN k ELSE k + 1
  <2>1. Old(i) \in DOMAIN h /\ Old(j) \in DOMAIN h
    OBVIOUS
  <2>2. h[Old(i)][1] = h[Old(j)][1]
    BY <1>5
  <2>3. Old(i) = Old(j)
    BY <2>1, <2>2 DEF Distinct
  <2> QED BY <1>1, <2>3
<1> QED BY <1>4, <1>5, <1>6 DEF g, p

-----------------------------------------------------------------------------
(* js_headers_from_http *)

\* h is the summary of the first n lines: each name once, with the value of its
\* last line, in the order of their first ones.
Summary(h, list, n) ==
  /\ h \in Seq(Tokens) /\ Distinct(h)
  /\ \A i \in 1 .. n : list[i][1] \in Names(h)
  /\ \A j \in 1 .. Len(h) : \E i \in 1 .. n :
       list[i] = h[j] /\ \A k \in i + 1 .. n : list[k][1] # h[j][1]
  /\ \A j, k \in 1 .. Len(h) : j < k => \E i \in 1 .. n :
       list[i][1] = h[j][1] /\ \A m \in 1 .. i : list[m][1] # h[k][1]

\* Setting the header of one more line gives the summary with that line.
LEMMA OneMoreLine ==
  ASSUME NEW list \in Seq(Tokens), NEW n \in Nat, n < Len(list), NEW h,
         Summary(h, list, n)
  PROVE  Summary(Set(h, list[n + 1][1], list[n + 1][2]), list, n + 1)
<1> DEFINE name  == list[n + 1][1]
           value == list[n + 1][2]
           g     == Set(h, name, value)
           p     == Find(h, name)
<1>1. h \in Seq(Tokens) /\ Distinct(h)
  BY DEF Summary
<1>2. list[n + 1] \in Tokens
  OBVIOUS
<1>3. name \in Kinds /\ value \in Nat /\ list[n + 1] = <<name, value>>
  BY <1>2 DEF Tokens
<1> HIDE DEF name, value
<1>4. Distinct(g)
  BY <1>1, <1>3, SetDistinct
<1>5. /\ g \in Seq(Tokens)
      /\ Len(g) = IF name \in Names(h) THEN Len(h) ELSE Len(h) + 1
      /\ \A i \in 1 .. Len(h) :
           g[i] = IF name \in Names(h) /\ i = p THEN <<name, value>> ELSE h[i]
      /\ name \notin Names(h) => g[Len(h) + 1] = <<name, value>>
  BY <1>1, <1>3, SetIs
<1>6. name \in Names(h) => p \in 1 .. Len(h) /\ h[p][1] = name
  BY <1>1, FindIs
<1>7. name \notin Names(h) => \A i \in 1 .. Len(h) : h[i][1] # name
  BY <1>1 DEF Names
<1> HIDE DEF g, p
<1>8. \A i \in 1 .. Len(h) : g[i][1] = h[i][1]
  BY <1>5, <1>6
<1>9. \A i \in 1 .. n + 1 : list[i][1] \in Names(g)
  <2>1. Names(h) \subseteq Names(g)
    BY <1>1, <1>5, <1>8 DEF Names
  <2>2. name \in Names(g)
    <3>1. CASE name \in Names(h)
      BY <2>1, <3>1
    <3>2. CASE name \notin Names(h)
      BY <1>5, <3>2 DEF Names
    <3> QED BY <3>1, <3>2
  <2>3. \A i \in 1 .. n : list[i][1] \in Names(h)
    BY DEF Summary
  <2>4. list[n + 1][1] = name
    BY DEF name
  <2> QED BY <2>1, <2>2, <2>3, <2>4
<1>10. \A j \in 1 .. Len(g) : \E i \in 1 .. n + 1 :
         list[i] = g[j] /\ \A k \in i + 1 .. n + 1 : list[k][1] # g[j][1]
  <2> SUFFICES ASSUME NEW j \in 1 .. Len(g)
               PROVE  \E i \in 1 .. n + 1 :
                        list[i] = g[j] /\ \A k \in i + 1 .. n + 1 : list[k][1] # g[j][1]
    OBVIOUS
  <2>1. CASE g[j] = <<name, value>>
    BY <1>3, <2>1
  <2>2. CASE g[j] # <<name, value>>
    <3>1. j \in 1 .. Len(h) /\ g[j] = h[j]
      BY <1>1, <1>5, <1>6, <2>2
    <3>2. PICK i \in 1 .. n : list[i] = h[j] /\ \A k \in i + 1 .. n : list[k][1] # h[j][1]
      BY <3>1 DEF Summary
    <3>3. h[j][1] # name
      BY <1>1, <1>5, <1>6, <1>7, <2>2, <3>1 DEF Distinct
    <3>4. \A k \in i + 1 .. n + 1 : list[k][1] # g[j][1]
      <4> SUFFICES ASSUME NEW k \in i + 1 .. n + 1
                   PROVE  list[k][1] # h[j][1]
        BY <3>1
      <4>1. CASE k = n + 1
        <5>1. list[k][1] = name
          BY <4>1 DEF name
        <5> QED BY <3>3, <5>1
      <4>2. CASE k # n + 1
        <5>1. k \in i + 1 .. n
          BY <3>2, <4>2
        <5> QED BY <3>2, <5>1
      <4> QED BY <4>1, <4>2
    <3> QED BY <3>1, <3>2, <3>4
  <2> QED BY <2>1, <2>2
<1>11. \A j, k \in 1 .. Len(g) : j < k => \E i \in 1 .. n + 1 :
         list[i][1] = g[j][1] /\ \A m \in 1 .. i : list[m][1] # g[k][1]
  <2> SUFFICES ASSUME NEW j \in 1 .. Len(g), NEW k \in 1 .. Len(g), j < k
               PROVE  \E i \in 1 .. n + 1 :
                        list[i][1] = g[j][1] /\ \A m \in 1 .. i : list[m][1] # g[k][1]
    OBVIOUS
  <2>1. j \in 1 .. Len(h)
    BY <1>1, <1>5
  <2>2. CASE k \in 1 .. Len(h)
    <3>1. PICK i \in 1 .. n : list[i][1] = h[j][1] /\ \A m \in 1 .. i : list[m][1] # h[k][1]
      BY <2>1, <2>2 DEF Summary
    <3> QED BY <1>8, <2>1, <2>2, <3>1
  <2>3. CASE k \notin 1 .. Len(h)
    <3>1. name \notin Names(h) /\ g[k][1] = name
      BY <1>1, <1>5, <2>3
    <3>2. PICK i \in 1 .. n : list[i] = h[j]
      BY <2>1 DEF Summary
    <3>3. \A m \in 1 .. n : list[m][1] # name
      BY <3>1 DEF Summary
    <3> QED BY <1>8, <2>1, <3>1, <3>2, <3>3
  <2> QED BY <2>2, <2>3
<1> QED BY <1>4, <1>5, <1>9, <1>10, <1>11 DEF Summary, g, name, value

\* The loop is defined for every number of lines, by its last line.
LEMMA LoopIsDefined ==
  ASSUME NEW list \in Seq(Tokens)
  PROVE  LET made[n \in 0 .. Len(list)] ==
               IF n = 0 THEN <<>> ELSE Set(made[n - 1], list[n][1], list[n][2])
         IN  made = [n \in 0 .. Len(list) |->
                       IF n = 0 THEN <<>> ELSE Set(made[n - 1], list[n][1], list[n][2])]
<1> DEFINE After(f, n) == IF n = 0 THEN <<>> ELSE Set(f[n - 1], list[n][1], list[n][2])
           Made(f, k)  == f = [n \in 0 .. k |-> After(f, n)]
           Without     == {k \in 0 .. Len(list) : ~\E f : Made(f, k)}
<1> SUFFICES \E f : Made(f, Len(list))
  BY Zenon
<1>1. Without = {}
  <2> SUFFICES ASSUME Without # {} PROVE FALSE
    OBVIOUS
  <2>1. Without \in SUBSET Nat
    OBVIOUS
  <2>2. PICK k \in Without : \A m \in Without : k <= m
    <3> HIDE DEF Without
    <3> QED BY <2>1, LeastOf
  <2>3. k \in 0 .. Len(list) /\ ~\E f : Made(f, k)
    OBVIOUS
  <2> HIDE DEF Without
  <2>4. CASE k = 0
    <3> DEFINE f == [n \in 0 .. 0 |-> <<>>]
    <3>1. \A n \in 0 .. 0 : After(f, n) = <<>>
      OBVIOUS
    <3>2. Made(f, 0)
      BY <3>1
    <3> QED BY <2>3, <2>4, <3>2
  <2>5. CASE k # 0
    <3>1. k - 1 \in 0 .. Len(list) /\ k - 1 \notin Without
      BY <2>2, <2>3, <2>5
    <3>2. PICK f : Made(f, k - 1)
      BY <3>1, Zenon DEF Without
    <3> DEFINE g == [n \in 0 .. k |-> IF n = k THEN After(f, k) ELSE f[n]]
    <3>3. \A n \in 0 .. k - 1 : g[n] = f[n] /\ f[n] = After(f, n)
      <4>1. \A n \in 0 .. k - 1 : g[n] = f[n]
        BY <2>3
      <4>2. f = [n \in 0 .. k - 1 |-> After(f, n)]
        BY <3>2
      <4> HIDE DEF After
      <4>3. \A n \in 0 .. k - 1 : [m \in 0 .. k - 1 |-> After(f, m)][n] = After(f, n)
        BY Zenon
      <4> QED BY <4>1, <4>2, <4>3, Zenon
    <3>4. g[k] = After(f, k)
      BY <2>3
    <3> HIDE DEF g
    <3>5. \A n \in 0 .. k : g[n] = After(g, n)
      BY <2>3, <2>5, <3>3, <3>4
    <3>6. g = [n \in 0 .. k |-> g[n]]
      BY DEF g
    <3>7. Made(g, k)
      <4> HIDE DEF After
      <4> QED BY <3>5, <3>6
    <3> QED BY <2>3, <3>7
  <2> QED BY <2>4, <2>5
<1>2. Len(list) \in 0 .. Len(list)
  BY LenProperties
<1> QED BY <1>1, <1>2, Zenon

\* js_headers_from_http gives the summary of all lines, whatever they are.
LEMMA HeadersSummarise ==
  ASSUME NEW list \in Seq(Tokens)
  PROVE  Summary(HeadersFromHttp(list), list, Len(list))
<1> DEFINE made[n \in 0 .. Len(list)] ==
             IF n = 0 THEN <<>> ELSE Set(made[n - 1], list[n][1], list[n][2])
           Wrong == {n \in 0 .. Len(list) : ~Summary(made[n], list, n)}
<1>1. made = [n \in 0 .. Len(list) |->
                IF n = 0 THEN <<>> ELSE Set(made[n - 1], list[n][1], list[n][2])]
  BY LoopIsDefined
<1>2. HeadersFromHttp(list) = made[Len(list)]
  BY DEF HeadersFromHttp
<1> HIDE DEF made
<1>3. made[0] = <<>>
  BY <1>1
<1>4. \A n \in 1 .. Len(list) : made[n] = Set(made[n - 1], list[n][1], list[n][2])
  BY <1>1
<1>5. Wrong = {}
  <2> SUFFICES ASSUME Wrong # {} PROVE FALSE
    OBVIOUS
  <2>1. Wrong \in SUBSET Nat
    OBVIOUS
  <2>2. PICK k \in Wrong : \A m \in Wrong : k <= m
    <3> HIDE DEF Wrong
    <3> QED BY <2>1, LeastOf
  <2>3. k \in 0 .. Len(list) /\ ~Summary(made[k], list, k)
    OBVIOUS
  <2>4. CASE k = 0
    <3> DEFINE h == << >>
    <3>1. h \in Seq(Tokens) /\ Len(h) = 0 /\ DOMAIN h = {}
      OBVIOUS
    <3> HIDE DEF h
    <3>2. Summary(h, list, 0)
      BY <3>1 DEF Summary, Distinct
    <3> QED BY <1>3, <2>3, <2>4, <3>2 DEF h
  <2>5. CASE k # 0
    <3>1. k - 1 \in Nat /\ k - 1 < Len(list) /\ k - 1 + 1 = k /\ k - 1 \notin Wrong
      BY <2>2, <2>3, <2>5
    <3>2. Summary(made[k - 1], list, k - 1)
      BY <3>1
    <3>3. Summary(Set(made[k - 1], list[k][1], list[k][2]), list, k)
      BY <3>1, <3>2, OneMoreLine
    <3> QED BY <1>4, <2>3, <2>5, <3>3
  <2> QED BY <2>4, <2>5
<1> QED BY <1>2, <1>5

-----------------------------------------------------------------------------
(* The parser *)

ParserSet ==
  [state : ParseStates, code : Nat, headers : Seq(Tokens), body : Seq(Tokens),
   length : Nat, remaining : Nat, buf : Seq(Tokens)]

\* There is no body before the headers are complete, and a body with a length
\* never grows beyond it, so what is still missing is never negative.
ParserOK(p) ==
  /\ p \in ParserSet
  /\ Len(p.headers) <= MaxHeaders
  /\ p.state \in {"status_line", "header_line"} => p.body = <<>>
  /\ p.state = "body_identity" => Len(p.body) <= p.length

LEMMA ResetIsOK ==
  ASSUME NEW p
  PROVE  ParserOK(ResponseReset(p))
BY LimitsAssumption DEF ParserOK, ParserSet, ParseStates, ResponseReset

\* The first line of the buffer, and what follows it.
LEMMA LineTaken ==
  ASSUME ParserOK(r), NEW pos, pos = FindCrlf(r.buf), pos > 0
  PROVE  /\ AfterLine(r.buf, pos) \in Seq(Tokens)
         /\ LineOf(r.buf, pos) \in Seq(Tokens)
<1>1. r.buf \in Seq(Tokens)
  BY DEF ParserOK, ParserSet
<1>2. pos \in Nat /\ pos + 1 \in 0 .. Len(r.buf) /\ pos - 1 \in 0 .. Len(r.buf)
  BY <1>1, CrlfIsIn
<1> QED BY <1>1, <1>2, PartsTyped DEF AfterLine, LineOf

\* The first header of a kind has a number for a value.
LEMMA HeaderValueTyped ==
  ASSUME ParserOK(r), NEW kind, HasHeader(kind)
  PROVE  HeaderValue(kind) \in Nat
<1>1. r.headers \in Seq(Tokens)
  BY DEF ParserOK, ParserSet
<1>2. HeadersOf(kind) \in SUBSET Nat /\ HeadersOf(kind) # {}
        /\ HeadersOf(kind) \subseteq DOMAIN r.headers
  BY <1>1 DEF HeadersOf, HasHeader
<1> DEFINE i == CHOOSE i \in HeadersOf(kind) : \A j \in HeadersOf(kind) : i <= j
<1>3. i \in DOMAIN r.headers
  BY <1>2, LeastOf
<1>4. HeaderValue(kind) = r.headers[i][2]
  BY DEF HeaderValue
<1> HIDE DEF i
<1>5. r.headers[i] \in Tokens
  BY <1>1, <1>3
<1> QED BY <1>4, <1>5 DEF Tokens

LEMMA StatusLineKeeps ==
  ASSUME ParserOK(r), StatusLine
  PROVE  ParserOK(r')
<1> DEFINE pos  == FindCrlf(r.buf)
           line == LineOf(r.buf, pos)
<1>1. r.state = "status_line" /\ r \in ParserSet
  BY DEF StatusLine, At, ParserOK
<1>2. CASE pos = 0 /\ r' = r
  BY <1>2
<1>3. CASE pos > 0 /\ IsStatus(line)
           /\ r' = [r EXCEPT !.code = line[1][2], !.buf = AfterLine(r.buf, pos),
                             !.state = "header_line"]
  <2>1. AfterLine(r.buf, pos) \in Seq(Tokens) /\ line \in Seq(Tokens)
    BY <1>3, LineTaken
  <2>2. line # <<>>
    BY <1>3 DEF IsStatus
  <2> HIDE DEF pos, line
  <2>3. line[1] \in Tokens
    BY <2>1, <2>2
  <2>4. line[1][2] \in Nat
    BY <2>3 DEF Tokens
  <2> QED BY <1>1, <1>3, <2>1, <2>4 DEF ParserOK, ParserSet, ParseStates
<1>4. CASE pos > 0 /\ r' = [r EXCEPT !.state = "error"]
  BY <1>1, <1>4 DEF ParserOK, ParserSet, ParseStates
<1> QED BY <1>2, <1>3, <1>4 DEF StatusLine, Starve, Parse

LEMMA HeaderLineKeeps ==
  ASSUME ParserOK(r), HeaderLine
  PROVE  ParserOK(r')
<1> DEFINE pos   == FindCrlf(r.buf)
           line  == LineOf(r.buf, pos)
           after == [r EXCEPT !.buf = AfterLine(r.buf, pos)]
<1>1. r.state = "header_line" /\ r \in ParserSet /\ pos \in Nat
  BY CrlfIsIn DEF HeaderLine, At, ParserOK, ParserSet
<1>2. CASE pos = 0 /\ r' = r
  BY <1>2
<1>3. pos > 0 => /\ line \in Seq(Tokens)
                 /\ ParserOK(after) /\ after.state = "header_line"
                 /\ after.headers = r.headers /\ after.body = <<>>
  <2> SUFFICES ASSUME pos > 0
               PROVE  /\ line \in Seq(Tokens)
                      /\ ParserOK(after) /\ after.state = "header_line"
                      /\ after.headers = r.headers /\ after.body = <<>>
    OBVIOUS
  <2>1. AfterLine(r.buf, pos) \in Seq(Tokens) /\ line \in Seq(Tokens)
    BY LineTaken
  <2> HIDE DEF pos, line
  <2> QED BY <1>1, <2>1 DEF ParserOK, ParserSet
<1> HIDE DEF pos, line, after
<1>4. CASE pos = 1 /\ r' = BodyMode(after)
  <2>1. /\ ParserOK(after) /\ after.state = "header_line" /\ after.body = <<>>
        /\ after \in ParserSet
    BY <1>1, <1>3, <1>4 DEF ParserOK
  <2>2. CASE HasHeader("chunked")
    <3>1. BodyMode(after) = [after EXCEPT !.state = "chunk_size"]
      BY <2>2 DEF BodyMode
    <3> QED BY <1>4, <2>1, <3>1 DEF ParserOK, ParserSet, ParseStates
  <2>3. CASE ~HasHeader("chunked") /\ HasHeader("length")
    <3> DEFINE n == HeaderValue("length")
    <3>1. n \in Nat
      BY <2>3, HeaderValueTyped
    <3> DEFINE st == IF n = 0 THEN "done" ELSE "body_identity"
    <3>2. BodyMode(after) = [after EXCEPT !.length = n, !.state = st]
      BY <2>3 DEF BodyMode
    <3> HIDE DEF n
    <3>3. st \in {"done", "body_identity"}
      OBVIOUS
    <3> HIDE DEF st
    <3>4. /\ r' \in ParserSet /\ r'.state = st /\ r'.body = <<>> /\ r'.length = n
          /\ r'.headers = after.headers
      BY <1>4, <2>1, <3>1, <3>2, <3>3 DEF ParserSet, ParseStates
    <3> QED BY <2>1, <3>1, <3>3, <3>4 DEF ParserOK
  <2>4. CASE ~HasHeader("chunked") /\ ~HasHeader("length")
    <3>1. BodyMode(after) = [after EXCEPT !.state = "done"]
      BY <2>4 DEF BodyMode
    <3> QED BY <1>4, <2>1, <3>1 DEF ParserOK, ParserSet, ParseStates
  <2> QED BY <2>2, <2>3, <2>4
<1>5. CASE /\ pos > 1 /\ HasColon(line) /\ Len(r.headers) < MaxHeaders
           /\ r' = [after EXCEPT !.headers = Append(@, HeaderOf(line))]
  <2>1. /\ line \in Seq(Tokens)
        /\ ParserOK(after) /\ after.state = "header_line" /\ after.body = <<>>
        /\ after.headers = r.headers
    BY <1>1, <1>3, <1>5
  <2>2. HeaderOf(line) \in Tokens
    <3>1. Len(line) = 1 => line[1] \in Tokens
      BY <2>1
    <3>2. <<"header", 0>> \in Tokens
      BY DEF Tokens, Kinds
    <3> QED BY <3>1, <3>2 DEF HeaderOf
  <2> DEFINE list == Append(after.headers, HeaderOf(line))
  <2>3. list \in Seq(Tokens) /\ Len(list) = Len(r.headers) + 1
    BY <2>1, <2>2 DEF ParserOK, ParserSet
  <2>4. r' = [after EXCEPT !.headers = list]
    BY <1>5
  <2> HIDE DEF list
  <2>5. Len(list) <= MaxHeaders
    BY <1>5, <2>1, <2>3, LimitsAssumption DEF ParserOK, ParserSet
  <2> QED BY <2>1, <2>3, <2>4, <2>5 DEF ParserOK, ParserSet
<1>6. CASE pos > 1 /\ r' = after
  BY <1>1, <1>3, <1>6
<1> QED BY <1>2, <1>4, <1>5, <1>6 DEF HeaderLine, Starve, Parse, pos, line, after

LEMMA Joined ==
  ASSUME NEW s \in Seq(Tokens), NEW t \in Seq(Tokens)
  PROVE  s \o t \in Seq(Tokens) /\ Len(s \o t) = Len(s) + Len(t)
BY ConcatProperties

\* Taking a part of the buffer into the body.
LEMMA BodyTaken ==
  ASSUME ParserOK(r), NEW n \in 0 .. Len(r.buf)
  PROVE  /\ TakeBody(n) \in ParserSet
         /\ Len(TakeBody(n).body) = Len(r.body) + n
         /\ TakeBody(n).state = r.state /\ TakeBody(n).headers = r.headers
         /\ TakeBody(n).length = r.length /\ TakeBody(n).remaining = r.remaining
<1> DEFINE body == r.body \o SubSeq(r.buf, 1, n)
           buf  == Consume(r.buf, n)
<1>1. r \in ParserSet /\ r.body \in Seq(Tokens) /\ r.buf \in Seq(Tokens)
  BY DEF ParserOK, ParserSet
<1>2. /\ SubSeq(r.buf, 1, n) \in Seq(Tokens) /\ Len(SubSeq(r.buf, 1, n)) = n
      /\ buf \in Seq(Tokens)
  BY <1>1, PartsTyped
<1>3. body \in Seq(Tokens) /\ Len(body) = Len(r.body) + n
  <2>1. body \in Seq(Tokens) /\ Len(body) = Len(r.body) + Len(SubSeq(r.buf, 1, n))
    BY <1>1, <1>2, Joined, Zenon
  <2> QED BY <1>2, <2>1
<1>4. TakeBody(n) = [r EXCEPT !.body = body, !.buf = buf]
  BY DEF TakeBody
<1> HIDE DEF body, buf
<1> QED BY <1>1, <1>2, <1>3, <1>4 DEF ParserSet

LEMMA BodyIdentityKeeps ==
  ASSUME ParserOK(r), BodyIdentity
  PROVE  ParserOK(r')
<1> DEFINE avail == Least(Len(r.buf), r.length - Len(r.body))
           p     == TakeBody(avail)
<1>1. /\ r \in ParserSet /\ r.state = "body_identity" /\ Len(r.body) <= r.length
      /\ Len(r.headers) <= MaxHeaders
      /\ Len(r.body) \in Nat /\ Len(r.buf) \in Nat /\ r.length \in Nat
  BY DEF BodyIdentity, At, ParserOK, ParserSet
<1>2. avail \in 0 .. Len(r.buf) /\ Len(r.body) + avail <= r.length
  BY <1>1 DEF Least
<1> HIDE DEF avail
<1>3. /\ p \in ParserSet /\ Len(p.body) <= r.length
      /\ p.state = "body_identity" /\ p.headers = r.headers /\ p.length = r.length
  BY <1>1, <1>2, BodyTaken
<1>4. r' = [p EXCEPT !.state = "done"] \/ r' = p
  BY DEF BodyIdentity, Parse, Starve, avail
<1> HIDE DEF p
<1>5. CASE r' = p
  BY <1>1, <1>3, <1>5 DEF ParserOK
<1>6. CASE r' = [p EXCEPT !.state = "done"]
  BY <1>1, <1>3, <1>6 DEF ParserOK, ParserSet, ParseStates
<1> QED BY <1>4, <1>5, <1>6

LEMMA SizeTyped ==
  ASSUME NEW line \in Seq(Tokens)
  PROVE  SizeOf(line) \in Nat
<1>1. CASE line # <<>>
  <2>1. line[1] \in Tokens
    BY <1>1
  <2> QED BY <2>1 DEF SizeOf, Tokens
<1> QED BY <1>1 DEF SizeOf

LEMMA ChunkSizeKeeps ==
  ASSUME ParserOK(r), ChunkSize
  PROVE  ParserOK(r')
<1> DEFINE pos   == FindCrlf(r.buf)
           size  == SizeOf(LineOf(r.buf, pos))
           after == [r EXCEPT !.buf = AfterLine(r.buf, pos)]
<1>1. r.state = "chunk_size" /\ r \in ParserSet /\ Len(r.headers) <= MaxHeaders
  BY DEF ChunkSize, At, ParserOK
<1>2. pos > 0 => size \in Nat /\ after \in ParserSet /\ after.headers = r.headers
  <2> SUFFICES ASSUME pos > 0
               PROVE  size \in Nat /\ after \in ParserSet /\ after.headers = r.headers
    OBVIOUS
  <2>1. AfterLine(r.buf, pos) \in Seq(Tokens) /\ LineOf(r.buf, pos) \in Seq(Tokens)
    BY LineTaken
  <2>2. size \in Nat
    BY <2>1, SizeTyped
  <2> HIDE DEF size
  <2> QED BY <1>1, <2>1, <2>2 DEF ParserSet
<1>3. \/ r' = r
      \/ pos > 0 /\ r' = [after EXCEPT !.state = "chunk_trailer"]
      \/ pos > 0 /\ r' = [after EXCEPT !.remaining = size, !.state = "chunk_data"]
  BY DEF ChunkSize, Parse, Starve
<1> HIDE DEF pos, size, after
<1> QED BY <1>1, <1>2, <1>3 DEF ParserOK, ParserSet, ParseStates

LEMMA ChunkDataKeeps ==
  ASSUME ParserOK(r), ChunkData
  PROVE  ParserOK(r')
<1> DEFINE avail == Least(Len(r.buf), r.remaining)
           took  == TakeBody(avail)
           left  == took.remaining - avail
           t     == [took EXCEPT !.remaining = left]
           p     == ChunkEnd(t)
<1>1. /\ r \in ParserSet /\ r.state = "chunk_data" /\ Len(r.headers) <= MaxHeaders
      /\ Len(r.buf) \in Nat /\ r.remaining \in Nat
  BY DEF ChunkData, At, ParserOK, ParserSet
<1>2. avail \in 0 .. Len(r.buf) /\ avail <= r.remaining
  BY <1>1 DEF Least
<1>3. t = [took EXCEPT !.remaining = @ - avail]
  OBVIOUS
<1>4. r' = p
  BY <1>3 DEF ChunkData, Parse, Starve
<1> HIDE DEF avail
<1>5. /\ took \in ParserSet /\ took.state = "chunk_data" /\ took.headers = r.headers
      /\ took.remaining = r.remaining
  BY <1>1, <1>2, BodyTaken
<1> HIDE DEF took
<1>6. left \in Nat
  BY <1>1, <1>2, <1>5
<1> HIDE DEF left
<1>7. t \in ParserSet /\ t.state = "chunk_data" /\ t.headers = r.headers
  BY <1>5, <1>6 DEF ParserSet
<1> HIDE DEF t
<1>8. CASE t.remaining = 0 /\ Len(t.buf) >= 2
  <2>1. Consume(t.buf, 2) \in Seq(Tokens)
    BY <1>7, <1>8, PartsTyped DEF ParserSet
  <2>2. p = [t EXCEPT !.buf = Consume(t.buf, 2), !.state = "chunk_size"]
    BY <1>8 DEF ChunkEnd
  <2> QED BY <1>1, <1>4, <1>7, <2>1, <2>2 DEF ParserOK, ParserSet, ParseStates
<1>9. CASE ~(t.remaining = 0 /\ Len(t.buf) >= 2)
  BY <1>1, <1>4, <1>7, <1>9 DEF ChunkEnd, ParserOK
<1> QED BY <1>8, <1>9

LEMMA ChunkTrailerKeeps ==
  ASSUME ParserOK(r), ChunkTrailer
  PROVE  ParserOK(r')
<1> DEFINE pos   == FindCrlf(r.buf)
           after == [r EXCEPT !.buf = AfterLine(r.buf, pos)]
<1>1. r.state = "chunk_trailer" /\ r \in ParserSet /\ Len(r.headers) <= MaxHeaders
  BY DEF ChunkTrailer, At, ParserOK
<1>2. pos > 0 => /\ after \in ParserSet /\ after.headers = r.headers
                 /\ after.state = "chunk_trailer"
  BY <1>1, LineTaken DEF ParserSet
<1>3. \/ r' = r \/ r' = [r EXCEPT !.state = "done"]
      \/ pos > 0 /\ (r' = after \/ r' = [after EXCEPT !.state = "done"])
  BY DEF ChunkTrailer, Parse, Starve
<1> HIDE DEF pos, after
<1> QED BY <1>1, <1>2, <1>3 DEF ParserOK, ParserSet, ParseStates

LEMMA FeedKeeps ==
  ASSUME ParserOK(r), FeedNext
  PROVE  ParserOK(r') /\ feeding' \in {feeding, FALSE} /\ UNCHANGED <<net, asked, results>>
<1>1. ParserOK(r')
  BY StatusLineKeeps, HeaderLineKeeps, BodyIdentityKeeps, ChunkSizeKeeps,
     ChunkDataKeeps, ChunkTrailerKeeps DEF FeedNext
<1>2. feeding' \in {feeding, FALSE} /\ UNCHANGED <<net, asked, results>>
  BY DEF FeedNext, StatusLine, HeaderLine, BodyIdentity, ChunkSize, ChunkData,
         ChunkTrailer, Parse, Starve
<1> QED BY <1>1, <1>2

-----------------------------------------------------------------------------
(* The client *)

ResultSet ==
  [made : BOOLEAN,
   response : [ok : BOOLEAN, code : Nat, body : Seq(Tokens), headers : Seq(Tokens)],
   cut : BOOLEAN, lost : BOOLEAN]

ClientOK ==
  /\ feeding \in BOOLEAN /\ fin \in BOOLEAN /\ cut \in BOOLEAN /\ lost \in BOOLEAN
  /\ stream \in Seq(Tokens)
  /\ asked \in Seq(Messages) /\ Len(asked) <= Requests
  /\ results \in Seq(ResultSet) /\ Len(results) <= Len(asked)
  /\ Len(results) < Requests => Len(results) < Len(asked)
  /\ \A k \in 1 .. Len(results) : Distinct(results[k].response.headers)

ResponsesInv == ParserOK(r) /\ ClientOK

LEMMA ResultIs ==
  ASSUME ParserOK(r), ClientOK, NEW made \in BOOLEAN
  PROVE  Result(made) \in ResultSet /\ Distinct(Result(made).response.headers)
<1>1. /\ r.headers \in Seq(Tokens) /\ r.body \in Seq(Tokens) /\ r.code \in Nat
      /\ Len(r.headers) <= MaxHeaders
  BY DEF ParserOK, ParserSet
<1> DEFINE h  == HeadersFromHttp(r.headers)
           ok == r.code \in 200 .. 299
<1>2. Summary(h, r.headers, Len(r.headers))
  BY <1>1, HeadersSummarise
<1>3. Distinct(h)
  BY <1>2 DEF Summary
<1>4. h \in Seq(Tokens) /\ ok \in BOOLEAN
  BY <1>2 DEF Summary
<1>5. Result(made) =
        [made |-> made,
         response |-> [ok |-> ok, code |-> r.code, body |-> r.body, headers |-> h],
         cut |-> cut, lost |-> lost]
  BY DEF Result, ResponseNew
<1> HIDE DEF h, ok
<1>6. cut \in BOOLEAN /\ lost \in BOOLEAN
  BY DEF ClientOK
<1> QED BY <1>1, <1>3, <1>4, <1>5, <1>6 DEF ResultSet

\* A result more.
LEMMA ResultAdded ==
  ASSUME ParserOK(r), ClientOK, NEW made \in BOOLEAN,
         results' = Append(results, Result(made))
  PROVE  /\ results' \in Seq(ResultSet) /\ Len(results') = Len(results) + 1
         /\ \A k \in 1 .. Len(results') : Distinct(results'[k].response.headers)
<1> DEFINE x == Result(made)
<1>1. x \in ResultSet /\ Distinct(x.response.headers)
  BY ResultIs
<1>2. results \in Seq(ResultSet)
  BY DEF ClientOK
<1> HIDE DEF x
<1>3. results' = Append(results, x)
  BY DEF x
<1>4. /\ results' \in Seq(ResultSet) /\ Len(results') = Len(results) + 1
      /\ \A k \in 1 .. Len(results) : results'[k] = results[k]
      /\ results'[Len(results) + 1] = x
  BY <1>1, <1>2, <1>3, AppendProperties
<1>5. \A k \in 1 .. Len(results) : Distinct(results[k].response.headers)
  BY DEF ClientOK
<1>6. \A k \in 1 .. Len(results) + 1 : k \in 1 .. Len(results) \/ k = Len(results) + 1
  BY <1>2
<1> QED BY <1>1, <1>4, <1>5, <1>6

LEMMA MessageTyped ==
  ASSUME NEW m \in Messages
  PROVE  m.wire \in Seq(Tokens) /\ m.framed \in BOOLEAN
BY MessagesAssumption

\* The next request, on the same connection or another.
LEMMA Asks ==
  ASSUME ClientOK, NEW m \in Messages, KeepAlive(m) \/ Reconnect(m)
  PROVE  fin' \in BOOLEAN /\ cut' \in BOOLEAN /\ lost' \in BOOLEAN /\ stream' \in Seq(Tokens)
<1>1. m.wire \in Seq(Tokens) /\ m.framed \in BOOLEAN
  BY MessageTyped
<1>2. /\ fin \in BOOLEAN /\ lost \in BOOLEAN
      /\ stream \in Seq(Tokens) /\ stream \o m.wire \in Seq(Tokens)
  BY <1>1 DEF ClientOK
<1>3. fin' \in BOOLEAN /\ cut' \in BOOLEAN /\ lost' \in BOOLEAN
  <2>1. fin' \in {fin, FALSE} /\ cut' \in {fin, FALSE}
    BY DEF KeepAlive, Reconnect
  <2>2. lost' \in BOOLEAN
    BY DEF KeepAlive, Reconnect
  <2> QED BY <1>2, <2>1, <2>2
<1>4. stream' \in {stream, stream \o m.wire, m.wire}
  BY DEF KeepAlive, Reconnect
<1> QED BY <1>1, <1>2, <1>3, <1>4

LEMMA InitResponses == Init => ResponsesInv
<1> SUFFICES ASSUME NEW m \in Messages,
                    r = [state |-> "status_line", code |-> 0, headers |-> <<>>,
                         body |-> <<>>, length |-> 0, remaining |-> 0, buf |-> <<>>],
                    feeding = FALSE, stream = m.wire, fin = FALSE, cut = FALSE,
                    lost = ~m.framed, asked = <<m>>, results = <<>>
             PROVE  ResponsesInv
  BY DEF Init
<1>1. ParserOK(r)
  BY LimitsAssumption DEF ParserOK, ParserSet, ParseStates
<1>2. m.wire \in Seq(Tokens) /\ m.framed \in BOOLEAN
  BY MessageTyped
<1>3. asked \in Seq(Messages) /\ Len(asked) = 1
  OBVIOUS
<1>4. results \in Seq(ResultSet) /\ Len(results) = 0
  OBVIOUS
<1>5. lost \in BOOLEAN
  BY <1>2
<1>6. /\ Len(asked) <= Requests /\ Len(results) <= Len(asked)
      /\ Len(results) < Len(asked)
  BY <1>3, <1>4, LimitsAssumption
<1>7. \A k \in 1 .. Len(results) : Distinct(results[k].response.headers)
  BY <1>4
<1>8. ClientOK
  BY <1>2, <1>3, <1>4, <1>5, <1>6, <1>7 DEF ClientOK
<1> QED BY <1>1, <1>8 DEF ResponsesInv

\* A request is settled, whatever was made of its response.
LEMMA Settled ==
  ASSUME ResponsesInv, NEW made \in BOOLEAN,
         Len(results) < Len(asked),
         results' = Append(results, Result(made)),
         r' = ResponseReset(r), feeding' = FALSE,
         \/ /\ Len(asked) < Requests
            /\ \E m \in Messages :
                 asked' = Append(asked, m) /\ (KeepAlive(m) \/ Reconnect(m))
         \/ Len(asked) = Requests /\ UNCHANGED <<net, asked>>
  PROVE  ResponsesInv'
<1>1. ParserOK(r) /\ ClientOK
  BY DEF ResponsesInv
<1>2. ParserOK(r')
  BY ResetIsOK
<1>3. /\ results' \in Seq(ResultSet) /\ Len(results') = Len(results) + 1
      /\ \A k \in 1 .. Len(results') : Distinct(results'[k].response.headers)
  BY <1>1, ResultAdded
<1>4. Len(results) \in Nat /\ Len(asked) \in Nat /\ asked \in Seq(Messages)
      /\ Requests \in Nat /\ Len(asked) <= Requests
  BY <1>1, LimitsAssumption DEF ClientOK
<1>5. CASE Len(asked) = Requests /\ UNCHANGED <<net, asked>>
  <2>1. /\ stream' = stream /\ fin' = fin /\ cut' = cut /\ lost' = lost /\ asked' = asked
    BY <1>5 DEF net
  <2>2. /\ Len(asked') <= Requests /\ Len(results') <= Len(asked')
        /\ Len(results') < Requests => Len(results') < Len(asked')
    BY <1>3, <1>4, <1>5, <2>1
  <2>3. ClientOK'
    BY <1>1, <1>3, <2>1, <2>2 DEF ClientOK, Distinct
  <2> QED BY <1>2, <2>3 DEF ResponsesInv
<1>6. ASSUME NEW m \in Messages, Len(asked) < Requests,
             asked' = Append(asked, m), KeepAlive(m) \/ Reconnect(m)
      PROVE  ResponsesInv'
  <2>1. fin' \in BOOLEAN /\ cut' \in BOOLEAN /\ lost' \in BOOLEAN /\ stream' \in Seq(Tokens)
    BY <1>1, <1>6, Asks
  <2>2. asked' \in Seq(Messages) /\ Len(asked') = Len(asked) + 1
    BY <1>4, <1>6
  <2>3. /\ Len(asked') <= Requests /\ Len(results') <= Len(asked')
        /\ Len(results') < Requests => Len(results') < Len(asked')
    BY <1>3, <1>4, <1>6, <2>2
  <2> QED BY <1>2, <1>3, <2>1, <2>2, <2>3 DEF ResponsesInv, ClientOK, Distinct
<1> QED BY <1>5, <1>6

LEMMA NextResponses ==
  ASSUME ResponsesInv, [Next]_vars
  PROVE  ResponsesInv'
<1>1. ParserOK(r) /\ ClientOK
  BY DEF ResponsesInv
<1>2. ASSUME FeedNext PROVE ResponsesInv'
  <2>1. ParserOK(r') /\ feeding' \in {feeding, FALSE} /\ UNCHANGED <<net, asked, results>>
    BY <1>1, <1>2, FeedKeeps
  <2> QED BY <1>1, <2>1 DEF ResponsesInv, ClientOK, Distinct, net
<1>3. ASSUME NEW n \in 1 .. Len(stream), Read(n) PROVE ResponsesInv'
  <2> DEFINE buf == r.buf \o SubSeq(stream, 1, n)
  <2>1. r \in ParserSet /\ stream \in Seq(Tokens) /\ r.buf \in Seq(Tokens)
    BY <1>1 DEF ParserOK, ParserSet, ClientOK
  <2>2. SubSeq(stream, 1, n) \in Seq(Tokens) /\ Consume(stream, n) \in Seq(Tokens)
    BY <2>1, PartsTyped
  <2>3. buf \in Seq(Tokens)
    BY <2>1, <2>2, ConcatProperties
  <2>4. r' = [r EXCEPT !.buf = buf]
    BY <1>3 DEF Read
  <2> HIDE DEF buf
  <2>5. ParserOK(r')
    BY <1>1, <2>1, <2>3, <2>4 DEF ParserOK, ParserSet
  <2>6. /\ stream' = Consume(stream, n) /\ feeding' = TRUE
        /\ UNCHANGED <<fin, cut, lost, asked, results>>
    BY <1>3 DEF Read
  <2> QED BY <1>1, <2>2, <2>5, <2>6 DEF ResponsesInv, ClientOK, Distinct
<1>4. ASSUME ReadEof PROVE ResponsesInv'
  <2> DEFINE st == IF r.state = "body_identity" \/ r.body # <<>> THEN "done" ELSE "error"
  <2>1. st \in {"done", "error"} /\ r' = [r EXCEPT !.state = st]
    BY <1>4 DEF ReadEof
  <2> HIDE DEF st
  <2>2. ParserOK(r')
    BY <1>1, <2>1 DEF ParserOK, ParserSet, ParseStates
  <2>3. UNCHANGED <<feeding, net, asked, results>>
    BY <1>4 DEF ReadEof
  <2> QED BY <1>1, <2>2, <2>3 DEF ResponsesInv, ClientOK, Distinct, net
<1>5. ASSUME Complete PROVE ResponsesInv'
  <2>1. /\ Len(results) < Len(asked)
        /\ results' = Append(results, Result(TRUE))
        /\ r' = ResponseReset(r) /\ feeding' = FALSE
        /\ \/ /\ Len(asked) < Requests
              /\ \E m \in Messages :
                   asked' = Append(asked, m) /\ (KeepAlive(m) \/ Reconnect(m))
           \/ Len(asked) = Requests /\ UNCHANGED <<net, asked>>
    BY <1>5 DEF Complete
  <2> QED BY <2>1, Settled
<1>6. ASSUME Fail, Working PROVE ResponsesInv'
  <2>1. /\ results' = Append(results, Result(FALSE))
        /\ r' = ResponseReset(r) /\ feeding' = FALSE
        /\ \/ /\ Len(asked) < Requests
              /\ \E m \in Messages :
                   asked' = Append(asked, m) /\ (KeepAlive(m) \/ Reconnect(m))
           \/ Len(asked) = Requests /\ UNCHANGED <<net, asked>>
    BY <1>6 DEF Fail
  <2>2. Len(results) < Len(asked)
    BY <1>1, <1>6 DEF Working, ClientOK
  <2> QED BY <2>1, <2>2, Settled
<1>7. ASSUME NEW k \in 0 .. Len(stream), Close(k) PROVE ResponsesInv'
  <2>1. SubSeq(stream, 1, k) \in Seq(Tokens)
    BY <1>1, PartsTyped DEF ClientOK
  <2>2. /\ fin' = TRUE /\ stream' = SubSeq(stream, 1, k) /\ cut' \in BOOLEAN
        /\ UNCHANGED <<r, feeding, lost, asked, results>>
    BY <1>7 DEF Close
  <2> QED BY <1>1, <2>1, <2>2 DEF ResponsesInv, ClientOK, Distinct
<1>8. ASSUME UNCHANGED vars PROVE ResponsesInv'
  BY <1>1, <1>8 DEF ResponsesInv, ClientOK, Distinct, vars, net
<1> QED
  BY <1>2, <1>3, <1>4, <1>5, <1>6, <1>7, <1>8 DEF Next, ClientNext, ServerNext, Finished

LEMMA ResponsesTyped ==
  ASSUME ResponsesInv
  PROVE  TypeOK
<1>1. ParserOK(r) /\ ClientOK
  BY DEF ResponsesInv
<1>2. /\ DOMAIN r = {"state", "code", "headers", "body", "length", "remaining", "buf"}
      /\ r.state \in ParseStates
      /\ r.code \in Nat /\ r.length \in Nat /\ r.remaining \in Nat
      /\ r.headers \in Seq(Tokens) /\ Len(r.headers) <= MaxHeaders
      /\ r.body \in Seq(Tokens) /\ r.buf \in Seq(Tokens)
  BY <1>1 DEF ParserOK, ParserSet
<1>3. {feeding, fin, cut, lost} \subseteq BOOLEAN /\ stream \in Seq(Tokens)
        /\ asked \in Seq(Messages)
  BY <1>1 DEF ClientOK
<1>4. \A k \in DOMAIN results :
        /\ DOMAIN results[k] = {"made", "response", "cut", "lost"}
        /\ results[k].response.body \in Seq(Tokens)
        /\ results[k].response.headers \in Seq(Tokens)
  <2>1. \A k \in DOMAIN results : results[k] \in ResultSet
    BY <1>1 DEF ClientOK
  <2> QED BY <2>1 DEF ResultSet
<1> QED BY <1>2, <1>3, <1>4 DEF TypeOK

LEMMA ResponsesHold == Spec => []ResponsesInv
<1>1. ResponsesInv /\ [Next]_vars => ResponsesInv'
  BY NextResponses
<1> QED BY InitResponses, <1>1, PTL DEF Spec

-----------------------------------------------------------------------------
(* Sequences put together *)

\* The last of a sequence, but for the first k.
From(s, k) == SubSeq(s, k + 1, Len(s))

LEMMA FromIs ==
  ASSUME NEW T, NEW s \in Seq(T), NEW k \in 0 .. Len(s)
  PROVE  /\ From(s, k) \in Seq(T) /\ Len(From(s, k)) = Len(s) - k
         /\ \A i \in 1 .. Len(s) - k : From(s, k)[i] = s[k + i]
         /\ From(s, 0) = s /\ From(s, Len(s)) = <<>>
<1>1. Len(s) \in Nat
  BY LenProperties
<1>2. /\ From(s, k) \in Seq(T) /\ Len(From(s, k)) = Len(s) - k
      /\ \A i \in 1 .. Len(s) - k : From(s, k)[i] = s[k + i]
  BY <1>1 DEF From
<1>3. From(s, 0) = s
  BY SubSeqFull DEF From
<1>4. From(s, Len(s)) = <<>>
  BY <1>1, SubSeqEmpty DEF From
<1> QED BY <1>2, <1>3, <1>4

\* FlattenSeq is defined for every sequence, by the last of the sequences in it.
LEMMA FlatIsDefined ==
  ASSUME NEW T, NEW s \in Seq(Seq(T)), s # <<>>
  PROVE  \E g : /\ FlattenSeq(s) = g[Len(s)]
                /\ g[1] = s[1]
                /\ \A i \in 2 .. Len(s) : g[i] = g[i - 1] \o s[i]
                /\ \A i \in 1 .. Len(s) : g[i] \in Seq(T)
<1> DEFINE n == Len(s)
           After(f, i) == IF i = 1 THEN s[i] ELSE f[i - 1] \o s[i]
           Made(f, k)  == f = [i \in 1 .. k |-> After(f, i)]
           With        == {k \in 0 .. n : \E f : Made(f, k)}
<1>1. n \in Nat /\ n > 0 /\ \A i \in 1 .. n : s[i] \in Seq(T)
  BY LenProperties, ElementOfSeq, EmptySeq
<1> HIDE DEF n
<1>2. 0 \in With
  <2> DEFINE f == [i \in 1 .. 0 |-> 0]
  <2>1. f = [i \in 1 .. 0 |-> After(f, i)]
    OBVIOUS
  <2>2. Made(f, 0)
    BY <2>1, Zenon
  <2>3. 0 \in 0 .. n
    BY <1>1
  <2> HIDE DEF Made
  <2> QED BY <2>2, <2>3
<1>3. ASSUME NEW k \in With, k < n PROVE k + 1 \in With
  <2>1. k \in 0 .. n /\ k + 1 \in 0 .. n /\ k + 1 \in 1 .. k + 1 /\ k + 1 \notin 1 .. k
    BY <1>1, <1>3
  <2>2. PICK f : Made(f, k)
    BY <1>3
  <2> DEFINE g == [i \in 1 .. k + 1 |-> IF i = k + 1 THEN After(f, k + 1) ELSE f[i]]
  <2>3. \A i \in 1 .. k : i \in 1 .. k + 1 /\ i # k + 1 /\ (i # 1 => i - 1 \in 1 .. k)
    BY <2>1
  <2>4. \A i \in 1 .. k : g[i] = f[i]
    BY <2>3
  <2>5. \A i \in 1 .. k : f[i] = After(f, i)
    <3>1. f = [i \in 1 .. k |-> After(f, i)]
      BY <2>2
    <3> HIDE DEF After
    <3>2. \A i \in 1 .. k : [j \in 1 .. k |-> After(f, j)][i] = After(f, i)
      BY Zenon
    <3> QED BY <3>1, <3>2, Zenon
  <2>6. g[k + 1] = After(f, k + 1)
    BY <2>1
  <2>7. k + 1 # 1 => (k + 1) - 1 \in 1 .. k
    BY <2>1
  <2> HIDE DEF g
  <2>8. \A i \in 1 .. k + 1 : g[i] = After(g, i)
    <3>1. \A i \in 1 .. k : g[i] = After(g, i)
      BY <2>3, <2>4, <2>5
    <3>2. g[k + 1] = After(g, k + 1)
      BY <2>4, <2>6, <2>7
    <3>3. \A i \in 1 .. k + 1 : i \in 1 .. k \/ i = k + 1
      BY <2>1
    <3> HIDE DEF After
    <3> QED BY <3>1, <3>2, <3>3
  <2>9. g = [i \in 1 .. k + 1 |-> g[i]]
    BY DEF g
  <2>10. Made(g, k + 1)
    <3> HIDE DEF After
    <3> QED BY <2>8, <2>9
  <2> HIDE DEF Made
  <2> QED BY <2>1, <2>10
<1>4. n \in With
  <2>1. With \in SUBSET (0 .. n)
    OBVIOUS
  <2> HIDE DEF With
  <2> QED BY <1>1, <1>2, <1>3, <2>1, CountUp
<1> DEFINE flatten[i \in 1 .. Len(s)] == IF i = 1 THEN s[i] ELSE flatten[i - 1] \o s[i]
<1>5. Made(flatten, n)
  <2>1. \E f : Made(f, n)
    BY <1>4
  <2> QED BY <2>1, Zenon DEF n
<1>6. FlattenSeq(s) = flatten[Len(s)]
  <2>1. Len(s) # 0
    BY <1>1 DEF n
  <2> QED BY <2>1, Zenon DEF FlattenSeq
<1> HIDE DEF flatten
<1>7. \A i \in 1 .. n : flatten[i] = After(flatten, i)
  <2>1. flatten = [i \in 1 .. n |-> After(flatten, i)]
    BY <1>5
  <2> HIDE DEF After
  <2>2. \A i \in 1 .. n : [j \in 1 .. n |-> After(flatten, j)][i] = After(flatten, i)
    BY Zenon
  <2> QED BY <2>1, <2>2, Zenon
<1>8. flatten[1] = s[1] /\ \A i \in 2 .. n : flatten[i] = flatten[i - 1] \o s[i]
  <2>1. 1 \in 1 .. n
    BY <1>1
  <2>2. \A i \in 2 .. n : i \in 1 .. n /\ i # 1
    BY <1>1
  <2> QED BY <1>7, <2>1, <2>2
<1>9. \A i \in 1 .. n : flatten[i] \in Seq(T)
  <2> DEFINE Typed == {i \in 0 .. n : i = 0 \/ flatten[i] \in Seq(T)}
  <2>1. 0 \in Typed
    BY <1>1
  <2>2. ASSUME NEW k \in Typed, k < n PROVE k + 1 \in Typed
    <3>1. CASE k = 0
      BY <1>1, <1>8, <3>1
    <3>2. CASE k # 0
      <4>1. k + 1 \in 2 .. n /\ (k + 1) - 1 = k /\ k + 1 \in 1 .. n /\ k + 1 \in 0 .. n
        BY <1>1, <2>2, <3>2
      <4>2. flatten[k] \in Seq(T) /\ s[k + 1] \in Seq(T)
        BY <1>1, <2>2, <3>2, <4>1
      <4>3. flatten[k + 1] = flatten[k] \o s[k + 1]
        BY <1>8, <4>1
      <4>4. flatten[k] \o s[k + 1] \in Seq(T)
        BY <4>2, ConcatProperties
      <4> QED BY <4>1, <4>3, <4>4
    <3> QED BY <3>1, <3>2
  <2>3. \A i \in 1 .. n : i \in Typed
    <3> SUFFICES ASSUME NEW i \in 1 .. n PROVE i \in Typed
      OBVIOUS
    <3> DEFINE Upto == {k \in Typed : k <= i}
    <3>1. Upto \in SUBSET (0 .. i) /\ 0 \in Upto /\ i \in Nat
      BY <2>1
    <3>2. \A k \in Upto : k < i => k + 1 \in Upto
      <4>1. \A k \in Typed : k < i => k < n /\ k + 1 <= i
        BY <1>1
      <4> HIDE DEF Typed
      <4> QED BY <2>2, <4>1
    <3> HIDE DEF Upto
    <3>3. i \in Upto
      BY <3>1, <3>2, CountUp
    <3> QED BY <3>3 DEF Upto
  <2> QED BY <2>3
<1> QED BY <1>6, <1>8, <1>9 DEF n

LEMMA FlatTyped ==
  ASSUME NEW T, NEW s \in Seq(Seq(T))
  PROVE  FlattenSeq(s) \in Seq(T)
<1>1. CASE s = <<>>
  <2>1. FlattenSeq(s) = <<>>
    BY <1>1 DEF FlattenSeq
  <2> QED BY <2>1
<1>2. CASE s # <<>>
  <2>1. Len(s) \in 1 .. Len(s)
    BY <1>2, LenProperties, EmptySeq
  <2> QED BY <1>2, <2>1, FlatIsDefined
<1> QED BY <1>1, <1>2

\* The first sequence comes first; t has the others.
LEMMA FlatHead ==
  ASSUME NEW T, NEW s \in Seq(Seq(T)), s # <<>>,
         NEW t \in Seq(Seq(T)), Len(t) = Len(s) - 1,
         \A i \in 1 .. Len(t) : t[i] = s[i + 1]
  PROVE  FlattenSeq(s) = s[1] \o FlattenSeq(t)
<1>1. PICK g : /\ FlattenSeq(s) = g[Len(s)]
               /\ g[1] = s[1]
               /\ \A i \in 2 .. Len(s) : g[i] = g[i - 1] \o s[i]
               /\ \A i \in 1 .. Len(s) : g[i] \in Seq(T)
  BY FlatIsDefined
<1>2. Len(s) \in Nat /\ Len(s) > 0 /\ \A i \in 1 .. Len(s) : s[i] \in Seq(T)
  BY LenProperties, ElementOfSeq, EmptySeq
<1>3. s[1] \in Seq(T)
  BY <1>2
<1>4. CASE t = <<>>
  <2>1. Len(s) = 1 /\ FlattenSeq(t) = <<>>
    BY <1>2, <1>4 DEF FlattenSeq
  <2>2. s[1] \o <<>> = s[1]
    BY <1>3, ConcatEmptySeq
  <2> QED BY <1>1, <2>1, <2>2
<1>5. CASE t # <<>>
  <2> DEFINE n == Len(t)
  <2>1. PICK h : /\ FlattenSeq(t) = h[n]
                 /\ h[1] = t[1]
                 /\ \A i \in 2 .. n : h[i] = h[i - 1] \o t[i]
                 /\ \A i \in 1 .. n : h[i] \in Seq(T)
    BY <1>5, FlatIsDefined
  <2>2. n \in Nat /\ n > 0 /\ Len(s) = n + 1
    BY <1>2, <1>5, LenProperties, EmptySeq
  <2>3. \A i \in 1 .. n : t[i] = s[i + 1] /\ t[i] \in Seq(T) /\ i + 1 \in 2 .. Len(s)
    BY <1>2, <2>2
  <2> HIDE DEF n
  <2> DEFINE Agree(k) == g[k + 1] = s[1] \o h[k]
             Agrees   == {k \in 0 .. n : k = 0 \/ Agree(k)}
  <2> HIDE DEF Agree
  <2>4. 0 \in Agrees /\ Agrees \in SUBSET (0 .. n)
    BY <2>2
  <2>5. ASSUME NEW k \in Agrees, k < n PROVE k + 1 \in Agrees
    <3>1. k \in 0 .. n /\ k + 1 \in 1 .. n /\ k + 1 \in 0 .. n
      BY <2>2, <2>5
    <3>2. g[(k + 1) + 1] = g[k + 1] \o t[k + 1]
      <4>1. (k + 1) + 1 \in 2 .. Len(s) /\ ((k + 1) + 1) - 1 = k + 1
        BY <2>2, <3>1
      <4>2. t[k + 1] = s[(k + 1) + 1]
        BY <2>3, <3>1
      <4> QED BY <1>1, <4>1, <4>2
    <3>3. CASE k = 0
      <4>1. g[k + 1] = s[1] /\ h[k + 1] = t[k + 1]
        BY <1>1, <2>1, <3>3
      <4>2. g[(k + 1) + 1] = s[1] \o h[k + 1]
        BY <3>2, <4>1, Zenon
      <4>3. Agree(k + 1)
        BY <4>2 DEF Agree
      <4> QED BY <3>1, <4>3
    <3>4. CASE k # 0
      <4>1. g[k + 1] = s[1] \o h[k]
        BY <2>5, <3>4 DEF Agree
      <4>2. k + 1 \in 2 .. n /\ (k + 1) - 1 = k /\ k \in 1 .. n
        BY <2>2, <3>1, <3>4
      <4>3. h[k] \in Seq(T) /\ t[k + 1] \in Seq(T) /\ h[k + 1] = h[k] \o t[k + 1]
        BY <2>1, <2>3, <3>1, <4>2
      <4>4. (s[1] \o h[k]) \o t[k + 1] = s[1] \o (h[k] \o t[k + 1])
        <5>1. \A x, y, z \in Seq(T) : (x \o y) \o z = x \o (y \o z)
          BY ConcatAssociative
        <5> QED BY <1>3, <4>3, <5>1, ZenonT(30)
      <4>5. g[(k + 1) + 1] = s[1] \o h[k + 1]
        BY <3>2, <4>1, <4>3, <4>4, Zenon
      <4>6. Agree(k + 1)
        BY <4>5 DEF Agree
      <4> QED BY <3>1, <4>6
    <3> QED BY <3>3, <3>4
  <2>6. n \in Agrees
    <3> HIDE DEF Agrees
    <3> QED BY <2>2, <2>4, <2>5, CountUp
  <2>7. g[n + 1] = s[1] \o h[n]
    <3>1. Agree(n)
      BY <2>2, <2>6
    <3> QED BY <3>1 DEF Agree
  <2> QED BY <1>1, <2>1, <2>2, <2>7, Zenon
<1> QED BY <1>4, <1>5

LEMMA FlatFrom ==
  ASSUME NEW T, NEW s \in Seq(Seq(T)), NEW k \in 0 .. Len(s)
  PROVE  /\ FlattenSeq(From(s, k)) \in Seq(T)
         /\ k = Len(s) => FlattenSeq(From(s, k)) = <<>>
         /\ k < Len(s) => FlattenSeq(From(s, k)) = s[k + 1] \o FlattenSeq(From(s, k + 1))
<1> DEFINE u == From(s, k)
           t == From(s, k + 1)
<1>1. Len(s) \in Nat
  BY LenProperties
<1>2. /\ u \in Seq(Seq(T)) /\ Len(u) = Len(s) - k
      /\ \A i \in 1 .. Len(s) - k : u[i] = s[k + i]
  BY FromIs
<1>3. FlattenSeq(u) \in Seq(T)
  BY <1>2, FlatTyped
<1>4. k = Len(s) => FlattenSeq(u) = <<>>
  BY FromIs DEF FlattenSeq
<1>5. ASSUME k < Len(s) PROVE FlattenSeq(u) = s[k + 1] \o FlattenSeq(t)
  <2>1. /\ t \in Seq(Seq(T)) /\ Len(t) = Len(s) - (k + 1)
        /\ \A i \in 1 .. Len(s) - (k + 1) : t[i] = s[(k + 1) + i]
    <3>1. k + 1 \in 0 .. Len(s)
      BY <1>1, <1>5
    <3> QED BY <3>1, FromIs
  <2> HIDE DEF u, t
  <2>2. \A i \in 1 .. Len(t) : t[i] = u[i + 1]
    <3>1. \A i \in 1 .. Len(t) : i + 1 \in 1 .. Len(s) - k /\ k + (i + 1) = (k + 1) + i
      BY <1>1, <1>5, <2>1
    <3> QED BY <1>2, <2>1, <3>1
  <2>3. u # <<>> /\ Len(t) = Len(u) - 1 /\ u[1] = s[k + 1]
    <3>1. 1 \in 1 .. Len(s) - k /\ Len(u) # 0
      BY <1>1, <1>2, <1>5
    <3>2. u # <<>>
      BY <3>1
    <3> QED BY <1>1, <1>2, <1>5, <2>1, <3>1, <3>2
  <2>4. FlattenSeq(u) = u[1] \o FlattenSeq(t)
    BY <1>2, <2>1, <2>2, <2>3, FlatHead
  <2> QED BY <2>3, <2>4
<1> QED BY <1>3, <1>4, <1>5, Zenon

LEMMA EachFrom ==
  ASSUME NEW each \in Seq(Seq(Tokens)), NEW k \in 0 .. Len(each)
  PROVE  From(each, k) = [i \in 1 .. Len(each) - k |-> each[k + i]]
<1>1. /\ From(each, k) \in Seq(Seq(Tokens)) /\ Len(From(each, k)) = Len(each) - k
      /\ \A i \in 1 .. Len(each) - k : From(each, k)[i] = each[k + i]
  BY FromIs
<1>2. From(each, k) = [i \in 1 .. Len(each) - k |-> From(each, k)[i]]
  BY <1>1
<1> QED BY <1>1, <1>2

LEMMA LineIs ==
  /\ Eol \in Seq(Tokens) /\ Len(Eol) = 2 /\ Eol[1] = CR /\ Eol[2] = LF
  /\ \A t \in Tokens : /\ Line(t) \in Seq(Tokens) /\ Len(Line(t)) = 3
                       /\ Line(t)[1] = t /\ Line(t)[2] = CR /\ Line(t)[3] = LF
<1>1. CR \in Tokens /\ LF \in Tokens
  BY DEF CR, LF, Tokens, Kinds
<1>2. Eol \in Seq(Tokens) /\ Len(Eol) = 2 /\ Eol[1] = CR /\ Eol[2] = LF
  BY <1>1 DEF Eol
<1>3. ASSUME NEW t \in Tokens
      PROVE  /\ Line(t) \in Seq(Tokens) /\ Len(Line(t)) = 3
             /\ Line(t)[1] = t /\ Line(t)[2] = CR /\ Line(t)[3] = LF
  <2>1. <<t>> \in Seq(Tokens) /\ Len(<<t>>) = 1 /\ <<t>>[1] = t
    OBVIOUS
  <2> DEFINE s == <<t>>
  <2>2. /\ s \o Eol \in Seq(Tokens) /\ Len(s \o Eol) = Len(s) + Len(Eol)
        /\ \A i \in 1 .. Len(s) + Len(Eol) :
             (s \o Eol)[i] = IF i <= Len(s) THEN s[i] ELSE Eol[i - Len(s)]
    BY <1>2, <2>1, ConcatProperties
  <2> HIDE DEF s
  <2>3. (s \o Eol)[1] = s[1] /\ (s \o Eol)[2] = Eol[1] /\ (s \o Eol)[3] = Eol[2]
    BY <1>2, <2>1, <2>2 DEF s
  <2> QED BY <1>2, <2>1, <2>2, <2>3 DEF s, Line
<1> QED BY <1>2, <1>3

\* One more line.
LEMMA LinesFrom ==
  ASSUME NEW texts \in Seq(Tokens), NEW k \in 0 .. Len(texts)
  PROVE  /\ Lines(From(texts, k)) \in Seq(Tokens)
         /\ k = Len(texts) => Lines(From(texts, k)) = <<>>
         /\ k < Len(texts) =>
              Lines(From(texts, k)) = Line(texts[k + 1]) \o Lines(From(texts, k + 1))
<1> DEFINE each == [i \in DOMAIN texts |-> Line(texts[i])]
           Some(j) == [i \in DOMAIN From(texts, j) |-> Line(From(texts, j)[i])]
<1>1. Len(texts) \in Nat /\ DOMAIN texts = 1 .. Len(texts)
        /\ \A i \in 1 .. Len(texts) : texts[i] \in Tokens
  BY LenProperties, ElementOfSeq
<1>2. \A t \in Tokens : Line(t) \in Seq(Tokens)
  BY LineIs
<1>3. each \in Seq(Seq(Tokens)) /\ Len(each) = Len(texts)
        /\ \A i \in 1 .. Len(texts) : each[i] = Line(texts[i])
  BY <1>1, <1>2, IsASeq
<1> HIDE DEF each
<1>4. ASSUME NEW j \in 0 .. Len(texts)
      PROVE  Lines(From(texts, j)) = FlattenSeq(From(each, j))
  <2>1. /\ From(texts, j) \in Seq(Tokens) /\ Len(From(texts, j)) = Len(texts) - j
        /\ \A i \in 1 .. Len(texts) - j : From(texts, j)[i] = texts[j + i]
    BY FromIs
  <2>2. \A i \in 1 .. Len(texts) - j : j + i \in 1 .. Len(texts)
    BY <1>1
  <2>3. DOMAIN From(texts, j) = 1 .. Len(texts) - j
    BY <2>1
  <2>4. Some(j) = [i \in 1 .. Len(texts) - j |-> each[j + i]]
    BY <1>3, <2>1, <2>2, <2>3
  <2>5. Lines(From(texts, j)) = FlattenSeq(Some(j))
    BY DEF Lines
  <2> HIDE DEF Some
  <2> QED BY <1>3, <2>4, <2>5, EachFrom
<1>5. /\ FlattenSeq(From(each, k)) \in Seq(Tokens)
      /\ k = Len(texts) => FlattenSeq(From(each, k)) = <<>>
      /\ k < Len(texts) =>
           FlattenSeq(From(each, k)) = each[k + 1] \o FlattenSeq(From(each, k + 1))
  BY <1>3, FlatFrom
<1>6. k < Len(texts) => k + 1 \in 0 .. Len(texts) /\ each[k + 1] = Line(texts[k + 1])
  BY <1>1, <1>3
<1> QED BY <1>4, <1>5, <1>6, Zenon

\* One more header, if the line is one.
LEMMA FieldsFrom ==
  ASSUME NEW lines \in Seq(Tokens), NEW k \in 0 .. Len(lines)
  PROVE  /\ FieldsIn(From(lines, k)) \in Seq(Tokens)
         /\ k = Len(lines) => FieldsIn(From(lines, k)) = <<>>
         /\ k < Len(lines) /\ lines[k + 1] \in Fields =>
              FieldsIn(From(lines, k)) = <<lines[k + 1]>> \o FieldsIn(From(lines, k + 1))
         /\ k < Len(lines) /\ lines[k + 1] \notin Fields =>
              FieldsIn(From(lines, k)) = FieldsIn(From(lines, k + 1))
<1> DEFINE Field(t) == IF t \in Fields THEN <<t>> ELSE <<>>
           each == [i \in DOMAIN lines |-> Field(lines[i])]
           Some(j) == [i \in DOMAIN From(lines, j) |-> Field(From(lines, j)[i])]
<1>1. Len(lines) \in Nat /\ DOMAIN lines = 1 .. Len(lines)
        /\ \A i \in 1 .. Len(lines) : lines[i] \in Tokens
  BY LenProperties, ElementOfSeq
<1>2. \A t \in Tokens : Field(t) \in Seq(Tokens)
  OBVIOUS
<1> HIDE DEF Field
<1>3. each \in Seq(Seq(Tokens)) /\ Len(each) = Len(lines)
        /\ \A i \in 1 .. Len(lines) : each[i] = Field(lines[i])
  BY <1>1, <1>2, IsASeq
<1> HIDE DEF each
<1>4. ASSUME NEW j \in 0 .. Len(lines)
      PROVE  FieldsIn(From(lines, j)) = FlattenSeq(From(each, j))
  <2>1. /\ From(lines, j) \in Seq(Tokens) /\ Len(From(lines, j)) = Len(lines) - j
        /\ \A i \in 1 .. Len(lines) - j : From(lines, j)[i] = lines[j + i]
    BY FromIs
  <2>2. \A i \in 1 .. Len(lines) - j : j + i \in 1 .. Len(lines)
    BY <1>1
  <2>3. DOMAIN From(lines, j) = 1 .. Len(lines) - j
    BY <2>1
  <2>4. Some(j) = [i \in 1 .. Len(lines) - j |-> each[j + i]]
    BY <1>3, <2>1, <2>2, <2>3
  <2>5. FieldsIn(From(lines, j)) = FlattenSeq(Some(j))
    BY DEF FieldsIn, Field
  <2> HIDE DEF Some
  <2> QED BY <1>3, <2>4, <2>5, EachFrom
<1>5. /\ FlattenSeq(From(each, k)) \in Seq(Tokens)
      /\ k = Len(lines) => FlattenSeq(From(each, k)) = <<>>
      /\ k < Len(lines) =>
           FlattenSeq(From(each, k)) = each[k + 1] \o FlattenSeq(From(each, k + 1))
  BY <1>3, FlatFrom
<1>6. k < Len(lines) => k + 1 \in 0 .. Len(lines) /\ each[k + 1] = Field(lines[k + 1])
  BY <1>1, <1>3
<1>7. ASSUME k < Len(lines), lines[k + 1] \notin Fields
      PROVE  FieldsIn(From(lines, k)) = FieldsIn(From(lines, k + 1))
  <2>1. FlattenSeq(From(each, k + 1)) \in Seq(Tokens)
    BY <1>3, <1>6, <1>7, FlatFrom
  <2>2. <<>> \o FlattenSeq(From(each, k + 1)) = FlattenSeq(From(each, k + 1))
    BY <2>1, ConcatEmptySeq
  <2>3. each[k + 1] = <<>>
    BY <1>6, <1>7 DEF Field
  <2> QED BY <1>4, <1>5, <1>6, <1>7, <2>2, <2>3, Zenon
<1>8. ASSUME k < Len(lines), lines[k + 1] \in Fields
      PROVE  FieldsIn(From(lines, k)) = <<lines[k + 1]>> \o FieldsIn(From(lines, k + 1))
  <2>1. each[k + 1] = <<lines[k + 1]>>
    BY <1>6, <1>8 DEF Field
  <2> QED BY <1>4, <1>5, <1>6, <1>8, <2>1, Zenon
<1> QED BY <1>4, <1>5, <1>7, <1>8, Zenon

LEMMA ChunkTyped ==
  ASSUME NEW data \in Seq(Tokens)
  PROVE  /\ <<"size", Len(data)>> \in Tokens
         /\ Chunk(data) = Line(<<"size", Len(data)>>) \o (data \o Eol)
         /\ Chunk(data) \in Seq(Tokens)
<1>1. <<"size", Len(data)>> \in Tokens
  BY LenProperties DEF Tokens, Kinds
<1>2. Line(<<"size", Len(data)>>) \in Seq(Tokens) /\ Eol \in Seq(Tokens)
  BY <1>1, LineIs
<1>3. Line(<<"size", Len(data)>>) \o data \in Seq(Tokens)
  BY <1>2, ConcatProperties
<1>4. Chunk(data) \in Seq(Tokens)
  BY <1>2, <1>3, ConcatProperties DEF Chunk
<1>5. \A s, t, u \in Seq(Tokens) : (s \o t) \o u = s \o (t \o u)
  BY ConcatAssociative
<1>6. Chunk(data) = Line(<<"size", Len(data)>>) \o (data \o Eol)
  BY <1>2, <1>5, Zenon DEF Chunk
<1> QED BY <1>1, <1>4, <1>6

\* One more chunk.
LEMMA ChunksFrom ==
  ASSUME NEW list \in Seq(Seq(Tokens)), NEW k \in 0 .. Len(list)
  PROVE  /\ Chunks(From(list, k)) \in Seq(Tokens)
         /\ k = Len(list) => Chunks(From(list, k)) = <<>>
         /\ k < Len(list) =>
              Chunks(From(list, k)) = Chunk(list[k + 1]) \o Chunks(From(list, k + 1))
<1> DEFINE each == [i \in DOMAIN list |-> Chunk(list[i])]
           Some(j) == [i \in DOMAIN From(list, j) |-> Chunk(From(list, j)[i])]
<1>1. Len(list) \in Nat /\ DOMAIN list = 1 .. Len(list)
        /\ \A i \in 1 .. Len(list) : list[i] \in Seq(Tokens)
  BY LenProperties, ElementOfSeq
<1>2. \A data \in Seq(Tokens) : Chunk(data) \in Seq(Tokens)
  BY ChunkTyped
<1>3. each \in Seq(Seq(Tokens)) /\ Len(each) = Len(list)
        /\ \A i \in 1 .. Len(list) : each[i] = Chunk(list[i])
  BY <1>1, <1>2, IsASeq
<1> HIDE DEF each
<1>4. ASSUME NEW j \in 0 .. Len(list)
      PROVE  Chunks(From(list, j)) = FlattenSeq(From(each, j))
  <2>1. /\ From(list, j) \in Seq(Seq(Tokens)) /\ Len(From(list, j)) = Len(list) - j
        /\ \A i \in 1 .. Len(list) - j : From(list, j)[i] = list[j + i]
    BY FromIs
  <2>2. \A i \in 1 .. Len(list) - j : j + i \in 1 .. Len(list)
    BY <1>1
  <2>3. DOMAIN From(list, j) = 1 .. Len(list) - j
    BY <2>1
  <2>4. Some(j) = [i \in 1 .. Len(list) - j |-> each[j + i]]
    BY <1>3, <2>1, <2>2, <2>3
  <2>5. Chunks(From(list, j)) = FlattenSeq(Some(j))
    BY DEF Chunks
  <2> HIDE DEF Some
  <2>6. From(each, j) = [i \in 1 .. Len(list) - j |-> each[j + i]]
    BY <1>3, EachFrom
  <2> QED BY <2>4, <2>5, <2>6
<1>5. /\ FlattenSeq(From(each, k)) \in Seq(Tokens)
      /\ k = Len(list) => FlattenSeq(From(each, k)) = <<>>
      /\ k < Len(list) =>
           FlattenSeq(From(each, k)) = each[k + 1] \o FlattenSeq(From(each, k + 1))
  BY <1>3, FlatFrom
<1>6. k < Len(list) => k + 1 \in 0 .. Len(list) /\ each[k + 1] = Chunk(list[k + 1])
  BY <1>1, <1>3
<1> QED BY <1>4, <1>5, <1>6, Zenon

-----------------------------------------------------------------------------
(* What is ahead of the parser *)

\* What is in the buffer and what is on its way are the beginning of full, and
\* all of it unless the server has cut it short.
Ahead(buf, sent, short, full) ==
  \E gone \in Seq(Tokens) :
    /\ buf \o (sent \o gone) = full
    /\ gone # <<>> => short

LEMMA Associative ==
  \A x, y, z \in Seq(Tokens) : (x \o y) \o z = x \o (y \o z)
BY ConcatAssociative

\* The rest of it begins with head, and all of head is in the buffer.
LEMMA HeadTaken ==
  ASSUME NEW buf \in Seq(Tokens), NEW sent \in Seq(Tokens), NEW short,
         NEW head \in Seq(Tokens), NEW more \in Seq(Tokens),
         Ahead(buf, sent, short, head \o more), Len(head) <= Len(buf)
  PROVE  /\ SubSeq(buf, 1, Len(head)) = head
         /\ Consume(buf, Len(head)) \in Seq(Tokens)
         /\ Ahead(Consume(buf, Len(head)), sent, short, more)
<1>a. PICK gone \in Seq(Tokens) :
        buf \o (sent \o gone) = head \o more /\ (gone # <<>> => short)
  BY DEF Ahead
<1>b. PICK rest \in Seq(Tokens) : rest = sent \o gone
  BY ConcatProperties
<1>c. buf \o rest = head \o more
  BY <1>a, <1>b, Zenon
<1> DEFINE n == Len(head)
<1>1. n \in 0 .. Len(buf) /\ Len(buf) \in Nat /\ Len(rest) \in Nat /\ Len(more) \in Nat
  BY LenProperties
<1>2. /\ buf \o rest \in Seq(Tokens) /\ Len(buf \o rest) = Len(buf) + Len(rest)
      /\ \A i \in 1 .. Len(buf) + Len(rest) :
           (buf \o rest)[i] = IF i <= Len(buf) THEN buf[i] ELSE rest[i - Len(buf)]
  BY ConcatProperties
<1>3. /\ Len(buf \o rest) = n + Len(more)
      /\ \A i \in 1 .. n + Len(more) :
           (buf \o rest)[i] = IF i <= n THEN head[i] ELSE more[i - n]
  BY <1>c, ConcatProperties
<1>4. /\ SubSeq(buf, 1, n) \in Seq(Tokens) /\ Len(SubSeq(buf, 1, n)) = n
      /\ Consume(buf, n) \in Seq(Tokens) /\ Len(Consume(buf, n)) = Len(buf) - n
      /\ \A i \in 1 .. n : SubSeq(buf, 1, n)[i] = buf[i]
      /\ \A i \in 1 .. Len(buf) - n : Consume(buf, n)[i] = buf[n + i]
  BY <1>1 DEF Consume
<1> HIDE DEF n
<1>5. \A i \in 1 .. n : buf[i] = head[i]
  <2> SUFFICES ASSUME NEW i \in 1 .. n PROVE buf[i] = head[i]
    OBVIOUS
  <2>1. i \in 1 .. Len(buf) + Len(rest) /\ i <= Len(buf) /\ i \in 1 .. n + Len(more) /\ i <= n
    BY <1>1
  <2>2. (buf \o rest)[i] = buf[i]
    BY <1>2, <2>1
  <2>3. (buf \o rest)[i] = head[i]
    BY <1>3, <2>1
  <2> QED BY <2>2, <2>3
<1>6. SubSeq(buf, 1, n) = head
  BY <1>4, <1>5, SeqEqual DEF n
<1>7. /\ Consume(buf, n) \o rest \in Seq(Tokens)
      /\ Len(Consume(buf, n) \o rest) = (Len(buf) - n) + Len(rest)
      /\ \A i \in 1 .. (Len(buf) - n) + Len(rest) :
           (Consume(buf, n) \o rest)[i] =
             IF i <= Len(buf) - n THEN Consume(buf, n)[i] ELSE rest[i - (Len(buf) - n)]
  <2>1. PICK left \in Seq(Tokens) : left = Consume(buf, n)
    BY <1>4
  <2>2. /\ left \o rest \in Seq(Tokens)
        /\ Len(left \o rest) = Len(left) + Len(rest)
        /\ \A i \in 1 .. Len(left) + Len(rest) :
             (left \o rest)[i] = IF i <= Len(left) THEN left[i] ELSE rest[i - Len(left)]
    BY ConcatProperties
  <2>3. Len(left) = Len(buf) - n
    BY <1>4, <2>1
  <2> QED BY <2>1, <2>2, <2>3, Zenon
<1>8. Len(more) = (Len(buf) - n) + Len(rest)
  BY <1>1, <1>2, <1>3
<1>9. ASSUME NEW i \in 1 .. Len(more)
      PROVE  (Consume(buf, n) \o rest)[i] = more[i]
  <2>1. (buf \o rest)[n + i] = more[i]
    <3>1. n + i \in 1 .. n + Len(more) /\ ~(n + i <= n) /\ (n + i) - n = i
      BY <1>1
    <3> QED BY <1>3, <3>1
  <2>2. n + i \in 1 .. Len(buf) + Len(rest)
    BY <1>1, <1>8
  <2>3. CASE i <= Len(buf) - n
    <3>1. i \in 1 .. Len(buf) - n /\ n + i <= Len(buf)
      BY <1>1, <2>3
    <3> QED BY <1>2, <1>4, <1>7, <1>8, <2>1, <2>2, <2>3, <3>1
  <2>4. CASE ~(i <= Len(buf) - n)
    <3>1. ~(n + i <= Len(buf)) /\ (n + i) - Len(buf) = i - (Len(buf) - n)
      BY <1>1, <2>4
    <3> QED BY <1>2, <1>7, <1>8, <2>1, <2>2, <2>4, <3>1
  <2> QED BY <2>3, <2>4
<1>10. Consume(buf, n) \o rest = more
  BY <1>7, <1>8, <1>9, SeqEqual
<1>11. Ahead(Consume(buf, n), sent, short, more)
  BY <1>a, <1>b, <1>10, Zenon DEF Ahead
<1> QED BY <1>4, <1>6, <1>11 DEF n

\* It begins with data, and part of that is in the buffer.
LEMMA PartTaken ==
  ASSUME NEW buf \in Seq(Tokens), NEW sent \in Seq(Tokens), NEW short,
         NEW data \in Seq(Tokens), NEW more \in Seq(Tokens),
         Ahead(buf, sent, short, data \o more),
         NEW n, n = Least(Len(buf), Len(data))
  PROVE  /\ n \in 0 .. Len(data) /\ n \in 0 .. Len(buf)
         /\ From(data, n) \in Seq(Tokens) /\ Len(From(data, n)) = Len(data) - n
         /\ SubSeq(buf, 1, n) \in Seq(Tokens) /\ Consume(buf, n) \in Seq(Tokens)
         /\ SubSeq(buf, 1, n) \o From(data, n) = data
         /\ Ahead(Consume(buf, n), sent, short, From(data, n) \o more)
<1>1. n \in 0 .. Len(data) /\ n \in 0 .. Len(buf) /\ Len(data) \in Nat
  BY LenProperties DEF Least
<1>2. From(data, n) \in Seq(Tokens) /\ Len(From(data, n)) = Len(data) - n
  BY <1>1, FromIs
<1> DEFINE head == SubSeq(data, 1, n)
<1>3. head \in Seq(Tokens) /\ Len(head) = n
  BY <1>1
<1>4. head \o From(data, n) = data
  <2>1. head \o From(data, n) = SubSeq(data, 1, Len(data))
    <3>1. 1 \in 1 .. Len(data) + 1 /\ n \in 1 - 1 .. Len(data) /\ Len(data) \in n .. Len(data)
      BY <1>1
    <3> QED BY <3>1, ConcatAdjacentSubSeq DEF From
  <2> QED BY <2>1, SubSeqFull
<1>5. data \o more = head \o (From(data, n) \o more)
  <2> HIDE DEF head
  <2>2. (head \o From(data, n)) \o more = head \o (From(data, n) \o more)
    BY <1>2, <1>3, Associative, ZenonT(30)
  <2> QED BY <1>4, <2>2
<1> HIDE DEF head
<1>6. From(data, n) \o more \in Seq(Tokens)
  BY <1>2, ConcatProperties
<1>7. /\ SubSeq(buf, 1, n) = head /\ Consume(buf, n) \in Seq(Tokens)
      /\ Ahead(Consume(buf, n), sent, short, From(data, n) \o more)
  <2>1. Ahead(buf, sent, short, head \o (From(data, n) \o more))
    BY <1>5, Zenon
  <2>2. Len(head) <= Len(buf)
    BY <1>1, <1>3
  <2> QED BY <1>3, <1>6, <2>1, <2>2, HeadTaken
<1> QED BY <1>1, <1>2, <1>3, <1>4, <1>7

\* The first CRLF, if there is one.
LEMMA CrlfIs ==
  ASSUME NEW buf \in Seq(Tokens)
  PROVE  LET pos     == FindCrlf(buf)
             Here(i) == i \in 1 .. Len(buf) - 1 /\ buf[i] = CR /\ buf[i + 1] = LF
         IN  /\ pos \in Nat
             /\ pos = 0 => \A i : ~Here(i)
             /\ pos # 0 => Here(pos) /\ \A i : Here(i) => pos <= i
<1> DEFINE Here(i) == i \in 1 .. Len(buf) - 1 /\ buf[i] = CR /\ buf[i + 1] = LF
           Found == {i \in 1 .. Len(buf) - 1 : buf[i] = CR /\ buf[i + 1] = LF}
<1>1. Found \in SUBSET Nat
  OBVIOUS
<1>2. FindCrlf(buf) = IF Found = {} THEN 0 ELSE CHOOSE i \in Found : \A j \in Found : i <= j
  BY DEF FindCrlf
<1>3. \A i : i \in Found <=> Here(i)
  OBVIOUS
<1>4. \A i \in Found : i # 0
  OBVIOUS
<1> HIDE DEF Found, Here
<1>5. CASE Found = {}
  <2>1. FindCrlf(buf) = 0 /\ \A i : ~Here(i)
    BY <1>2, <1>3, <1>5
  <2> QED BY <2>1 DEF Here
<1>6. CASE Found # {}
  <2>1. FindCrlf(buf) \in Found /\ \A j \in Found : FindCrlf(buf) <= j
    BY <1>1, <1>2, <1>6, LeastOf
  <2>2. FindCrlf(buf) # 0 /\ FindCrlf(buf) \in Nat /\ Here(FindCrlf(buf))
        /\ \A i : Here(i) => FindCrlf(buf) <= i
    BY <1>1, <1>3, <1>4, <2>1
  <2> QED BY <2>2 DEF Here
<1> QED BY <1>5, <1>6

\* It begins with the line of a text.
LEMMA LineRead ==
  ASSUME NEW buf \in Seq(Tokens), NEW sent \in Seq(Tokens), NEW short,
         NEW t \in Texts, NEW more \in Seq(Tokens),
         Ahead(buf, sent, short, Line(t) \o more)
  PROVE  \/ FindCrlf(buf) = 0 /\ Len(buf) < 3
         \/ /\ FindCrlf(buf) = 2 /\ LineOf(buf, 2) = <<t>>
            /\ AfterLine(buf, 2) \in Seq(Tokens)
            /\ Ahead(AfterLine(buf, 2), sent, short, more)
<1>1. t \in Tokens /\ t # CR /\ t # LF /\ CR # LF
  BY DEF Texts, Tokens, Kinds, CR, LF
<1>2. /\ Line(t) \in Seq(Tokens) /\ Len(Line(t)) = 3
      /\ Line(t)[1] = t /\ Line(t)[2] = CR /\ Line(t)[3] = LF
  BY <1>1, LineIs
<1>3. PICK gone \in Seq(Tokens) : buf \o (sent \o gone) = Line(t) \o more
  BY DEF Ahead
<1>4. \A i \in 1 .. 3 : i <= Len(buf) => buf[i] = Line(t)[i]
  <2>1. PICK rest \in Seq(Tokens) : rest = sent \o gone
    BY ConcatProperties
  <2>2. buf \o rest = Line(t) \o more
    BY <1>3, <2>1, Zenon
  <2>3. Len(buf) \in Nat /\ Len(rest) \in Nat /\ Len(more) \in Nat
    BY LenProperties
  <2> SUFFICES ASSUME NEW i \in 1 .. 3, i <= Len(buf) PROVE buf[i] = Line(t)[i]
    OBVIOUS
  <2>4. i \in 1 .. Len(buf) + Len(rest) /\ i \in 1 .. Len(Line(t)) + Len(more) /\ i <= Len(Line(t))
    BY <1>2, <2>3
  <2>5. (buf \o rest)[i] = buf[i]
    BY <2>4, ConcatProperties
  <2>6. (Line(t) \o more)[i] = Line(t)[i]
    BY <1>2, <2>4, ConcatProperties
  <2> QED BY <2>2, <2>5, <2>6
<1> DEFINE Here(i) == i \in 1 .. Len(buf) - 1 /\ buf[i] = CR /\ buf[i + 1] = LF
<1>5. /\ FindCrlf(buf) \in Nat
      /\ FindCrlf(buf) = 0 => \A i : ~Here(i)
      /\ FindCrlf(buf) # 0 => Here(FindCrlf(buf)) /\ \A i : Here(i) => FindCrlf(buf) <= i
  BY CrlfIs
<1>6. ~Here(1)
  BY <1>1, <1>2, <1>4, LenProperties
<1>7. CASE Len(buf) < 3
  <2>1. \A i : Here(i) => i = 1
    BY <1>7, LenProperties
  <2> HIDE DEF Here
  <2> QED BY <1>5, <1>6, <1>7, <2>1
<1>8. CASE ~(Len(buf) < 3)
  <2>1. Here(2)
    BY <1>2, <1>4, <1>8, LenProperties
  <2>2. \A i : Here(i) => i \in Nat /\ i > 0
    BY LenProperties
  <2> HIDE DEF Here
  <2>3. FindCrlf(buf) = 2
    BY <1>5, <1>6, <2>1, <2>2
  <2>4. LineOf(buf, 2) = <<t>>
    <3>1. buf[1] = t
      BY <1>2, <1>4, <1>8, LenProperties
    <3>2. SubSeq(buf, 1, 1) = <<buf[1]>> \o SubSeq(buf, 1 + 1, 1)
      <4>1. 1 \in 1 .. Len(buf) /\ 1 \in 1 .. 1
        BY <1>8, LenProperties
      <4> QED BY <4>1, SubSeqRecursiveFirst
    <3>3. SubSeq(buf, 1 + 1, 1) = <<>>
      BY SubSeqEmpty
    <3>4. <<t>> \o <<>> = <<t>>
      <4>1. <<t>> \in Seq(Tokens)
        BY <1>1
      <4> QED BY <4>1, ConcatEmptySeq
    <3>5. LineOf(buf, 2) = SubSeq(buf, 1, 1)
      BY DEF LineOf
    <3> QED BY <3>1, <3>2, <3>3, <3>4, <3>5, Zenon
  <2>5. Consume(buf, 3) \in Seq(Tokens) /\ Ahead(Consume(buf, 3), sent, short, more)
    <3>1. Len(Line(t)) <= Len(buf)
      BY <1>2, <1>8, LenProperties
    <3>2. /\ Consume(buf, Len(Line(t))) \in Seq(Tokens)
          /\ Ahead(Consume(buf, Len(Line(t))), sent, short, more)
      BY <1>2, <3>1, HeadTaken
    <3> QED BY <1>2, <3>2
  <2>6. AfterLine(buf, 2) = Consume(buf, 3)
    BY DEF AfterLine
  <2> QED BY <2>3, <2>4, <2>5, <2>6
<1> QED BY <1>7, <1>8

\* It begins with the empty line.
LEMMA EmptyRead ==
  ASSUME NEW buf \in Seq(Tokens), NEW sent \in Seq(Tokens), NEW short,
         NEW more \in Seq(Tokens), Ahead(buf, sent, short, Eol \o more)
  PROVE  \/ FindCrlf(buf) = 0 /\ Len(buf) < 2
         \/ /\ FindCrlf(buf) = 1
            /\ AfterLine(buf, 1) \in Seq(Tokens)
            /\ Ahead(AfterLine(buf, 1), sent, short, more)
<1>1. Eol \in Seq(Tokens) /\ Len(Eol) = 2 /\ Eol[1] = CR /\ Eol[2] = LF
  BY LineIs
<1>2. Len(buf) \in Nat
  BY LenProperties
<1> DEFINE Here(i) == i \in 1 .. Len(buf) - 1 /\ buf[i] = CR /\ buf[i + 1] = LF
<1>3. /\ FindCrlf(buf) \in Nat
      /\ FindCrlf(buf) = 0 => \A i : ~Here(i)
      /\ FindCrlf(buf) # 0 => Here(FindCrlf(buf)) /\ \A i : Here(i) => FindCrlf(buf) <= i
  BY CrlfIs
<1>4. CASE Len(buf) < 2
  <2>1. \A i : ~Here(i)
    BY <1>2, <1>4
  <2> HIDE DEF Here
  <2> QED BY <1>3, <1>4, <2>1
<1>5. CASE ~(Len(buf) < 2)
  <2>1. Len(Eol) <= Len(buf)
    BY <1>1, <1>2, <1>5
  <2>2. /\ SubSeq(buf, 1, Len(Eol)) = Eol /\ Consume(buf, Len(Eol)) \in Seq(Tokens)
        /\ Ahead(Consume(buf, Len(Eol)), sent, short, more)
    BY <1>1, <2>1, HeadTaken
  <2>3. SubSeq(buf, 1, 2)[1] = buf[1] /\ SubSeq(buf, 1, 2)[2] = buf[2]
    BY <1>2, <1>5
  <2>4. Here(1)
    BY <1>1, <1>2, <1>5, <2>2, <2>3
  <2>5. \A i : Here(i) => i \in Nat /\ i > 0
    BY <1>2
  <2> HIDE DEF Here
  <2>6. FindCrlf(buf) = 1
    BY <1>3, <2>4, <2>5
  <2>7. AfterLine(buf, 1) = Consume(buf, 2)
    BY DEF AfterLine
  <2> QED BY <1>1, <2>2, <2>6, <2>7
<1> QED BY <1>4, <1>5

\* A segment arrives.
LEMMA AheadRead ==
  ASSUME NEW buf \in Seq(Tokens), NEW sent \in Seq(Tokens), NEW short, NEW full,
         Ahead(buf, sent, short, full), NEW n \in 1 .. Len(sent)
  PROVE  Ahead(buf \o SubSeq(sent, 1, n), Consume(sent, n), short, full)
<1>1. PICK gone \in Seq(Tokens) :
        buf \o (sent \o gone) = full /\ (gone # <<>> => short)
  BY DEF Ahead
<1> DEFINE s == SubSeq(sent, 1, n)
           t == Consume(sent, n)
<1>2. s \in Seq(Tokens) /\ t \in Seq(Tokens)
  BY PartsTyped
<1>3. s \o t = sent
  <2>1. 1 \in 1 .. Len(sent) + 1 /\ n \in 1 - 1 .. Len(sent) /\ Len(sent) \in n .. Len(sent)
    BY LenProperties
  <2>2. s \o t = SubSeq(sent, 1, Len(sent))
    BY <2>1, ConcatAdjacentSubSeq DEF Consume
  <2> QED BY <2>2, SubSeqFull
<1> HIDE DEF s, t
<1>4. t \o gone \in Seq(Tokens)
  BY <1>2, ConcatProperties
<1>5. (buf \o s) \o (t \o gone) = buf \o (s \o (t \o gone))
  BY <1>2, <1>4, Associative, ZenonT(30)
<1>6. s \o (t \o gone) = (s \o t) \o gone
  BY <1>2, Associative, ZenonT(30)
<1>7. (buf \o s) \o (t \o gone) = full
  BY <1>1, <1>3, <1>5, <1>6, Zenon
<1> QED BY <1>1, <1>7, Zenon DEF Ahead, s, t

\* The server cuts off what is on its way.
LEMMA AheadCut ==
  ASSUME NEW buf \in Seq(Tokens), NEW sent \in Seq(Tokens), NEW full,
         Ahead(buf, sent, FALSE, full), NEW k \in 0 .. Len(sent)
  PROVE  Ahead(buf, SubSeq(sent, 1, k), k < Len(sent), full)
<1>1. buf \o (sent \o <<>>) = full
  BY Zenon DEF Ahead
<1>2. buf \o sent = full
  <2>1. sent \o <<>> = sent
    BY ConcatEmptySeq
  <2> QED BY <1>1, <2>1
<1> DEFINE s    == SubSeq(sent, 1, k)
           gone == From(sent, k)
<1>3. gone \in Seq(Tokens) /\ Len(gone) = Len(sent) - k
  BY FromIs
<1>4. s \o gone = sent
  <2>1. 1 \in 1 .. Len(sent) + 1 /\ k \in 1 - 1 .. Len(sent) /\ Len(sent) \in k .. Len(sent)
    BY LenProperties
  <2>2. s \o gone = SubSeq(sent, 1, Len(sent))
    BY <2>1, ConcatAdjacentSubSeq DEF From
  <2> QED BY <2>2, SubSeqFull
<1> HIDE DEF s, gone
<1>5. gone # <<>> => k < Len(sent)
  BY <1>3, EmptySeq, LenProperties
<1> QED BY <1>2, <1>3, <1>4, <1>5, Zenon DEF Ahead, s

\* Something is on its way as long as the buffer is short of it.
LEMMA AheadMore ==
  ASSUME NEW buf \in Seq(Tokens), NEW sent \in Seq(Tokens), NEW full \in Seq(Tokens),
         Ahead(buf, sent, FALSE, full)
  PROVE  buf \o sent = full /\ (Len(buf) < Len(full) => sent # <<>>)
<1>1. buf \o (sent \o <<>>) = full
  BY Zenon DEF Ahead
<1>2. buf \o sent = full
  <2>1. sent \o <<>> = sent
    BY ConcatEmptySeq
  <2> QED BY <1>1, <2>1
<1>3. buf \o <<>> = buf
  BY ConcatEmptySeq
<1>4. sent = <<>> => buf = full
  BY <1>2, <1>3, Zenon
<1> QED BY <1>2, <1>4, LenProperties

\* Nothing is ahead.
LEMMA AheadNone ==
  ASSUME NEW buf \in Seq(Tokens), NEW sent \in Seq(Tokens), NEW short,
         Ahead(buf, sent, short, <<>>)
  PROVE  buf = <<>> /\ sent = <<>>
<1>1. PICK gone \in Seq(Tokens) : buf \o (sent \o gone) = <<>>
  BY DEF Ahead
<1>2. sent \o gone \in Seq(Tokens)
  BY ConcatProperties
<1>3. buf = <<>> /\ sent \o gone = <<>>
  BY <1>1, <1>2, ConcatEqualIffEmpty
<1> QED BY <1>3, ConcatEqualIffEmpty

\* What is on its way begins with what is ahead.
LEMMA AheadFirst ==
  ASSUME NEW buf \in Seq(Tokens), NEW sent \in Seq(Tokens), NEW short,
         NEW full \in Seq(Tokens), Ahead(buf, sent, short, full)
  PROVE  /\ buf \o sent # <<>> => full # <<>> /\ (buf \o sent)[1] = full[1]
         /\ buf # <<>> => full # <<>> /\ buf[1] = full[1]
         /\ buf = <<>> /\ sent # <<>> => full # <<>> /\ sent[1] = full[1]
<1>1. PICK gone \in Seq(Tokens) : buf \o (sent \o gone) = full
  BY DEF Ahead
<1>2. /\ buf \o sent \in Seq(Tokens) /\ Len(buf \o sent) = Len(buf) + Len(sent)
      /\ Len(buf) \in Nat /\ Len(sent) \in Nat /\ Len(gone) \in Nat
  BY ConcatProperties, LenProperties
<1>3. (buf \o sent) \o gone = full
  BY <1>1, Associative, ZenonT(30)
<1>4. PICK s \in Seq(Tokens) : s = buf \o sent /\ Len(s) = Len(buf) + Len(sent)
  BY <1>2
<1>5. s # <<>> => full # <<>> /\ s[1] = full[1]
  <2> SUFFICES ASSUME s # <<>> PROVE full # <<>> /\ s[1] = full[1]
    OBVIOUS
  <2>1. Len(s) > 0
    BY <1>4, EmptySeq
  <2>2. 1 \in 1 .. Len(s) + Len(gone) /\ 1 <= Len(s)
    BY <1>2, <1>4, <2>1
  <2>3. Len(s \o gone) = Len(s) + Len(gone) /\ (s \o gone)[1] = s[1]
    <3>1. /\ Len(s \o gone) = Len(s) + Len(gone)
          /\ \A i \in 1 .. Len(s) + Len(gone) :
               (s \o gone)[i] = IF i <= Len(s) THEN s[i] ELSE gone[i - Len(s)]
      BY ConcatProperties
    <3> QED BY <2>2, <3>1
  <2>4. Len(full) > 0
    BY <1>2, <1>3, <1>4, <2>1, <2>3
  <2> QED BY <1>3, <1>4, <2>3, <2>4
<1>6. buf # <<>> => s # <<>> /\ s[1] = buf[1]
  <2> SUFFICES ASSUME buf # <<>> PROVE s # <<>> /\ s[1] = buf[1]
    OBVIOUS
  <2>1. Len(buf) > 0
    BY EmptySeq
  <2>2. 1 \in 1 .. Len(buf) + Len(sent) /\ 1 <= Len(buf)
    BY <1>2, <2>1
  <2>3. (buf \o sent)[1] = buf[1]
    BY <2>2, ConcatProperties
  <2>4. Len(s) > 0
    BY <1>2, <1>4, <2>1
  <2> QED BY <2>3, <2>4, <1>4
<1>7. buf = <<>> => s = sent
  BY <1>4, ConcatEmptySeq
<1> QED BY <1>4, <1>5, <1>6, <1>7, Zenon

-----------------------------------------------------------------------------
(* What is left of a response *)

Payload(m)   == IF IsChunked(m) THEN InChunks(m) ELSE m.body
LastChunk(m) == Line(<<"size", 0>>) \o Ending(m)

\* after k of its lines, of its chunks, of the lines of its trailer.
LinesLeft(m, k)   == Lines(From(m.lines, k)) \o (Eol \o Payload(m))
ChunksLeft(m, k)  == Chunks(From(m.chunks, k)) \o LastChunk(m)
BodyLeft(m, k)    == FlattenSeq(From(m.chunks, k))
TrailerLeft(m, k) == Lines(From(m.trailer, k)) \o Eol

LEMMA MessageIs ==
  ASSUME NEW m \in Messages
  PROVE  /\ m.wire \in Seq(Tokens) /\ m.wire # <<>> /\ m.code \in Nat
         /\ m.lines \in Seq(Texts) /\ m.lines \in Seq(Tokens)
         /\ m.headers \in Seq(Tokens) /\ m.body \in Seq(Tokens)
         /\ m.chunks \in Seq(Seq(Tokens))
         /\ \A i \in 1 .. Len(m.chunks) : m.chunks[i] \in Seq(Tokens) /\ m.chunks[i] # <<>>
         /\ m.trailer \in Seq(Fields) /\ m.trailer \in Seq(Tokens)
<1>1. /\ m.wire \in Seq(Tokens) /\ m.wire # <<>> /\ m.code \in Nat
      /\ m.lines \in Seq(Texts)
      /\ m.headers \in Seq(Tokens) /\ m.body \in Seq(Tokens)
      /\ m.chunks \in Seq(Seq(Tokens) \ {<<>>})
      /\ m.trailer \in Seq(Fields)
  BY MessagesAssumption
<1>2. Texts \subseteq Tokens /\ Fields \subseteq Tokens
  BY DEF Texts, Fields, Tokens, Kinds
<1>3. m.lines \in Seq(Tokens) /\ m.trailer \in Seq(Tokens)
  BY <1>1, <1>2, SeqMonotonic
<1>4. m.chunks \in Seq(Seq(Tokens))
  <2>1. Seq(Tokens) \ {<<>>} \subseteq Seq(Tokens)
    OBVIOUS
  <2> QED BY <1>1, <2>1, SeqMonotonic
<1>5. \A i \in 1 .. Len(m.chunks) : m.chunks[i] \in Seq(Tokens) \ {<<>>}
  BY <1>1, ElementOfSeq
<1> QED BY <1>1, <1>3, <1>4, <1>5

LEMMA EndingIs ==
  ASSUME NEW m \in Messages
  PROVE  /\ Ending(m) \in Seq(Tokens) /\ LastChunk(m) \in Seq(Tokens)
         /\ InChunks(m) = Chunks(m.chunks) \o LastChunk(m)
         /\ Payload(m) \in Seq(Tokens)
         /\ <<"size", 0>> \in Texts
<1>1. <<"size", 0>> \in Texts /\ <<"size", 0>> \in Tokens
  BY DEF Texts, Tokens, Kinds
<1>2. Line(<<"size", 0>>) \in Seq(Tokens) /\ Eol \in Seq(Tokens)
  BY <1>1, LineIs
<1>3. From(m.trailer, 0) = m.trailer /\ From(m.chunks, 0) = m.chunks
  BY MessageIs, SubSeqFull DEF From
<1>4. 0 \in 0 .. Len(m.trailer) /\ 0 \in 0 .. Len(m.chunks)
  BY MessageIs, LenProperties
<1>5. Lines(m.trailer) \in Seq(Tokens)
  <2>1. Lines(From(m.trailer, 0)) \in Seq(Tokens)
    BY <1>4, MessageIs, LinesFrom
  <2> QED BY <1>3, <2>1
<1>6. Chunks(m.chunks) \in Seq(Tokens)
  <2>1. Chunks(From(m.chunks, 0)) \in Seq(Tokens)
    BY <1>4, MessageIs, ChunksFrom
  <2> QED BY <1>3, <2>1
<1>7. Ending(m) \in Seq(Tokens)
  BY <1>2, <1>5, ConcatProperties DEF Ending
<1>8. LastChunk(m) \in Seq(Tokens)
  BY <1>2, <1>7, ConcatProperties DEF LastChunk
<1>9. InChunks(m) = Chunks(m.chunks) \o LastChunk(m)
  BY <1>2, <1>6, <1>7, Associative, ZenonT(30) DEF InChunks, LastChunk
<1>10. InChunks(m) \in Seq(Tokens)
  BY <1>6, <1>8, <1>9, ConcatProperties
<1>11. Payload(m) \in Seq(Tokens)
  BY <1>10, MessageIs DEF Payload
<1> QED BY <1>1, <1>7, <1>8, <1>9, <1>11

\* A response is its status line and all of its lines,
LEMMA WireIs ==
  ASSUME NEW m \in Messages, m.framed, m.ok
  PROVE  /\ <<"status", m.code>> \in Texts
         /\ m.wire = Line(<<"status", m.code>>) \o LinesLeft(m, 0)
         /\ LinesLeft(m, 0) \in Seq(Tokens)
         /\ m.headers = FieldsIn(From(m.lines, 0))
         /\ IsChunked(m) => m.body = BodyLeft(m, 0) /\ Payload(m) = ChunksLeft(m, 0)
         /\ ~IsChunked(m) => Len(m.body) = LengthOf(m) /\ Payload(m) = m.body
<1>1. WellFormed(m)
  BY MessagesAssumption
<1>2. From(m.lines, 0) = m.lines /\ From(m.chunks, 0) = m.chunks
  BY MessageIs, SubSeqFull DEF From
<1>3. <<"status", m.code>> \in Texts /\ <<"status", m.code>> \in Tokens
  BY MessageIs DEF Texts, Tokens, Kinds
<1>4. Line(<<"status", m.code>>) \in Seq(Tokens) /\ Eol \in Seq(Tokens)
  BY <1>3, LineIs
<1>5. Lines(m.lines) \in Seq(Tokens)
  <2>1. 0 \in 0 .. Len(m.lines)
    BY MessageIs, LenProperties
  <2>2. Lines(From(m.lines, 0)) \in Seq(Tokens)
    BY <2>1, MessageIs, LinesFrom
  <2> QED BY <1>2, <2>2
<1>6. Payload(m) \in Seq(Tokens)
  BY EndingIs
<1>7. m.wire = Line(<<"status", m.code>>) \o Lines(m.lines) \o Eol \o Payload(m)
  BY <1>1, Zenon DEF WellFormed, Payload
<1>8. PICK a \in Seq(Tokens) : a = Line(<<"status", m.code>>)
  BY <1>4
<1>9. PICK b \in Seq(Tokens) : b = Lines(m.lines)
  BY <1>5
<1>10. a \o b \in Seq(Tokens) /\ Eol \o Payload(m) \in Seq(Tokens)
         /\ b \o (Eol \o Payload(m)) \in Seq(Tokens)
  BY <1>4, <1>6, ConcatProperties
<1>11. ((a \o b) \o Eol) \o Payload(m) = (a \o b) \o (Eol \o Payload(m))
  <2>1. PICK c \in Seq(Tokens) : c = a \o b
    BY <1>10
  <2>2. (c \o Eol) \o Payload(m) = c \o (Eol \o Payload(m))
    BY <1>4, <1>6, Associative, ZenonT(30)
  <2> QED BY <2>1, <2>2, Zenon
<1>12. (a \o b) \o (Eol \o Payload(m)) = a \o (b \o (Eol \o Payload(m)))
  BY <1>10, Associative, ZenonT(30)
<1>13. m.wire = Line(<<"status", m.code>>) \o LinesLeft(m, 0)
  BY <1>2, <1>7, <1>8, <1>9, <1>11, <1>12, Zenon DEF LinesLeft
<1>14. LinesLeft(m, 0) \in Seq(Tokens)
  BY <1>2, <1>9, <1>10, Zenon DEF LinesLeft
<1>15. m.headers = FieldsIn(From(m.lines, 0))
  BY <1>1, <1>2 DEF WellFormed
<1>16. IsChunked(m) => m.body = BodyLeft(m, 0) /\ Payload(m) = ChunksLeft(m, 0)
  BY <1>1, <1>2, EndingIs, Zenon DEF WellFormed, BodyLeft, Payload, ChunksLeft
<1>17. ~IsChunked(m) => Len(m.body) = LengthOf(m) /\ Payload(m) = m.body
  BY <1>1, Zenon DEF WellFormed, Payload
<1> QED BY <1>3, <1>13, <1>14, <1>15, <1>16, <1>17

LEMMA LinesLeftIs ==
  ASSUME NEW m \in Messages, NEW k \in 0 .. Len(m.lines)
  PROVE  /\ LinesLeft(m, k) \in Seq(Tokens)
         /\ k = Len(m.lines) => LinesLeft(m, k) = Eol \o Payload(m)
         /\ k < Len(m.lines) => LinesLeft(m, k) = Line(m.lines[k + 1]) \o LinesLeft(m, k + 1)
<1>1. Eol \in Seq(Tokens) /\ Payload(m) \in Seq(Tokens)
  BY LineIs, EndingIs
<1>2. PICK end \in Seq(Tokens) : end = Eol \o Payload(m)
  BY <1>1, ConcatProperties
<1>3. m.lines \in Seq(Tokens) /\ Len(m.lines) \in Nat
  BY MessageIs, LenProperties
<1>4. /\ Lines(From(m.lines, k)) \in Seq(Tokens)
      /\ k = Len(m.lines) => Lines(From(m.lines, k)) = <<>>
      /\ k < Len(m.lines) =>
           Lines(From(m.lines, k)) = Line(m.lines[k + 1]) \o Lines(From(m.lines, k + 1))
  BY <1>3, LinesFrom
<1>5. LinesLeft(m, k) \in Seq(Tokens)
  BY <1>2, <1>4, ConcatProperties DEF LinesLeft
<1>6. ASSUME k = Len(m.lines) PROVE LinesLeft(m, k) = Eol \o Payload(m)
  <2>1. <<>> \o end = end
    BY ConcatEmptySeq
  <2> QED BY <1>2, <1>4, <1>6, <2>1, Zenon DEF LinesLeft
<1>7. ASSUME k < Len(m.lines)
      PROVE  LinesLeft(m, k) = Line(m.lines[k + 1]) \o LinesLeft(m, k + 1)
  <2>1. k + 1 \in 0 .. Len(m.lines) /\ k + 1 \in 1 .. Len(m.lines)
    BY <1>3, <1>7
  <2>2. Lines(From(m.lines, k + 1)) \in Seq(Tokens)
    BY <1>3, <2>1, LinesFrom
  <2>3. Line(m.lines[k + 1]) \in Seq(Tokens)
    BY <1>3, <2>1, ElementOfSeq, LineIs
  <2>4. PICK a \in Seq(Tokens) : a = Line(m.lines[k + 1])
    BY <2>3
  <2>5. PICK b \in Seq(Tokens) : b = Lines(From(m.lines, k + 1))
    BY <2>2
  <2>6. (a \o b) \o end = a \o (b \o end)
    BY Associative, ZenonT(30)
  <2> QED BY <1>2, <1>4, <1>7, <2>4, <2>5, <2>6, Zenon DEF LinesLeft
<1> QED BY <1>5, <1>6, <1>7

LEMMA TrailerLeftIs ==
  ASSUME NEW m \in Messages, NEW k \in 0 .. Len(m.trailer)
  PROVE  /\ TrailerLeft(m, k) \in Seq(Tokens)
         /\ k = Len(m.trailer) => TrailerLeft(m, k) = Eol \o <<>>
         /\ k < Len(m.trailer) =>
              TrailerLeft(m, k) = Line(m.trailer[k + 1]) \o TrailerLeft(m, k + 1)
<1>1. Eol \in Seq(Tokens)
  BY LineIs
<1>2. m.trailer \in Seq(Tokens) /\ Len(m.trailer) \in Nat
  BY MessageIs, LenProperties
<1>3. /\ Lines(From(m.trailer, k)) \in Seq(Tokens)
      /\ k = Len(m.trailer) => Lines(From(m.trailer, k)) = <<>>
      /\ k < Len(m.trailer) =>
           Lines(From(m.trailer, k)) = Line(m.trailer[k + 1]) \o Lines(From(m.trailer, k + 1))
  BY <1>2, LinesFrom
<1>4. TrailerLeft(m, k) \in Seq(Tokens)
  BY <1>1, <1>3, ConcatProperties DEF TrailerLeft
<1>5. ASSUME k = Len(m.trailer) PROVE TrailerLeft(m, k) = Eol \o <<>>
  <2>1. <<>> \o Eol = Eol /\ Eol \o <<>> = Eol
    BY <1>1, ConcatEmptySeq
  <2> QED BY <1>3, <1>5, <2>1, Zenon DEF TrailerLeft
<1>6. ASSUME k < Len(m.trailer)
      PROVE  TrailerLeft(m, k) = Line(m.trailer[k + 1]) \o TrailerLeft(m, k + 1)
  <2>1. k + 1 \in 0 .. Len(m.trailer) /\ k + 1 \in 1 .. Len(m.trailer)
    BY <1>2, <1>6
  <2>2. Lines(From(m.trailer, k + 1)) \in Seq(Tokens)
    BY <1>2, <2>1, LinesFrom
  <2>3. Line(m.trailer[k + 1]) \in Seq(Tokens)
    BY <1>2, <2>1, ElementOfSeq, LineIs
  <2>4. PICK a \in Seq(Tokens) : a = Line(m.trailer[k + 1])
    BY <2>3
  <2>5. PICK b \in Seq(Tokens) : b = Lines(From(m.trailer, k + 1))
    BY <2>2
  <2>6. (a \o b) \o Eol = a \o (b \o Eol)
    BY <1>1, Associative, ZenonT(30)
  <2> QED BY <1>3, <1>6, <2>4, <2>5, <2>6, Zenon DEF TrailerLeft
<1> QED BY <1>4, <1>5, <1>6

LEMMA BodyLeftIs ==
  ASSUME NEW m \in Messages, NEW k \in 0 .. Len(m.chunks)
  PROVE  /\ BodyLeft(m, k) \in Seq(Tokens)
         /\ k = Len(m.chunks) => BodyLeft(m, k) = <<>>
         /\ k < Len(m.chunks) => BodyLeft(m, k) = m.chunks[k + 1] \o BodyLeft(m, k + 1)
BY MessageIs, FlatFrom DEF BodyLeft

LEMMA ChunksLeftIs ==
  ASSUME NEW m \in Messages, NEW k \in 0 .. Len(m.chunks)
  PROVE  /\ ChunksLeft(m, k) \in Seq(Tokens)
         /\ k = Len(m.chunks) => ChunksLeft(m, k) = LastChunk(m)
         /\ k < Len(m.chunks) =>
              ChunksLeft(m, k) = Line(<<"size", Len(m.chunks[k + 1])>>)
                                   \o (m.chunks[k + 1] \o (Eol \o ChunksLeft(m, k + 1)))
<1>1. Eol \in Seq(Tokens) /\ LastChunk(m) \in Seq(Tokens)
  BY LineIs, EndingIs
<1>2. m.chunks \in Seq(Seq(Tokens)) /\ Len(m.chunks) \in Nat
  BY MessageIs, LenProperties
<1>3. /\ Chunks(From(m.chunks, k)) \in Seq(Tokens)
      /\ k = Len(m.chunks) => Chunks(From(m.chunks, k)) = <<>>
      /\ k < Len(m.chunks) =>
           Chunks(From(m.chunks, k)) = Chunk(m.chunks[k + 1]) \o Chunks(From(m.chunks, k + 1))
  BY <1>2, ChunksFrom
<1>4. ChunksLeft(m, k) \in Seq(Tokens)
  BY <1>1, <1>3, ConcatProperties DEF ChunksLeft
<1>5. ASSUME k = Len(m.chunks) PROVE ChunksLeft(m, k) = LastChunk(m)
  <2>1. <<>> \o LastChunk(m) = LastChunk(m)
    BY <1>1, ConcatEmptySeq
  <2> QED BY <1>3, <1>5, <2>1, Zenon DEF ChunksLeft
<1>6. ASSUME k < Len(m.chunks)
      PROVE  ChunksLeft(m, k) = Line(<<"size", Len(m.chunks[k + 1])>>)
                                  \o (m.chunks[k + 1] \o (Eol \o ChunksLeft(m, k + 1)))
  <2>1. k + 1 \in 0 .. Len(m.chunks) /\ k + 1 \in 1 .. Len(m.chunks)
    BY <1>2, <1>6
  <2>0. \A x, y \in Seq(Tokens) : (x \o Eol) \o y = x \o (Eol \o y)
    BY <1>1, Associative, ZenonT(30)
  <2>2. PICK data \in Seq(Tokens) : data = m.chunks[k + 1]
    BY <2>1, MessageIs
  <2>3. /\ <<"size", Len(data)>> \in Tokens
        /\ Chunk(data) = Line(<<"size", Len(data)>>) \o (data \o Eol)
    BY ChunkTyped
  <2>4. PICK a \in Seq(Tokens) : a = Line(<<"size", Len(data)>>)
    BY <2>3, LineIs
  <2>5. Chunks(From(m.chunks, k + 1)) \in Seq(Tokens)
    BY <1>2, <2>1, ChunksFrom
  <2>6. PICK b \in Seq(Tokens) : b = Chunks(From(m.chunks, k + 1))
    BY <2>5
  <2>7. PICK z \in Seq(Tokens) : z = LastChunk(m)
    BY <1>1
  <2>8. PICK d \in Seq(Tokens) : d = data \o Eol
    BY <1>1, ConcatProperties
  <2>9. b \o z \in Seq(Tokens)
    BY ConcatProperties
  <2>10. a \o d \in Seq(Tokens)
    BY ConcatProperties
  <2>11. ((a \o d) \o b) \o z = (a \o d) \o (b \o z)
    BY <2>10, Associative, ZenonT(30)
  <2>12. (a \o d) \o (b \o z) = a \o (d \o (b \o z))
    BY <2>9, Associative, ZenonT(30)
  <2>13. (data \o Eol) \o (b \o z) = data \o (Eol \o (b \o z))
    BY <2>0, <2>9, Zenon
  <2>14. ChunksLeft(m, k) = ((a \o d) \o b) \o z
    BY <1>3, <1>6, <2>2, <2>3, <2>4, <2>6, <2>7, <2>8, Zenon DEF ChunksLeft
  <2>15. ChunksLeft(m, k + 1) = b \o z
    BY <2>6, <2>7, Zenon DEF ChunksLeft
  <2> QED BY <2>2, <2>4, <2>8, <2>11, <2>12, <2>13, <2>14, <2>15, Zenon
<1> QED BY <1>4, <1>5, <1>6

-----------------------------------------------------------------------------
(* What has been taken of it *)

LEMMA PrefixOf ==
  ASSUME NEW s \in Seq(Tokens), NEW t \in Seq(Tokens), NEW all \in Seq(Tokens), s \o t = all
  PROVE  IsPrefixOf(s, all)
<1>1. Len(s) \in Nat /\ Len(t) \in Nat
  BY LenProperties
<1>2. PICK z \in Seq(Tokens) : z = s \o t
  BY ConcatProperties
<1>3. /\ Len(z) = Len(s) + Len(t)
      /\ \A i \in 1 .. Len(s) + Len(t) : z[i] = IF i <= Len(s) THEN s[i] ELSE t[i - Len(s)]
  BY <1>2, ConcatProperties
<1>4. Len(s) \in 0 .. Len(z)
  BY <1>1, <1>3
<1>5. /\ SubSeq(z, 1, Len(s)) \in Seq(Tokens) /\ Len(SubSeq(z, 1, Len(s))) = Len(s)
      /\ \A i \in 1 .. Len(s) : SubSeq(z, 1, Len(s))[i] = z[i]
  BY <1>4
<1>6. \A i \in 1 .. Len(s) : z[i] = s[i]
  BY <1>1, <1>3
<1>7. s = SubSeq(z, 1, Len(s))
  BY <1>5, <1>6, SeqEqual
<1> QED BY <1>2, <1>4, <1>7 DEF IsPrefixOf

\* h has the first headers of all that come before left, as many as are kept.
Keeps(h, left, all) ==
  /\ IsPrefixOf(h, all) /\ Len(h) <= MaxHeaders
  /\ Len(h) < MaxHeaders => h \o left = all

LEMMA KeepsFirst ==
  ASSUME NEW all \in Seq(Tokens)
  PROVE  Keeps(<<>>, all, all)
<1>1. <<>> \in Seq(Tokens) /\ Len(<<>>) = 0 /\ <<>> \o all = all
  BY ConcatEmptySeq
<1>2. IsPrefixOf(<<>>, all)
  BY <1>1, PrefixOf, Zenon
<1> QED BY <1>1, <1>2, LimitsAssumption DEF Keeps

LEMMA KeepsOne ==
  ASSUME NEW h \in Seq(Tokens), NEW t \in Tokens, NEW left \in Seq(Tokens),
         NEW all \in Seq(Tokens), Keeps(h, <<t>> \o left, all)
  PROVE  IF Len(h) < MaxHeaders THEN Keeps(Append(h, t), left, all) ELSE Keeps(h, left, all)
<1>1. CASE Len(h) < MaxHeaders
  <2>1. <<t>> \in Seq(Tokens)
    OBVIOUS
  <2>2. PICK f \in Seq(Tokens) : f = <<t>>
    BY <2>1
  <2>3. h \o (f \o left) = all
    BY <1>1, <2>2, Zenon DEF Keeps
  <2>4. (h \o f) \o left = all
    BY <2>3, Associative, ZenonT(30)
  <2>5. PICK g \in Seq(Tokens) : g = h \o f
    BY ConcatProperties
  <2>6. Append(h, t) = g
    <3>1. Append(h, t) = h \o <<t>>
      BY AppendIsConcat
    <3> QED BY <2>2, <2>5, <3>1, Zenon
  <2>7. g \o left = all
    BY <2>4, <2>5, Zenon
  <2>8. IsPrefixOf(g, all)
    BY <2>7, PrefixOf
  <2>9. Len(g) <= MaxHeaders
    <3>1. Len(g) = Len(h) + 1
      BY <2>6, AppendProperties
    <3> QED BY <1>1, <3>1, LimitsAssumption, LenProperties
  <2>10. Keeps(g, left, all)
    BY <2>7, <2>8, <2>9, Zenon DEF Keeps
  <2> QED BY <1>1, <2>6, <2>10
<1>2. CASE ~(Len(h) < MaxHeaders)
  BY <1>2 DEF Keeps
<1> QED BY <1>1, <1>2

\* When no line is left, those are the headers that are kept.
LEMMA KeepsAll ==
  ASSUME NEW m \in Messages, NEW h \in Seq(Tokens), Keeps(h, <<>>, m.headers)
  PROVE  h = Kept(m)
<1>1. m.headers \in Seq(Tokens) /\ Len(m.headers) \in Nat /\ Len(h) \in Nat /\ MaxHeaders \in Nat
  BY MessageIs, LenProperties, LimitsAssumption
<1>2. Len(h) <= Len(m.headers) /\ h = SubSeq(m.headers, 1, Len(h)) /\ Len(h) <= MaxHeaders
  BY DEF Keeps, IsPrefixOf
<1>3. Len(h) < MaxHeaders => h = m.headers
  <2>1. h \o <<>> = h
    BY ConcatEmptySeq
  <2> QED BY <2>1, Zenon DEF Keeps
<1> DEFINE S == {MaxHeaders, Len(m.headers)}
<1>4. S \in SUBSET Nat /\ S # {}
  BY <1>1
<1>5. Min(S) \in S /\ \A x \in S : Min(S) <= x
  <2> HIDE DEF S
  <2> QED BY <1>4, MinOf
<1>6. Min(S) = Len(h)
  BY <1>1, <1>2, <1>3, <1>5
<1> QED BY <1>2, <1>6 DEF Kept

-----------------------------------------------------------------------------
(* Where the parser is in a response *)

\* It has what a malformed response begins with, or the end of a former one.
Astray(s) == s # <<>> => s[1][1] # "status"

AtStatus(p, sent, short, m) ==
  /\ p.headers = <<>> /\ p.body = <<>>
  /\ Ahead(p.buf, sent, short, m.wire) \/ (short /\ Astray(p.buf \o sent))

AtHeaders(p, sent, short, m) ==
  /\ m.ok /\ p.code = m.code /\ p.body = <<>>
  /\ \E k \in 0 .. Len(m.lines) :
       /\ Ahead(p.buf, sent, short, LinesLeft(m, k))
       /\ Keeps(p.headers, FieldsIn(From(m.lines, k)), m.headers)

HeadRead(p, m) == m.ok /\ p.code = m.code /\ p.headers = Kept(m)

AtBody(p, sent, short, m) ==
  /\ HeadRead(p, m) /\ ~IsChunked(m) /\ p.length = Len(m.body)
  /\ \E data \in Seq(Tokens) :
       /\ Ahead(p.buf, sent, short, data)
       /\ p.body \o data = m.body

AtSize(p, sent, short, m) ==
  /\ HeadRead(p, m) /\ IsChunked(m)
  /\ \E k \in 0 .. Len(m.chunks) :
       /\ Ahead(p.buf, sent, short, ChunksLeft(m, k))
       /\ p.body \o BodyLeft(m, k) = m.body

\* What is there of the body, the data that follows and more make all of it.
Whole(body, data, more, all) == body \o (data \o more) = all

AtData(p, sent, short, m) ==
  /\ HeadRead(p, m) /\ IsChunked(m)
  /\ \E k \in 0 .. Len(m.chunks), data \in Seq(Tokens) :
       /\ Len(data) = p.remaining
       /\ Ahead(p.buf, sent, short, data \o (Eol \o ChunksLeft(m, k)))
       /\ Whole(p.body, data, BodyLeft(m, k), m.body)

AtTrailer(p, sent, short, m) ==
  /\ HeadRead(p, m) /\ IsChunked(m) /\ p.body = m.body
  /\ \E k \in 0 .. Len(m.trailer) : Ahead(p.buf, sent, short, TrailerLeft(m, k))

AtEnd(p, sent, short, m) ==
  /\ HeadRead(p, m) /\ IsPrefixOf(p.body, m.body) /\ Astray(sent)
  /\ ~short => p.body = m.body /\ p.buf = <<>> /\ sent = <<>>

Progress(p, sent, short, m) ==
  /\ p.state = "status_line"   => AtStatus(p, sent, short, m)
  /\ p.state = "header_line"   => AtHeaders(p, sent, short, m)
  /\ p.state = "body_identity" => AtBody(p, sent, short, m)
  /\ p.state = "chunk_size"    => AtSize(p, sent, short, m)
  /\ p.state = "chunk_data"    => AtData(p, sent, short, m)
  /\ p.state = "chunk_trailer" => AtTrailer(p, sent, short, m)
  /\ p.state = "done"          => AtEnd(p, sent, short, m)
  /\ p.state = "error"         => short \/ ~m.ok

Parsing(p) == p.state \notin {"done", "error"}

\* A segment that leaves only the end of a chunked body on its way has not
\* ended after a line, nor does the buffer end after one while it is parsed.
MidLine(p, sent, short, m) ==
  Parsing(p) /\ ~short /\ m.ok /\ IsChunked(m) /\ Len(sent) \in 1 .. Len(Ending(m)) =>
    p.buf # <<>> /\ p.buf[Len(p.buf)] # LF

\* What an iteration may take off the buffer: nothing, or up to the end of a line.
Shrinks(buf, after) ==
  \/ after = buf
  \/ \E n \in 1 .. Len(buf) : buf[n] = LF /\ after = Consume(buf, n)

LEMMA LineShrinks ==
  ASSUME NEW buf \in Seq(Tokens), FindCrlf(buf) # 0
  PROVE  Shrinks(buf, AfterLine(buf, FindCrlf(buf)))
<1> DEFINE pos == FindCrlf(buf)
<1>1. pos \in 1 .. Len(buf) - 1 /\ buf[pos + 1] = LF
  BY CrlfIs
<1>2. pos + 1 \in 1 .. Len(buf)
  BY <1>1, LenProperties
<1> HIDE DEF pos
<1>3. Shrinks(buf, AfterLine(buf, pos))
  BY <1>1, <1>2 DEF Shrinks, AfterLine
<1> QED BY <1>3 DEF pos

LEMMA MidLineKept ==
  ASSUME NEW p, NEW q, p.buf \in Seq(Tokens), NEW sent, NEW short, NEW m,
         Parsing(p), MidLine(p, sent, short, m), Shrinks(p.buf, q.buf)
  PROVE  MidLine(q, sent, short, m)
<1> SUFFICES ASSUME Parsing(q), ~short, m.ok, IsChunked(m), Len(sent) \in 1 .. Len(Ending(m))
             PROVE  q.buf # <<>> /\ q.buf[Len(q.buf)] # LF
  BY DEF MidLine
<1>1. p.buf # <<>> /\ p.buf[Len(p.buf)] # LF
  BY DEF MidLine
<1>2. CASE q.buf = p.buf
  BY <1>1, <1>2
<1>3. CASE q.buf # p.buf
  <2> DEFINE b == p.buf
  <2>1. PICK n \in 1 .. Len(b) : b[n] = LF /\ q.buf = Consume(b, n)
    BY <1>3 DEF Shrinks
  <2>2. b \in Seq(Tokens) /\ Len(b) \in Nat /\ b[Len(b)] # LF
    BY <1>1, LenProperties
  <2> HIDE DEF b
  <2>3. n \in Nat /\ n < Len(b)
    BY <2>1, <2>2
  <2>4. /\ Consume(b, n) \in Seq(Tokens) /\ Len(Consume(b, n)) = Len(b) - n
        /\ Consume(b, n)[Len(b) - n] = b[Len(b)]
    BY <2>2, <2>3 DEF Consume
  <2>5. Consume(b, n) # <<>>
    BY <2>2, <2>3, <2>4, EmptySeq
  <2> QED BY <2>1, <2>2, <2>4, <2>5
<1> QED BY <1>2, <1>3

-----------------------------------------------------------------------------
(* One iteration *)

\* The parser stays where the response is; if it returns for more, there is more.
Fed(m) ==
  /\ Progress(r', stream, cut, m)
  /\ feeding' /\ Parsing(r') => Shrinks(r.buf, r'.buf)
  /\ ~feeding' /\ ~cut => stream # <<>>

LEMMA LongEnough ==
  ASSUME NEW head \in Seq(Tokens), NEW more \in Seq(Tokens)
  PROVE  head \o more \in Seq(Tokens) /\ Len(head \o more) >= Len(head)
BY ConcatProperties, LenProperties

\* A line of it is in the buffer, or more of it is on its way.
LEMMA LineOrMore ==
  ASSUME NEW buf \in Seq(Tokens), NEW sent \in Seq(Tokens), NEW short \in BOOLEAN,
         NEW t \in Texts, NEW more \in Seq(Tokens),
         Ahead(buf, sent, short, Line(t) \o more)
  PROVE  \/ FindCrlf(buf) = 0 /\ (~short => sent # <<>>)
         \/ /\ FindCrlf(buf) = 2 /\ LineOf(buf, 2) = <<t>>
            /\ AfterLine(buf, 2) \in Seq(Tokens)
            /\ Ahead(AfterLine(buf, 2), sent, short, more)
<1>1. t \in Tokens
  BY DEF Texts, Tokens, Kinds
<1>2. Line(t) \in Seq(Tokens) /\ Len(Line(t)) = 3
  BY <1>1, LineIs
<1>3. \/ FindCrlf(buf) = 0 /\ Len(buf) < 3
      \/ /\ FindCrlf(buf) = 2 /\ LineOf(buf, 2) = <<t>>
         /\ AfterLine(buf, 2) \in Seq(Tokens)
         /\ Ahead(AfterLine(buf, 2), sent, short, more)
  BY LineRead
<1>4. PICK full \in Seq(Tokens) : full = Line(t) \o more /\ Len(full) >= 3
  BY <1>2, LongEnough
<1>5. Len(buf) < 3 /\ ~short => sent # <<>>
  <2> SUFFICES ASSUME Len(buf) < 3, ~short PROVE sent # <<>>
    OBVIOUS
  <2>1. Ahead(buf, sent, FALSE, full)
    BY <1>4, Zenon DEF Ahead
  <2>2. Len(buf) < Len(full)
    BY <1>4, LenProperties
  <2> QED BY <1>4, <2>1, <2>2, AheadMore
<1> QED BY <1>3, <1>5

LEMMA EmptyOrMore ==
  ASSUME NEW buf \in Seq(Tokens), NEW sent \in Seq(Tokens), NEW short \in BOOLEAN,
         NEW more \in Seq(Tokens), Ahead(buf, sent, short, Eol \o more)
  PROVE  \/ FindCrlf(buf) = 0 /\ (~short => sent # <<>>)
         \/ /\ FindCrlf(buf) = 1
            /\ AfterLine(buf, 1) \in Seq(Tokens)
            /\ Ahead(AfterLine(buf, 1), sent, short, more)
<1>1. Eol \in Seq(Tokens) /\ Len(Eol) = 2
  BY LineIs
<1>2. \/ FindCrlf(buf) = 0 /\ Len(buf) < 2
      \/ /\ FindCrlf(buf) = 1
         /\ AfterLine(buf, 1) \in Seq(Tokens)
         /\ Ahead(AfterLine(buf, 1), sent, short, more)
  BY EmptyRead
<1>3. PICK full \in Seq(Tokens) : full = Eol \o more /\ Len(full) >= 2
  BY <1>1, LongEnough
<1>4. Len(buf) < 2 /\ ~short => sent # <<>>
  <2> SUFFICES ASSUME Len(buf) < 2, ~short PROVE sent # <<>>
    OBVIOUS
  <2>1. Ahead(buf, sent, FALSE, full)
    BY <1>3, Zenon DEF Ahead
  <2>2. Len(buf) < Len(full)
    BY <1>3, LenProperties
  <2> QED BY <1>3, <2>1, <2>2, AheadMore
<1> QED BY <1>2, <1>4

\* What does not begin with a status line is not taken for one.
LEMMA NoStatus ==
  ASSUME NEW buf \in Seq(Tokens), NEW sent \in Seq(Tokens), NEW short,
         NEW full \in Seq(Tokens), Ahead(buf, sent, short, full),
         full # <<>> => full[1][1] # "status",
         NEW pos \in 1 .. Len(buf)
  PROVE  ~IsStatus(LineOf(buf, pos))
<1> DEFINE line == LineOf(buf, pos)
<1> SUFFICES ASSUME line # <<>>, line[1][1] = "status" PROVE FALSE
  BY DEF IsStatus
<1>1. buf # <<>> /\ line[1] = buf[1]
  <2>1. line \in Seq(Tokens) /\ Len(line) = pos - 1 /\ Len(line) # 0
    BY EmptySeq, LenProperties DEF LineOf
  <2>2. 1 \in 1 .. pos - 1 /\ Len(buf) # 0
    BY <2>1, LenProperties
  <2>3. line[1] = buf[1]
    BY <2>2, LenProperties DEF LineOf
  <2> QED BY <2>2, <2>3
<1>2. full # <<>> /\ buf[1] = full[1]
  BY <1>1, AheadFirst
<1> QED BY <1>1, <1>2

LEMMA StrayIsAhead ==
  ASSUME NEW buf \in Seq(Tokens), NEW sent \in Seq(Tokens)
  PROVE  buf \o sent \in Seq(Tokens) /\ Ahead(buf, sent, FALSE, buf \o sent)
<1>1. sent \o <<>> = sent /\ <<>> \in Seq(Tokens) /\ buf \o sent \in Seq(Tokens)
  BY ConcatEmptySeq, ConcatProperties
<1> QED BY <1>1, Zenon DEF Ahead

LEMMA FeedStatusLine ==
  ASSUME ParserOK(r), stream \in Seq(Tokens), cut \in BOOLEAN,
         NEW m \in Messages, m.framed, Progress(r, stream, cut, m), StatusLine
  PROVE  Fed(m)
<1> DEFINE pos  == FindCrlf(r.buf)
           line == LineOf(r.buf, pos)
           t    == <<"status", m.code>>
<1>1. r.state = "status_line" /\ r \in ParserSet /\ r.buf \in Seq(Tokens)
  BY DEF StatusLine, At, ParserOK, ParserSet
<1>2. /\ r.headers = <<>> /\ r.body = <<>>
      /\ Ahead(r.buf, stream, cut, m.wire) \/ (cut /\ Astray(r.buf \o stream))
  BY <1>1 DEF Progress, AtStatus
<1>3. pos \in Nat /\ (pos # 0 => pos \in 1 .. Len(r.buf))
  <2>1. pos \in Nat /\ (pos > 0 => pos + 1 <= Len(r.buf)) /\ Len(r.buf) \in Nat
    BY <1>1, CrlfIsIn, LenProperties
  <2> QED BY <2>1
<1>4. ~m.ok => /\ m.wire[1][1] # "status"
               /\ \E i \in 1 .. Len(m.wire) - 1 : m.wire[i] = CR /\ m.wire[i + 1] = LF
  BY MessagesAssumption DEF IllFormed
<1>5. pos # 0 /\ (~m.ok \/ ~Ahead(r.buf, stream, cut, m.wire)) => ~IsStatus(line)
  <2>1. ASSUME pos # 0, ~m.ok, Ahead(r.buf, stream, cut, m.wire) PROVE ~IsStatus(line)
    BY <1>1, <1>3, <1>4, <2>1, NoStatus, MessageIs
  <2>2. ASSUME pos # 0, ~Ahead(r.buf, stream, cut, m.wire) PROVE ~IsStatus(line)
    <3>1. PICK s \in Seq(Tokens) : s = r.buf \o stream /\ Ahead(r.buf, stream, FALSE, s)
      BY <1>1, StrayIsAhead
    <3>2. s # <<>> => s[1][1] # "status"
      BY <1>2, <2>2, <3>1 DEF Astray
    <3> QED BY <1>1, <1>3, <2>2, <3>1, <3>2, NoStatus
  <2> QED BY <2>1, <2>2
<1>6. m.ok /\ Ahead(r.buf, stream, cut, m.wire) =>
        \/ pos = 0 /\ (~cut => stream # <<>>)
        \/ /\ pos = 2 /\ line = <<t>>
           /\ AfterLine(r.buf, pos) \in Seq(Tokens)
           /\ Ahead(AfterLine(r.buf, pos), stream, cut, LinesLeft(m, 0))
  <2> SUFFICES ASSUME m.ok, Ahead(r.buf, stream, cut, m.wire)
               PROVE  \/ pos = 0 /\ (~cut => stream # <<>>)
                      \/ /\ pos = 2 /\ line = <<t>>
                         /\ AfterLine(r.buf, pos) \in Seq(Tokens)
                         /\ Ahead(AfterLine(r.buf, pos), stream, cut, LinesLeft(m, 0))
    OBVIOUS
  <2>1. t \in Texts /\ m.wire = Line(t) \o LinesLeft(m, 0) /\ LinesLeft(m, 0) \in Seq(Tokens)
    BY WireIs
  <2>2. \/ FindCrlf(r.buf) = 0 /\ (~cut => stream # <<>>)
        \/ /\ FindCrlf(r.buf) = 2 /\ LineOf(r.buf, 2) = <<t>>
           /\ AfterLine(r.buf, 2) \in Seq(Tokens)
           /\ Ahead(AfterLine(r.buf, 2), stream, cut, LinesLeft(m, 0))
    <3>1. Ahead(r.buf, stream, cut, Line(t) \o LinesLeft(m, 0))
      BY <2>1, Zenon
    <3> HIDE DEF t
    <3> QED BY <1>1, <2>1, <3>1, LineOrMore
  <2> QED BY <2>2
<1>7. CASE pos = 0 /\ r' = r /\ feeding' = FALSE
  <2>1. ~cut => stream # <<>>
    <3> SUFFICES ASSUME ~cut, stream = <<>> PROVE FALSE
      OBVIOUS
    <3>1. Ahead(r.buf, stream, cut, m.wire)
      BY <1>2
    <3>2. CASE m.ok
      BY <1>6, <1>7, <3>1, <3>2
    <3>3. CASE ~m.ok
      <4>1. Ahead(r.buf, stream, FALSE, m.wire)
        BY <3>1, Zenon DEF Ahead
      <4>2. r.buf \o stream = m.wire
        BY <1>1, <4>1, AheadMore, MessageIs
      <4>3. r.buf = m.wire
        BY <1>1, <4>2, ConcatEmptySeq
      <4>4. PICK i \in 1 .. Len(r.buf) - 1 : r.buf[i] = CR /\ r.buf[i + 1] = LF
        BY <1>4, <3>3, <4>3
      <4> QED BY <1>1, <1>7, <4>4, CrlfIs
    <3> QED BY <3>2, <3>3
  <2> QED BY <1>7, <2>1 DEF Fed
<1>8. CASE /\ pos > 0 /\ IsStatus(line) /\ feeding' = feeding
           /\ r' = [r EXCEPT !.code = line[1][2], !.buf = AfterLine(r.buf, pos),
                             !.state = "header_line"]
  <2>1. m.ok /\ Ahead(r.buf, stream, cut, m.wire) /\ pos # 0
    BY <1>3, <1>5, <1>8
  <2>2. /\ line = <<t>> /\ AfterLine(r.buf, pos) \in Seq(Tokens)
        /\ Ahead(AfterLine(r.buf, pos), stream, cut, LinesLeft(m, 0))
    BY <1>6, <2>1
  <2>3. line[1][2] = m.code
    BY <2>2
  <2>4. Shrinks(r.buf, AfterLine(r.buf, pos))
    BY <1>1, <2>1, LineShrinks
  <2> HIDE DEF pos, line, t
  <2>5. /\ r'.state = "header_line" /\ r'.code = m.code /\ r'.buf = AfterLine(r.buf, pos)
        /\ r'.headers = <<>> /\ r'.body = <<>>
    BY <1>1, <1>2, <1>8, <2>3 DEF ParserSet
  <2>6. Keeps(<<>>, FieldsIn(From(m.lines, 0)), m.headers)
    BY <2>1, WireIs, MessageIs, KeepsFirst
  <2>7. 0 \in 0 .. Len(m.lines)
    BY MessageIs, LenProperties
  <2>8. AtHeaders(r', stream, cut, m)
    BY <2>1, <2>2, <2>5, <2>6, <2>7 DEF AtHeaders
  <2>9. feeding
    BY DEF StatusLine, At
  <2> QED BY <1>8, <2>4, <2>5, <2>8, <2>9 DEF Fed, Progress
<1>9. CASE pos > 0 /\ ~IsStatus(line) /\ feeding' = feeding /\ r' = [r EXCEPT !.state = "error"]
  <2>1. cut \/ ~m.ok
    <3> SUFFICES ASSUME ~cut, m.ok PROVE FALSE
      OBVIOUS
    <3>1. line = <<t>>
      BY <1>2, <1>3, <1>6, <1>9
    <3> QED BY <1>9, <3>1 DEF IsStatus
  <2>2. r'.state = "error" /\ feeding
    BY <1>1, <1>9 DEF ParserSet, StatusLine, At
  <2> QED BY <1>9, <2>1, <2>2 DEF Fed, Progress, Parsing
<1> QED BY <1>7, <1>8, <1>9 DEF StatusLine, Starve, Parse

\* The headers say how the body is sent.
LEMMA ModeIs ==
  ASSUME ParserOK(r), NEW m \in Messages, r.headers = Kept(m)
  PROVE  /\ HasHeader("chunked") <=> IsChunked(m)
         /\ HasHeader("length") => HeaderValue("length") = LengthOf(m)
         /\ ~HasHeader("length") => LengthOf(m) = 0
<1>1. r.headers \in Seq(Tokens)
  BY DEF ParserOK, ParserSet
<1>2. \A kind : HasHeader(kind) <=> kind \in Names(r.headers)
  BY <1>1 DEF HasHeader, HeadersOf, Names
<1>3. HasHeader("chunked") <=> IsChunked(m)
  BY <1>2 DEF IsChunked
<1>4. HasHeader("length") => HeaderValue("length") = LengthOf(m)
  <2> SUFFICES ASSUME HasHeader("length") PROVE HeaderValue("length") = LengthOf(m)
    OBVIOUS
  <2> DEFINE S == {i \in DOMAIN r.headers : r.headers[i][1] = "length"}
  <2>1. "length" \in Names(r.headers)
    BY <1>2
  <2>2. Find(r.headers, "length") = CHOOSE i \in S : \A j \in S : i <= j
    BY <2>1 DEF Find, Min
  <2>3. HeaderValue("length") = r.headers[CHOOSE i \in S : \A j \in S : i <= j][2]
    BY DEF HeaderValue, HeadersOf
  <2> QED BY <2>1, <2>2, <2>3 DEF LengthOf, Get
<1>5. ~HasHeader("length") => LengthOf(m) = 0
  BY <1>2 DEF LengthOf
<1> QED BY <1>3, <1>4, <1>5

LEMMA FieldIs ==
  ASSUME NEW t \in Texts
  PROVE  /\ HasColon(<<t>>) <=> t \in Fields
         /\ HeaderOf(<<t>>) = t
<1>1. Len(<<t>>) = 1 /\ <<t>>[1] = t /\ DOMAIN <<t>> = {1}
  OBVIOUS
<1>2. HasColon(<<t>>) <=> t[1] \in {"length", "chunked", "header"}
  BY <1>1 DEF HasColon
<1>3. t[1] \in {"length", "chunked", "header"} <=> t \in Fields
  BY DEF Texts, Fields
<1> QED BY <1>1, <1>2, <1>3 DEF HeaderOf

\* The headers end, and so may the response.
LEMMA FeedBodyMode ==
  ASSUME ParserOK(r), stream \in Seq(Tokens), cut \in BOOLEAN,
         NEW m \in Messages, m.framed, m.ok, r.state = "header_line",
         r.code = m.code, r.body = <<>>, r.headers = Kept(m),
         NEW buf \in Seq(Tokens), Ahead(buf, stream, cut, Payload(m)),
         r' = BodyMode([r EXCEPT !.buf = buf])
  PROVE  Progress(r', stream, cut, m) /\ r'.buf = buf
<1> DEFINE after == [r EXCEPT !.buf = buf]
<1>1. /\ after \in ParserSet /\ after.code = m.code /\ after.body = <<>>
      /\ after.headers = Kept(m) /\ after.buf = buf
  BY DEF ParserOK, ParserSet
<1> HIDE DEF after
<1>2. r' = BodyMode(after)
  BY DEF after
<1>3. /\ HasHeader("chunked") <=> IsChunked(m)
      /\ HasHeader("length") => HeaderValue("length") = LengthOf(m)
      /\ ~HasHeader("length") => LengthOf(m) = 0
  BY ModeIs
<1>4. m.body \in Seq(Tokens) /\ <<>> \o m.body = m.body
  BY MessageIs, ConcatEmptySeq
<1>5. CASE IsChunked(m)
  <2>1. r' = [after EXCEPT !.state = "chunk_size"]
    BY <1>2, <1>3, <1>5 DEF BodyMode
  <2>2. /\ r'.state = "chunk_size" /\ r'.code = m.code /\ r'.body = <<>>
        /\ r'.headers = Kept(m) /\ r'.buf = buf
    BY <1>1, <2>1 DEF ParserSet
  <2>3. m.body = BodyLeft(m, 0) /\ Payload(m) = ChunksLeft(m, 0) /\ 0 \in 0 .. Len(m.chunks)
    <3>1. 0 \in 0 .. Len(m.chunks)
      BY MessageIs, LenProperties
    <3> QED BY <1>5, <3>1, WireIs
  <2>4. r'.body \o BodyLeft(m, 0) = m.body
    BY <1>4, <2>2, <2>3, Zenon
  <2>5. Ahead(r'.buf, stream, cut, ChunksLeft(m, 0))
    BY <2>2, <2>3
  <2>6. AtSize(r', stream, cut, m)
    BY <1>5, <2>2, <2>3, <2>4, <2>5, Zenon DEF AtSize, HeadRead
  <2> QED BY <2>2, <2>6 DEF Progress
<1>6. CASE ~IsChunked(m) /\ HasHeader("length") /\ LengthOf(m) # 0
  <2>1. r' = [after EXCEPT !.length = LengthOf(m), !.state = "body_identity"]
    BY <1>2, <1>3, <1>6 DEF BodyMode
  <2>2. /\ r'.state = "body_identity" /\ r'.code = m.code /\ r'.body = <<>>
        /\ r'.headers = Kept(m) /\ r'.buf = buf /\ r'.length = LengthOf(m)
    BY <1>1, <2>1 DEF ParserSet
  <2>3. Len(m.body) = LengthOf(m) /\ Payload(m) = m.body
    BY <1>6, WireIs
  <2>4. r'.body \o m.body = m.body
    BY <1>4, <2>2, Zenon
  <2>5. Ahead(r'.buf, stream, cut, m.body)
    BY <2>2, <2>3
  <2>6. AtBody(r', stream, cut, m)
    BY <1>4, <1>6, <2>2, <2>3, <2>4, <2>5, Zenon DEF AtBody, HeadRead
  <2> QED BY <2>2, <2>6 DEF Progress
<1>7. CASE ~IsChunked(m) /\ (HasHeader("length") => LengthOf(m) = 0)
  <2>1. \/ r' = [after EXCEPT !.state = "done"]
        \/ \E n : r' = [after EXCEPT !.length = n, !.state = "done"]
    BY <1>2, <1>3, <1>7 DEF BodyMode
  <2>2. /\ r'.state = "done" /\ r'.code = m.code /\ r'.body = <<>>
        /\ r'.headers = Kept(m) /\ r'.buf = buf
    BY <1>1, <2>1 DEF ParserSet
  <2>3. Len(m.body) = 0 /\ Payload(m) = m.body
    BY <1>3, <1>7, WireIs
  <2>4. m.body = <<>>
    BY <1>4, <2>3, EmptySeq
  <2>5. buf = <<>> /\ stream = <<>>
    BY <2>3, <2>4, AheadNone
  <2>6. IsPrefixOf(<<>>, m.body)
    BY <1>4, PrefixOf, EmptySeq, Zenon
  <2>7. AtEnd(r', stream, cut, m)
    BY <2>2, <2>4, <2>5, <2>6 DEF AtEnd, HeadRead, Astray
  <2> QED BY <2>2, <2>7 DEF Progress
<1> QED BY <1>5, <1>6, <1>7

LEMMA FeedHeaderLine ==
  ASSUME ParserOK(r), stream \in Seq(Tokens), cut \in BOOLEAN,
         NEW m \in Messages, m.framed, Progress(r, stream, cut, m), HeaderLine
  PROVE  Fed(m)
<1> DEFINE pos  == FindCrlf(r.buf)
           line == LineOf(r.buf, pos)
           buf  == AfterLine(r.buf, pos)
           after == [r EXCEPT !.buf = buf]
<1>1. /\ r.state = "header_line" /\ r \in ParserSet /\ r.buf \in Seq(Tokens) /\ feeding
      /\ r.headers \in Seq(Tokens) /\ Len(r.headers) <= MaxHeaders /\ Len(r.headers) \in Nat
  BY LenProperties DEF HeaderLine, At, ParserOK, ParserSet
<1>2. m.ok /\ r.code = m.code /\ r.body = <<>>
  BY <1>1 DEF Progress, AtHeaders
<1>3. PICK k \in 0 .. Len(m.lines) :
        /\ Ahead(r.buf, stream, cut, LinesLeft(m, k))
        /\ Keeps(r.headers, FieldsIn(From(m.lines, k)), m.headers)
  BY <1>1 DEF Progress, AtHeaders
<1>4. k = Len(m.lines) =>
        \/ pos = 0 /\ (~cut => stream # <<>>)
        \/ pos = 1 /\ buf \in Seq(Tokens) /\ Ahead(buf, stream, cut, Payload(m))
  <2> SUFFICES ASSUME k = Len(m.lines)
               PROVE  \/ pos = 0 /\ (~cut => stream # <<>>)
                      \/ pos = 1 /\ buf \in Seq(Tokens) /\ Ahead(buf, stream, cut, Payload(m))
    OBVIOUS
  <2>1. Ahead(r.buf, stream, cut, Eol \o Payload(m))
    BY <1>3, LinesLeftIs
  <2>2. Payload(m) \in Seq(Tokens)
    BY EndingIs
  <2>3. \/ FindCrlf(r.buf) = 0 /\ (~cut => stream # <<>>)
        \/ /\ FindCrlf(r.buf) = 1
           /\ AfterLine(r.buf, 1) \in Seq(Tokens)
           /\ Ahead(AfterLine(r.buf, 1), stream, cut, Payload(m))
    BY <1>1, <2>1, <2>2, EmptyOrMore
  <2> QED BY <2>3
<1>5. k < Len(m.lines) =>
        \/ pos = 0 /\ (~cut => stream # <<>>)
        \/ /\ pos = 2 /\ line = <<m.lines[k + 1]>>
           /\ buf \in Seq(Tokens) /\ Ahead(buf, stream, cut, LinesLeft(m, k + 1))
  <2> SUFFICES ASSUME k < Len(m.lines)
               PROVE  \/ pos = 0 /\ (~cut => stream # <<>>)
                      \/ /\ pos = 2 /\ line = <<m.lines[k + 1]>>
                         /\ buf \in Seq(Tokens) /\ Ahead(buf, stream, cut, LinesLeft(m, k + 1))
    OBVIOUS
  <2>1. Ahead(r.buf, stream, cut, Line(m.lines[k + 1]) \o LinesLeft(m, k + 1))
    BY <1>3, LinesLeftIs
  <2>2. k + 1 \in 0 .. Len(m.lines) /\ k + 1 \in 1 .. Len(m.lines)
    BY MessageIs, LenProperties
  <2>3. m.lines[k + 1] \in Texts /\ LinesLeft(m, k + 1) \in Seq(Tokens)
    BY <2>2, MessageIs, ElementOfSeq, LinesLeftIs
  <2>4. \/ FindCrlf(r.buf) = 0 /\ (~cut => stream # <<>>)
        \/ /\ FindCrlf(r.buf) = 2 /\ LineOf(r.buf, 2) = <<m.lines[k + 1]>>
           /\ AfterLine(r.buf, 2) \in Seq(Tokens)
           /\ Ahead(AfterLine(r.buf, 2), stream, cut, LinesLeft(m, k + 1))
    BY <1>1, <2>1, <2>3, LineOrMore
  <2> QED BY <2>4
<1>6. k = Len(m.lines) \/ k < Len(m.lines)
  BY MessageIs, LenProperties
<1>7. pos # 0 => Shrinks(r.buf, buf)
  BY <1>1, LineShrinks
<1> HIDE DEF pos, line, buf
<1>8. CASE pos = 0 /\ r' = r /\ feeding' = FALSE
  BY <1>4, <1>5, <1>6, <1>8 DEF Fed
<1>9. CASE pos = 1 /\ r' = BodyMode(after) /\ feeding' = feeding
  <2>1. k = Len(m.lines) /\ buf \in Seq(Tokens) /\ Ahead(buf, stream, cut, Payload(m))
    BY <1>4, <1>5, <1>6, <1>9
  <2>2. FieldsIn(From(m.lines, k)) = <<>>
    BY <2>1, MessageIs, FieldsFrom
  <2>3. r.headers = Kept(m)
    BY <1>1, <1>3, <2>2, KeepsAll
  <2>4. Progress(r', stream, cut, m) /\ r'.buf = buf
    BY <1>1, <1>2, <1>9, <2>1, <2>3, FeedBodyMode
  <2> QED BY <1>1, <1>7, <1>9, <2>4 DEF Fed
<1>10. ASSUME pos > 1
       PROVE  /\ k < Len(m.lines) /\ line = <<m.lines[k + 1]>>
              /\ m.lines[k + 1] \in Texts /\ m.lines[k + 1] \in Tokens
              /\ HasColon(line) <=> m.lines[k + 1] \in Fields
              /\ HeaderOf(line) = m.lines[k + 1]
              /\ k + 1 \in 0 .. Len(m.lines)
              /\ buf \in Seq(Tokens) /\ Ahead(buf, stream, cut, LinesLeft(m, k + 1))
              /\ FieldsIn(From(m.lines, k + 1)) \in Seq(Tokens)
  <2>1. /\ k < Len(m.lines) /\ line = <<m.lines[k + 1]>>
        /\ buf \in Seq(Tokens) /\ Ahead(buf, stream, cut, LinesLeft(m, k + 1))
    BY <1>4, <1>5, <1>6, <1>10
  <2>2. k + 1 \in 0 .. Len(m.lines) /\ k + 1 \in 1 .. Len(m.lines)
    BY <2>1, MessageIs, LenProperties
  <2>3. m.lines[k + 1] \in Texts /\ m.lines[k + 1] \in Tokens
    BY <2>2, MessageIs, ElementOfSeq
  <2>4. FieldsIn(From(m.lines, k + 1)) \in Seq(Tokens)
    BY <2>2, MessageIs, FieldsFrom
  <2> QED BY <2>1, <2>2, <2>3, <2>4, FieldIs
<1>11. CASE /\ pos > 1 /\ HasColon(line) /\ Len(r.headers) < MaxHeaders
            /\ r' = [after EXCEPT !.headers = Append(@, HeaderOf(line))] /\ feeding' = feeding
  <2>1. PICK t \in Tokens : t = m.lines[k + 1]
    BY <1>10, <1>11
  <2>2. FieldsIn(From(m.lines, k)) = <<t>> \o FieldsIn(From(m.lines, k + 1))
    BY <1>10, <1>11, <2>1, MessageIs, FieldsFrom
  <2>3. Keeps(r.headers, <<t>> \o FieldsIn(From(m.lines, k + 1)), m.headers)
    BY <1>3, <2>2, Zenon
  <2>4. Keeps(Append(r.headers, t), FieldsIn(From(m.lines, k + 1)), m.headers)
    BY <1>1, <1>10, <1>11, <2>3, KeepsOne, MessageIs
  <2>5. /\ r'.state = "header_line" /\ r'.code = m.code /\ r'.body = <<>> /\ r'.buf = buf
        /\ r'.headers = Append(r.headers, t)
    BY <1>1, <1>2, <1>10, <1>11, <2>1 DEF ParserSet
  <2>6. AtHeaders(r', stream, cut, m)
    BY <1>2, <1>10, <1>11, <2>4, <2>5, Zenon DEF AtHeaders
  <2> QED BY <1>1, <1>7, <1>11, <2>5, <2>6 DEF Fed, Progress
<1>12. CASE /\ pos > 1 /\ (~HasColon(line) \/ Len(r.headers) >= MaxHeaders)
            /\ r' = after /\ feeding' = feeding
  <2>1. pos > 1
    BY <1>12
  <2>2. Keeps(r.headers, FieldsIn(From(m.lines, k + 1)), m.headers)
    <3>1. CASE ~HasColon(line)
      <4>1. FieldsIn(From(m.lines, k)) = FieldsIn(From(m.lines, k + 1))
        BY <1>10, <2>1, <3>1, MessageIs, FieldsFrom
      <4> QED BY <1>3, <4>1, Zenon
    <3>2. CASE HasColon(line)
      <4>1. PICK t \in Tokens : t = m.lines[k + 1]
        BY <1>10, <2>1
      <4>2. FieldsIn(From(m.lines, k)) = <<t>> \o FieldsIn(From(m.lines, k + 1))
        BY <1>10, <2>1, <3>2, <4>1, MessageIs, FieldsFrom
      <4>3. Keeps(r.headers, <<t>> \o FieldsIn(From(m.lines, k + 1)), m.headers)
        BY <1>3, <4>2, Zenon
      <4>4. ~(Len(r.headers) < MaxHeaders)
        BY <1>1, <1>12, <3>2, LimitsAssumption
      <4> QED BY <1>1, <1>10, <2>1, <4>3, <4>4, KeepsOne, MessageIs
    <3> QED BY <3>1, <3>2
  <2>3. /\ r'.state = "header_line" /\ r'.code = m.code /\ r'.body = <<>> /\ r'.buf = buf
        /\ r'.headers = r.headers
    BY <1>1, <1>2, <1>12, <1>10, <2>1 DEF ParserSet
  <2>4. AtHeaders(r', stream, cut, m)
    BY <1>2, <1>10, <2>1, <2>2, <2>3, Zenon DEF AtHeaders
  <2> QED BY <1>1, <1>7, <1>12, <2>1, <2>3, <2>4 DEF Fed, Progress
<1> HIDE DEF after
<1>13. \/ pos = 0 /\ r' = r /\ feeding' = FALSE
       \/ pos = 1 /\ r' = BodyMode(after) /\ feeding' = feeding
       \/ /\ pos > 1 /\ HasColon(line) /\ Len(r.headers) < MaxHeaders
          /\ r' = [after EXCEPT !.headers = Append(@, HeaderOf(line))] /\ feeding' = feeding
       \/ /\ pos > 1 /\ (~HasColon(line) \/ Len(r.headers) >= MaxHeaders)
          /\ r' = after /\ feeding' = feeding
  BY DEF HeaderLine, Starve, Parse, pos, line, buf, after
<1> QED BY <1>8, <1>9, <1>11, <1>12, <1>13

\* More of it is taken.
LEMMA BodyGrows ==
  ASSUME NEW body \in Seq(Tokens), NEW part \in Seq(Tokens), NEW left \in Seq(Tokens),
         NEW more \in Seq(Tokens), NEW all, Whole(body, part \o left, more, all)
  PROVE  body \o part \in Seq(Tokens) /\ Whole(body \o part, left, more, all)
<1>1. body \o part \in Seq(Tokens) /\ left \o more \in Seq(Tokens)
  BY ConcatProperties
<1>2. (part \o left) \o more = part \o (left \o more)
  BY Associative, ZenonT(30)
<1>3. PICK tail \in Seq(Tokens) : tail = left \o more
  BY <1>1
<1>4. (body \o part) \o tail = body \o (part \o tail)
  BY Associative, ZenonT(30)
<1> QED BY <1>1, <1>2, <1>3, <1>4, Zenon DEF Whole

LEMMA FeedBodyIdentity ==
  ASSUME ParserOK(r), stream \in Seq(Tokens), cut \in BOOLEAN,
         NEW m \in Messages, Progress(r, stream, cut, m), BodyIdentity
  PROVE  Fed(m)
<1> DEFINE n    == Least(Len(r.buf), r.length - Len(r.body))
           p    == TakeBody(n)
           body == r.body \o SubSeq(r.buf, 1, n)
           buf  == Consume(r.buf, n)
<1>1. /\ r.state = "body_identity" /\ r \in ParserSet /\ feeding
      /\ r.buf \in Seq(Tokens) /\ r.body \in Seq(Tokens)
      /\ Len(r.buf) \in Nat /\ Len(r.body) \in Nat
  BY LenProperties DEF BodyIdentity, At, ParserOK, ParserSet
<1>2. HeadRead(r, m) /\ ~IsChunked(m) /\ r.length = Len(m.body)
  BY <1>1 DEF Progress, AtBody
<1>3. PICK data \in Seq(Tokens) : Ahead(r.buf, stream, cut, data) /\ r.body \o data = m.body
  BY <1>1 DEF Progress, AtBody
<1>4. m.body \in Seq(Tokens) /\ <<>> \in Seq(Tokens)
  BY MessageIs
<1>5. Len(m.body) = Len(r.body) + Len(data) /\ Len(data) \in Nat
  BY <1>1, <1>3, Joined, LenProperties
<1>6. n = Least(Len(r.buf), Len(data))
  BY <1>1, <1>2, <1>5
<1> HIDE DEF n
<1>7. Ahead(r.buf, stream, cut, data \o <<>>)
  BY <1>3, ConcatEmptySeq
<1>8. /\ n \in 0 .. Len(data) /\ n \in 0 .. Len(r.buf)
      /\ From(data, n) \in Seq(Tokens) /\ Len(From(data, n)) = Len(data) - n
      /\ SubSeq(r.buf, 1, n) \in Seq(Tokens) /\ buf \in Seq(Tokens)
      /\ SubSeq(r.buf, 1, n) \o From(data, n) = data
      /\ Ahead(buf, stream, cut, From(data, n) \o <<>>)
  <2>1. PICK none \in Seq(Tokens) : none = <<>>
    BY <1>4
  <2>2. PICK b \in Seq(Tokens) : b = r.buf
    BY <1>1
  <2>3. PICK l : l = n /\ l = Least(Len(b), Len(data))
    BY <1>6, <2>2
  <2>4. Ahead(b, stream, cut, data \o none)
    BY <1>7, <2>1, <2>2, Zenon
  <2>5. /\ l \in 0 .. Len(data) /\ l \in 0 .. Len(b)
        /\ From(data, l) \in Seq(Tokens) /\ Len(From(data, l)) = Len(data) - l
        /\ SubSeq(b, 1, l) \in Seq(Tokens) /\ Consume(b, l) \in Seq(Tokens)
        /\ SubSeq(b, 1, l) \o From(data, l) = data
        /\ Ahead(Consume(b, l), stream, cut, From(data, l) \o none)
    BY <2>3, <2>4, PartTaken
  <2> QED BY <2>1, <2>2, <2>3, <2>5, Zenon
<1>9. PICK left \in Seq(Tokens) :
        left = From(data, n) /\ Len(left) = Len(data) - n /\ left \o <<>> = left
  BY <1>8, ConcatEmptySeq
<1>10. Ahead(buf, stream, cut, left)
  BY <1>8, <1>9, Zenon
<1>11. body \in Seq(Tokens) /\ body \o left = m.body
  <2>1. PICK part \in Seq(Tokens) : part = SubSeq(r.buf, 1, n)
    BY <1>8
  <2>2. PICK none \in Seq(Tokens) : none = <<>>
    BY <1>4
  <2>3. r.body \o part \in Seq(Tokens) /\ Whole(r.body \o part, left, none, m.body)
    <3>1. Whole(r.body, data, none, m.body)
      BY <1>3, <2>2, ConcatEmptySeq DEF Whole
    <3>2. Whole(r.body, part \o left, none, m.body)
      BY <1>8, <1>9, <2>1, <3>1, Zenon
    <3> QED BY <1>1, <3>2, BodyGrows
  <2> QED BY <1>9, <2>1, <2>2, <2>3, Zenon DEF Whole
<1> HIDE DEF body, buf
<1>12. Len(m.body) = Len(body) + Len(left) /\ Len(body) \in Nat /\ Len(left) \in Nat
  BY <1>11, Joined, LenProperties
<1>13. /\ p \in ParserSet /\ p.state = "body_identity" /\ p.code = r.code /\ p.body = body
       /\ p.headers = r.headers /\ p.buf = buf /\ p.length = r.length
  <2>1. p = [r EXCEPT !.body = body, !.buf = buf]
    BY DEF TakeBody, body, buf
  <2> HIDE DEF p
  <2> QED BY <1>1, <1>8, <1>11, <2>1 DEF ParserSet
<1>14. \/ Len(p.body) >= r.length /\ r' = [p EXCEPT !.state = "done"] /\ feeding' = feeding
       \/ Len(p.body) < r.length /\ r' = p /\ feeding' = FALSE
  BY DEF BodyIdentity, Parse, Starve, n
<1> HIDE DEF p
<1>15. CASE Len(p.body) >= r.length /\ r' = [p EXCEPT !.state = "done"] /\ feeding' = feeding
  <2>1. left = <<>>
    BY <1>2, <1>12, <1>13, <1>15, EmptySeq
  <2>2. buf = <<>> /\ stream = <<>>
    BY <1>8, <1>10, <2>1, AheadNone
  <2>3. body = m.body
    BY <1>11, <2>1, ConcatEmptySeq
  <2>4. IsPrefixOf(body, m.body)
    BY <1>4, <1>11, PrefixOf
  <2>5. /\ r'.state = "done" /\ r'.code = r.code /\ r'.body = body
        /\ r'.headers = r.headers /\ r'.buf = buf
    BY <1>13, <1>15 DEF ParserSet
  <2>6. AtEnd(r', stream, cut, m)
    BY <1>2, <2>2, <2>3, <2>4, <2>5 DEF AtEnd, HeadRead, Astray
  <2> QED BY <1>1, <1>15, <2>5, <2>6 DEF Fed, Progress, Parsing
<1>16. CASE Len(p.body) < r.length /\ r' = p /\ feeding' = FALSE
  <2>1. AtBody(r', stream, cut, m)
    BY <1>2, <1>10, <1>11, <1>13, <1>16, Zenon DEF AtBody, HeadRead
  <2>2. ~cut => stream # <<>>
    <3> SUFFICES ASSUME ~cut PROVE stream # <<>>
      OBVIOUS
    <3>1. Ahead(buf, stream, FALSE, left)
      BY <1>10, Zenon DEF Ahead
    <3>2. Len(buf) < Len(left)
      <4>1. Len(left) > 0
        BY <1>2, <1>12, <1>13, <1>16
      <4>2. n = Len(r.buf)
        <5>1. n # Len(data)
          BY <1>5, <1>9, <4>1
        <5>2. n = IF Len(r.buf) < Len(data) THEN Len(r.buf) ELSE Len(data)
          BY <1>6, Zenon DEF Least
        <5> QED BY <5>1, <5>2
      <4>3. Len(buf) = 0
        <5>1. Len(Consume(r.buf, n)) = Len(r.buf) - n
          BY <1>1, <1>8, PartsTyped
        <5> QED BY <1>1, <4>2, <5>1 DEF buf
      <4> QED BY <4>1, <4>3
    <3> QED BY <1>8, <3>1, <3>2, AheadMore
  <2> QED BY <1>13, <1>16, <2>1, <2>2 DEF Fed, Progress
<1> QED BY <1>14, <1>15, <1>16

LEMMA FeedChunkSize ==
  ASSUME ParserOK(r), stream \in Seq(Tokens), cut \in BOOLEAN,
         NEW m \in Messages, Progress(r, stream, cut, m), ChunkSize
  PROVE  Fed(m)
<1> DEFINE pos   == FindCrlf(r.buf)
           size  == SizeOf(LineOf(r.buf, pos))
           buf   == AfterLine(r.buf, pos)
           after == [r EXCEPT !.buf = buf]
<1>1. /\ r.state = "chunk_size" /\ r \in ParserSet /\ r.buf \in Seq(Tokens) /\ feeding
      /\ r.body \in Seq(Tokens)
  BY DEF ChunkSize, At, ParserOK, ParserSet
<1>2. HeadRead(r, m) /\ IsChunked(m)
  BY <1>1 DEF Progress, AtSize
<1>3. PICK k \in 0 .. Len(m.chunks) :
        Ahead(r.buf, stream, cut, ChunksLeft(m, k)) /\ r.body \o BodyLeft(m, k) = m.body
  BY <1>1 DEF Progress, AtSize
<1>4. \A n \in Nat : SizeOf(<<<<"size", n>>>>) = n
  BY DEF SizeOf
<1>5. k = Len(m.chunks) =>
        \/ pos = 0 /\ (~cut => stream # <<>>)
        \/ pos > 0 /\ size = 0 /\ buf \in Seq(Tokens) /\ Ahead(buf, stream, cut, Ending(m))
  <2> SUFFICES ASSUME k = Len(m.chunks)
               PROVE  \/ pos = 0 /\ (~cut => stream # <<>>)
                      \/ /\ pos > 0 /\ size = 0
                         /\ buf \in Seq(Tokens) /\ Ahead(buf, stream, cut, Ending(m))
    OBVIOUS
  <2>1. Ahead(r.buf, stream, cut, Line(<<"size", 0>>) \o Ending(m))
    BY <1>3, ChunksLeftIs DEF LastChunk
  <2>2. PICK t \in Texts : t = <<"size", 0>>
    BY EndingIs
  <2>3. Ending(m) \in Seq(Tokens)
    BY EndingIs
  <2>4. Ahead(r.buf, stream, cut, Line(t) \o Ending(m))
    BY <2>1, <2>2, Zenon
  <2>5. \/ FindCrlf(r.buf) = 0 /\ (~cut => stream # <<>>)
        \/ /\ FindCrlf(r.buf) = 2 /\ LineOf(r.buf, 2) = <<t>>
           /\ AfterLine(r.buf, 2) \in Seq(Tokens)
           /\ Ahead(AfterLine(r.buf, 2), stream, cut, Ending(m))
    BY <1>1, <2>3, <2>4, LineOrMore
  <2> QED BY <1>4, <2>2, <2>5
<1>6. k < Len(m.chunks) =>
        \/ pos = 0 /\ (~cut => stream # <<>>)
        \/ /\ pos > 0 /\ size = Len(m.chunks[k + 1]) /\ size > 0
           /\ buf \in Seq(Tokens)
           /\ Ahead(buf, stream, cut, m.chunks[k + 1] \o (Eol \o ChunksLeft(m, k + 1)))
  <2> SUFFICES ASSUME k < Len(m.chunks)
               PROVE  \/ pos = 0 /\ (~cut => stream # <<>>)
                      \/ /\ pos > 0 /\ size = Len(m.chunks[k + 1]) /\ size > 0
                         /\ buf \in Seq(Tokens)
                         /\ Ahead(buf, stream, cut,
                                  m.chunks[k + 1] \o (Eol \o ChunksLeft(m, k + 1)))
    OBVIOUS
  <2>1. k + 1 \in 0 .. Len(m.chunks) /\ k + 1 \in 1 .. Len(m.chunks)
    BY MessageIs, LenProperties
  <2>2. m.chunks[k + 1] \in Seq(Tokens) /\ m.chunks[k + 1] # <<>>
    BY <2>1, MessageIs
  <2>3. Len(m.chunks[k + 1]) \in Nat /\ Len(m.chunks[k + 1]) > 0
    BY <2>2, EmptySeq, LenProperties
  <2>4. PICK t \in Texts : t = <<"size", Len(m.chunks[k + 1])>>
    BY <2>3 DEF Texts, Kinds
  <2>5. PICK more \in Seq(Tokens) : more = m.chunks[k + 1] \o (Eol \o ChunksLeft(m, k + 1))
    <3>1. Eol \o ChunksLeft(m, k + 1) \in Seq(Tokens)
      BY <2>1, ChunksLeftIs, LineIs, ConcatProperties
    <3> QED BY <2>2, <3>1, ConcatProperties
  <2>6. ChunksLeft(m, k) = Line(<<"size", Len(m.chunks[k + 1])>>)
                             \o (m.chunks[k + 1] \o (Eol \o ChunksLeft(m, k + 1)))
    BY ChunksLeftIs
  <2>7. Ahead(r.buf, stream, cut, Line(t) \o more)
    BY <1>3, <2>4, <2>5, <2>6, Zenon
  <2>8. \/ FindCrlf(r.buf) = 0 /\ (~cut => stream # <<>>)
        \/ /\ FindCrlf(r.buf) = 2 /\ LineOf(r.buf, 2) = <<t>>
           /\ AfterLine(r.buf, 2) \in Seq(Tokens)
           /\ Ahead(AfterLine(r.buf, 2), stream, cut, more)
    BY <1>1, <2>7, LineOrMore
  <2>9. SizeOf(<<t>>) = Len(m.chunks[k + 1])
    BY <1>4, <2>3, <2>4
  <2>10. CASE FindCrlf(r.buf) = 0
    BY <2>8, <2>10
  <2>11. CASE FindCrlf(r.buf) # 0
    <3>1. /\ pos = 2 /\ LineOf(r.buf, pos) = <<t>>
          /\ buf \in Seq(Tokens) /\ Ahead(buf, stream, cut, more)
      BY <2>8, <2>11
    <3>2. size = Len(m.chunks[k + 1])
      BY <2>9, <3>1
    <3> HIDE DEF pos, size, buf
    <3>3. Ahead(buf, stream, cut, m.chunks[k + 1] \o (Eol \o ChunksLeft(m, k + 1)))
      BY <2>5, <3>1, Zenon
    <3> QED BY <2>3, <3>1, <3>2, <3>3
  <2> QED BY <2>10, <2>11
<1>7. k = Len(m.chunks) \/ k < Len(m.chunks)
  BY MessageIs, LenProperties
<1>8. pos # 0 => Shrinks(r.buf, buf)
  BY <1>1, LineShrinks
<1> HIDE DEF pos, size, buf
<1>9. CASE pos = 0 /\ r' = r /\ feeding' = FALSE
  BY <1>5, <1>6, <1>7, <1>9 DEF Fed
<1>10. CASE /\ pos > 0 /\ size = 0 /\ feeding' = feeding
            /\ r' = [after EXCEPT !.state = "chunk_trailer"]
  <2>1. k = Len(m.chunks) /\ buf \in Seq(Tokens) /\ Ahead(buf, stream, cut, Ending(m))
    BY <1>5, <1>6, <1>7, <1>10
  <2>2. /\ r'.state = "chunk_trailer" /\ r'.code = r.code /\ r'.body = r.body
        /\ r'.headers = r.headers /\ r'.buf = buf
    BY <1>1, <1>10, <2>1 DEF ParserSet
  <2>3. r.body = m.body
    <3>1. BodyLeft(m, k) = <<>>
      BY <2>1, BodyLeftIs
    <3> QED BY <1>1, <1>3, <3>1, ConcatEmptySeq
  <2>4. TrailerLeft(m, 0) = Ending(m) /\ 0 \in 0 .. Len(m.trailer)
    <3>1. From(m.trailer, 0) = m.trailer
      BY MessageIs, SubSeqFull DEF From
    <3> QED BY <3>1, MessageIs, LenProperties DEF TrailerLeft, Ending
  <2>5. AtTrailer(r', stream, cut, m)
    BY <1>2, <2>1, <2>2, <2>3, <2>4, Zenon DEF AtTrailer, HeadRead
  <2>6. r'.buf = buf /\ pos # 0
    BY <1>10, <2>2
  <2> QED BY <1>1, <1>8, <1>10, <2>2, <2>5, <2>6 DEF Fed, Progress
<1>11. CASE /\ pos > 0 /\ size > 0 /\ feeding' = feeding
            /\ r' = [after EXCEPT !.remaining = size, !.state = "chunk_data"]
  <2>1. /\ k < Len(m.chunks) /\ size = Len(m.chunks[k + 1])
        /\ buf \in Seq(Tokens)
        /\ Ahead(buf, stream, cut, m.chunks[k + 1] \o (Eol \o ChunksLeft(m, k + 1)))
    BY <1>5, <1>6, <1>7, <1>11
  <2>2. k + 1 \in 0 .. Len(m.chunks) /\ m.chunks[k + 1] \in Seq(Tokens)
    <3>1. k + 1 \in 0 .. Len(m.chunks) /\ k + 1 \in 1 .. Len(m.chunks)
      BY <2>1, MessageIs, LenProperties
    <3> QED BY <3>1, MessageIs
  <2>3. /\ r'.state = "chunk_data" /\ r'.code = r.code /\ r'.body = r.body
        /\ r'.headers = r.headers /\ r'.buf = buf /\ r'.remaining = size
    BY <1>1, <1>11, <2>1 DEF ParserSet
  <2>4. r.body \o (m.chunks[k + 1] \o BodyLeft(m, k + 1)) = m.body
    <3>1. BodyLeft(m, k) = m.chunks[k + 1] \o BodyLeft(m, k + 1)
      BY <2>1, BodyLeftIs
    <3> QED BY <1>3, <3>1, Zenon
  <2>5. AtData(r', stream, cut, m)
    BY <1>2, <2>1, <2>2, <2>3, <2>4, Zenon DEF AtData, HeadRead, Whole
  <2>6. r'.buf = buf /\ pos # 0
    BY <1>11, <2>3
  <2> QED BY <1>1, <1>8, <1>11, <2>3, <2>5, <2>6 DEF Fed, Progress
<1> HIDE DEF after
<1>12. \/ pos = 0 /\ r' = r /\ feeding' = FALSE
       \/ /\ pos > 0 /\ size = 0 /\ feeding' = feeding
          /\ r' = [after EXCEPT !.state = "chunk_trailer"]
       \/ /\ pos > 0 /\ size > 0 /\ feeding' = feeding
          /\ r' = [after EXCEPT !.remaining = size, !.state = "chunk_data"]
  BY DEF ChunkSize, Starve, Parse, pos, size, buf, after
<1> QED BY <1>9, <1>10, <1>11, <1>12

LEMMA ConsumeIs ==
  ASSUME NEW s \in Seq(Tokens), NEW n \in 0 .. Len(s)
  PROVE  /\ Consume(s, n) \in Seq(Tokens) /\ Len(Consume(s, n)) = Len(s) - n
         /\ \A i \in 1 .. Len(s) - n : Consume(s, n)[i] = s[n + i]
BY LenProperties DEF Consume

LEMMA ConsumeTwice ==
  ASSUME NEW s \in Seq(Tokens), NEW n \in Nat, NEW k \in Nat, n + k <= Len(s)
  PROVE  Consume(Consume(s, n), k) = Consume(s, n + k)
<1>1. Len(s) \in Nat /\ n \in 0 .. Len(s) /\ n + k \in 0 .. Len(s)
  BY LenProperties
<1>2. PICK t \in Seq(Tokens) : /\ t = Consume(s, n) /\ Len(t) = Len(s) - n
                              /\ \A i \in 1 .. Len(s) - n : t[i] = s[n + i]
  BY <1>1, ConsumeIs
<1>3. PICK u \in Seq(Tokens) : /\ u = Consume(s, n + k) /\ Len(u) = Len(s) - (n + k)
                              /\ \A i \in 1 .. Len(s) - (n + k) : u[i] = s[(n + k) + i]
  BY <1>1, ConsumeIs
<1>4. k \in 0 .. Len(t)
  BY <1>1, <1>2
<1>5. PICK v \in Seq(Tokens) : /\ v = Consume(t, k) /\ Len(v) = Len(t) - k
                              /\ \A i \in 1 .. Len(t) - k : v[i] = t[k + i]
  BY <1>4, ConsumeIs
<1>6. Len(v) = Len(u)
  <2>1. Len(v) = Len(t) - k
    BY <1>5
  <2>2. Len(t) = Len(s) - n
    BY <1>2
  <2>3. Len(u) = Len(s) - (n + k)
    BY <1>3
  <2> QED BY <1>1, <2>1, <2>2, <2>3
<1>7. \A i \in 1 .. Len(v) : v[i] = u[i]
  <2> SUFFICES ASSUME NEW i \in 1 .. Len(v) PROVE v[i] = u[i]
    OBVIOUS
  <2>1. k + i \in 1 .. Len(s) - n /\ i \in 1 .. Len(t) - k /\ i \in 1 .. Len(s) - (n + k)
          /\ n + (k + i) = (n + k) + i
    BY <1>1, <1>2, <1>5
  <2> QED BY <1>2, <1>3, <1>5, <2>1
<1>8. v = u
  BY <1>6, <1>7, SeqEqual
<1> QED BY <1>2, <1>3, <1>5, <1>8

LEMMA FeedChunkData ==
  ASSUME ParserOK(r), stream \in Seq(Tokens), cut \in BOOLEAN,
         NEW m \in Messages, Progress(r, stream, cut, m), ChunkData
  PROVE  Fed(m)
<1> DEFINE avail == Least(Len(r.buf), r.remaining)
           took  == TakeBody(avail)
           t     == [took EXCEPT !.remaining = @ - avail]
           q     == ChunkEnd(t)
<1>1. /\ r.state = "chunk_data" /\ r \in ParserSet /\ feeding
      /\ r.buf \in Seq(Tokens) /\ r.body \in Seq(Tokens) /\ r.remaining \in Nat
  BY DEF ChunkData, At, ParserOK, ParserSet
<1>2. HeadRead(r, m) /\ IsChunked(m)
  BY <1>1 DEF Progress, AtData
<1>3. PICK k \in 0 .. Len(m.chunks), data \in Seq(Tokens) :
        /\ Len(data) = r.remaining
        /\ Ahead(r.buf, stream, cut, data \o (Eol \o ChunksLeft(m, k)))
        /\ Whole(r.body, data, BodyLeft(m, k), m.body)
  BY <1>1 DEF Progress, AtData
<1>4. PICK rest \in Seq(Tokens) : rest = ChunksLeft(m, k)
  BY ChunksLeftIs
<1>5. PICK more \in Seq(Tokens) : more = Eol \o rest /\ Len(more) >= 2
  <2>1. Eol \in Seq(Tokens) /\ Len(Eol) = 2
    BY LineIs
  <2> QED BY <2>1, LongEnough
<1>6. PICK b \in Seq(Tokens) : b = r.buf
  BY <1>1
<1>7. PICK n : n = avail /\ n = Least(Len(b), Len(data))
  BY <1>3, <1>6
<1>8. Ahead(b, stream, cut, data \o more)
  BY <1>3, <1>4, <1>5, <1>6, Zenon
<1>9. /\ n \in 0 .. Len(data) /\ n \in 0 .. Len(b)
      /\ From(data, n) \in Seq(Tokens) /\ Len(From(data, n)) = Len(data) - n
      /\ SubSeq(b, 1, n) \in Seq(Tokens) /\ Consume(b, n) \in Seq(Tokens)
      /\ SubSeq(b, 1, n) \o From(data, n) = data
      /\ Ahead(Consume(b, n), stream, cut, From(data, n) \o more)
  BY <1>7, <1>8, PartTaken
<1>10. PICK left \in Seq(Tokens) : left = From(data, n) /\ Len(left) = Len(data) - n
  BY <1>9
<1>11. PICK buf \in Seq(Tokens) : buf = Consume(b, n) /\ Len(buf) = Len(b) - n
  BY <1>9, PartsTyped
<1>12. Ahead(buf, stream, cut, left \o more)
  BY <1>9, <1>10, <1>11, Zenon
<1>13. PICK part \in Seq(Tokens) : part = SubSeq(b, 1, n) /\ data = part \o left
  BY <1>9, <1>10, Zenon
<1>14. PICK body \in Seq(Tokens) :
         body = r.body \o part /\ Whole(body, left, BodyLeft(m, k), m.body)
  <2>1. Whole(r.body, part \o left, BodyLeft(m, k), m.body)
    BY <1>3, <1>13, Zenon
  <2>2. PICK x \in Seq(Tokens) : x = BodyLeft(m, k)
    BY BodyLeftIs
  <2>3. PICK y \in Seq(Tokens) : y = r.body
    BY <1>1
  <2>4. Whole(y, part \o left, x, m.body)
    BY <2>1, <2>2, <2>3, Zenon
  <2>5. y \o part \in Seq(Tokens) /\ Whole(y \o part, left, x, m.body)
    BY <2>4, BodyGrows
  <2> QED BY <2>2, <2>3, <2>5, Zenon
<1>15. /\ t \in ParserSet /\ t.state = "chunk_data" /\ t.code = r.code /\ t.body = body
       /\ t.headers = r.headers /\ t.buf = buf /\ t.remaining = Len(left)
  <2>1. took = [r EXCEPT !.body = body, !.buf = buf]
    BY <1>6, <1>7, <1>11, <1>13, <1>14, Zenon DEF TakeBody
  <2>2. t = [took EXCEPT !.remaining = took.remaining - n]
    BY <1>7
  <2> HIDE DEF took, t
  <2>3. r.remaining - n = Len(left) /\ Len(left) \in Nat
    BY <1>3, <1>10, LenProperties
  <2> QED BY <1>1, <2>1, <2>2, <2>3 DEF ParserSet
<1>16. \/ q.state = "chunk_size" /\ r' = q /\ feeding' = feeding
       \/ q.state = "chunk_data" /\ r' = q /\ feeding' = FALSE
  BY DEF ChunkData, Parse, Starve
<1>17. Len(left) \in Nat /\ Len(buf) \in Nat /\ Len(b) \in Nat /\ Len(data) \in Nat
  BY LenProperties
<1> HIDE DEF t, avail
<1>18. CASE t.remaining = 0 /\ Len(t.buf) >= 2
  <2>1. q = [t EXCEPT !.buf = Consume(t.buf, 2), !.state = "chunk_size"]
    BY <1>18 DEF ChunkEnd
  <2>2. left = <<>>
    BY <1>15, <1>18, EmptySeq
  <2>3. Ahead(buf, stream, cut, Eol \o rest)
    BY <1>5, <1>12, <2>2, ConcatEmptySeq
  <2>4. Len(Eol) = 2 /\ Eol \in Seq(Tokens) /\ Eol[2] = LF
    BY LineIs
  <2>5. /\ SubSeq(buf, 1, Len(Eol)) = Eol
        /\ Consume(buf, Len(Eol)) \in Seq(Tokens)
        /\ Ahead(Consume(buf, Len(Eol)), stream, cut, rest)
    <3>1. Len(Eol) <= Len(buf)
      BY <1>15, <1>18, <2>4
    <3> QED BY <2>3, <2>4, <3>1, HeadTaken
  <2>6. /\ Consume(buf, 2) \in Seq(Tokens) /\ Ahead(Consume(buf, 2), stream, cut, rest)
        /\ SubSeq(buf, 1, 2) = Eol
    BY <2>4, <2>5
  <2> HIDE DEF q
  <2>7. /\ r'.state = "chunk_size" /\ r'.code = r.code /\ r'.body = body
        /\ r'.headers = r.headers /\ r'.buf = Consume(buf, 2)
    BY <1>15, <1>16, <2>1, <2>6 DEF ParserSet
  <2>8. body \o BodyLeft(m, k) = m.body
    <3>1. BodyLeft(m, k) \in Seq(Tokens)
      BY BodyLeftIs
    <3>2. <<>> \o BodyLeft(m, k) = BodyLeft(m, k)
      BY <3>1, ConcatEmptySeq
    <3> QED BY <1>14, <2>2, <3>2, Zenon DEF Whole
  <2>9. AtSize(r', stream, cut, m)
    BY <1>2, <1>4, <2>6, <2>7, <2>8, Zenon DEF AtSize, HeadRead
  <2>10. Shrinks(r.buf, r'.buf)
    <3>1. n + 2 \in 1 .. Len(b) /\ Len(buf) >= 2 /\ n \in Nat
      BY <1>9, <1>11, <1>15, <1>17, <1>18
    <3>2. buf[2] = LF
      BY <2>4, <2>6, <3>1
    <3>3. buf[2] = b[n + 2]
      BY <1>11, <3>1 DEF Consume
    <3>4. Consume(buf, 2) = Consume(b, n + 2)
      <4>1. n + 2 <= Len(b) /\ 2 \in Nat
        BY <3>1
      <4> QED BY <1>11, <3>1, <4>1, ConsumeTwice
    <3> QED BY <1>6, <2>7, <3>1, <3>2, <3>3, <3>4 DEF Shrinks
  <2>11. feeding'
    BY <1>1, <1>15, <1>16, <2>7
  <2> QED BY <2>7, <2>9, <2>10, <2>11 DEF Fed, Progress
<1>19. CASE ~(t.remaining = 0 /\ Len(t.buf) >= 2)
  <2>1. r' = t /\ feeding' = FALSE
    BY <1>15, <1>16, <1>19 DEF ChunkEnd
  <2>2. AtData(r', stream, cut, m)
    <3>1. Ahead(buf, stream, cut, left \o (Eol \o ChunksLeft(m, k)))
      BY <1>4, <1>5, <1>12, Zenon
    <3>2. Ahead(r'.buf, stream, cut, left \o (Eol \o ChunksLeft(m, k)))
            /\ Len(left) = r'.remaining /\ Whole(r'.body, left, BodyLeft(m, k), m.body)
            /\ r'.code = r.code /\ r'.headers = r.headers
      BY <1>14, <1>15, <2>1, <3>1, Zenon
    <3> QED BY <1>2, <3>2, Zenon DEF AtData, HeadRead
  <2>3. ~cut => stream # <<>>
    <3> SUFFICES ASSUME ~cut PROVE stream # <<>>
      OBVIOUS
    <3>1. PICK full \in Seq(Tokens) : full = left \o more /\ Len(full) = Len(left) + Len(more)
      BY Joined
    <3>2. Ahead(buf, stream, FALSE, full)
      BY <1>12, <3>1, Zenon DEF Ahead
    <3>3. Len(buf) < Len(full)
      <4>1. CASE Len(left) = 0
        <5>1. Len(buf) < 2
          BY <1>15, <1>17, <1>19, <4>1
        <5> QED BY <1>5, <1>17, <3>1, <4>1, <5>1, LenProperties
      <4>2. CASE Len(left) # 0
        <5>1. n # Len(data)
          BY <1>10, <1>17, <4>2
        <5>2. n = IF Len(b) < Len(data) THEN Len(b) ELSE Len(data)
          BY <1>7, Zenon DEF Least
        <5>3. Len(buf) = 0
          BY <1>11, <1>17, <5>1, <5>2
        <5> QED BY <1>17, <3>1, <4>2, <5>3, LenProperties
      <4> QED BY <4>1, <4>2
    <3> QED BY <3>2, <3>3, AheadMore
  <2>4. r'.state = "chunk_data"
    BY <1>15, <2>1
  <2> QED BY <2>1, <2>2, <2>3, <2>4 DEF Fed, Progress
<1> QED BY <1>18, <1>19

LEMMA TextsOfFields == Fields \subseteq Texts /\ Fields \subseteq Tokens
BY DEF Fields, Texts, Tokens, Kinds

\* What is left of a trailer does not begin with a status line, nor is it longer
\* than all of it.
LEMMA TrailerLeftFits ==
  ASSUME NEW m \in Messages, NEW k \in 0 .. Len(m.trailer)
  PROVE  /\ TrailerLeft(m, k) # <<>> /\ TrailerLeft(m, k)[1][1] # "status"
         /\ Len(TrailerLeft(m, k)) \in 1 .. Len(Ending(m))
<1>1. m.trailer \in Seq(Fields) /\ Len(m.trailer) \in Nat
  BY MessageIs, LenProperties
<1>2. Eol \in Seq(Tokens) /\ Len(Eol) = 2 /\ Eol[1] = CR /\ Eol \o <<>> = Eol
  BY LineIs, ConcatEmptySeq
<1> DEFINE Left(j) == TrailerLeft(m, j)
           all     == Len(m.trailer)
<1>3. \A j \in 0 .. all : Left(j) \in Seq(Tokens)
  BY TrailerLeftIs
<1>4. Left(all) = Eol
  BY <1>1, <1>2, TrailerLeftIs
<1>5. ASSUME NEW j \in 0 .. all, j < all
      PROVE  /\ j + 1 \in 0 .. all
             /\ Len(Left(j)) = 3 + Len(Left(j + 1)) /\ Left(j)[1] \in Fields
  <2>1. j + 1 \in 0 .. all /\ j + 1 \in 1 .. all
    BY <1>1, <1>5
  <2>2. PICK t \in Fields : t = m.trailer[j + 1]
    BY <1>1, <2>1, ElementOfSeq
  <2>3. Line(t) \in Seq(Tokens) /\ Len(Line(t)) = 3 /\ Line(t)[1] = t
    BY TextsOfFields, LineIs
  <2>4. PICK a \in Seq(Tokens) : a = Line(t)
    BY <2>3
  <2>5. PICK z \in Seq(Tokens) : z = Left(j + 1)
    BY <1>3, <2>1
  <2>6. Left(j) = a \o z
    <3>1. Left(j) = Line(m.trailer[j + 1]) \o Left(j + 1)
      BY <1>5, TrailerLeftIs
    <3> QED BY <2>2, <2>4, <2>5, <3>1, Zenon
  <2>7. /\ Len(a \o z) = Len(a) + Len(z)
        /\ \A i \in 1 .. Len(a) + Len(z) : (a \o z)[i] = IF i <= Len(a) THEN a[i] ELSE z[i - Len(a)]
    BY ConcatProperties
  <2>8. 1 \in 1 .. Len(a) + Len(z) /\ 1 <= Len(a)
    <3>1. Len(z) \in Nat
      BY LenProperties
    <3>2. Len(a) = 3
      BY <2>3, <2>4
    <3> QED BY <3>1, <3>2
  <2>9. (a \o z)[1] = a[1]
    BY <2>7, <2>8
  <2> HIDE DEF Left
  <2> QED BY <2>1, <2>3, <2>4, <2>5, <2>6, <2>7, <2>9
<1> HIDE DEF Left
<1>6. Len(Left(k)) >= 1
  <2>1. CASE k = all
    BY <1>2, <1>4, <2>1
  <2>2. CASE k # all
    <3>1. k < all
      BY <1>1, <2>2
    <3>2. Len(Left(k)) = 3 + Len(Left(k + 1)) /\ Len(Left(k + 1)) \in Nat
      BY <1>3, <1>5, <3>1, LenProperties
    <3> QED BY <3>2
  <2> QED BY <2>1, <2>2
<1>7. Left(k) # <<>> /\ Left(k)[1][1] # "status"
  <2>1. CASE k = all
    BY <1>2, <1>4, <2>1, EmptySeq DEF CR
  <2>2. CASE k # all
    <3>1. Left(k)[1] \in Fields
      BY <1>1, <1>5, <2>2
    <3>2. Left(k)[1][1] # "status"
      BY <3>1 DEF Fields
    <3> QED BY <1>6, <3>2, EmptySeq
  <2> QED BY <2>1, <2>2
<1>8. Left(0) = Ending(m)
  <2>1. From(m.trailer, 0) = m.trailer
    BY MessageIs, SubSeqFull DEF From
  <2> QED BY <2>1 DEF Left, TrailerLeft, Ending
<1>9. Len(Left(k)) <= Len(Ending(m))
  <2> DEFINE Fit == {j \in 0 .. k : Len(Left(j)) <= Len(Left(0))}
  <2>1. 0 \in Fit /\ Fit \in SUBSET (0 .. k) /\ k \in Nat
    <3>1. Len(Left(0)) \in Nat
      BY <1>1, <1>3, LenProperties
    <3> QED BY <1>1, <3>1
  <2>2. ASSUME NEW j \in Fit, j < k PROVE j + 1 \in Fit
    <3>1. j \in 0 .. all /\ j < all /\ j + 1 \in 0 .. k /\ j + 1 \in 0 .. all
      BY <1>1, <2>2
    <3>2. Len(Left(j)) = 3 + Len(Left(j + 1)) /\ Len(Left(j)) <= Len(Left(0))
      BY <1>5, <2>2, <3>1
    <3>3. Len(Left(j + 1)) \in Nat /\ Len(Left(j)) \in Nat /\ Len(Left(0)) \in Nat
      BY <1>1, <1>3, <3>1, LenProperties
    <3> QED BY <3>1, <3>2, <3>3
  <2>3. k \in Fit
    <3> HIDE DEF Fit
    <3> QED BY <2>1, <2>2, CountUp
  <2> QED BY <1>8, <2>3
<1>10. Len(Left(k)) \in Nat /\ Len(Ending(m)) \in Nat
  BY <1>3, EndingIs, LenProperties
<1> QED BY <1>6, <1>7, <1>9, <1>10 DEF Left

LEMMA SentFirst ==
  ASSUME NEW sent \in Seq(Tokens), NEW short, NEW full \in Seq(Tokens),
         Ahead(<<>>, sent, short, full), sent # <<>>
  PROVE  sent[1] = full[1]
<1>1. PICK gone \in Seq(Tokens) : <<>> \o (sent \o gone) = full
  BY DEF Ahead
<1>2. PICK z \in Seq(Tokens) : z = sent \o gone
  BY ConcatProperties
<1>3. z = full
  BY <1>1, <1>2, ConcatEmptySeq
<1>4. \A i \in 1 .. Len(sent) + Len(gone) :
        z[i] = IF i <= Len(sent) THEN sent[i] ELSE gone[i - Len(sent)]
  BY <1>2, ConcatProperties
<1>5. 1 \in 1 .. Len(sent) + Len(gone) /\ 1 <= Len(sent)
  <2>1. Len(sent) \in Nat /\ Len(gone) \in Nat /\ Len(sent) # 0
    BY LenProperties, EmptySeq
  <2> QED BY <2>1
<1> QED BY <1>3, <1>4, <1>5

LEMMA FeedChunkTrailer ==
  ASSUME ParserOK(r), stream \in Seq(Tokens), cut \in BOOLEAN,
         NEW m \in Messages, Progress(r, stream, cut, m), MidLine(r, stream, cut, m),
         ChunkTrailer
  PROVE  Fed(m)
<1> DEFINE pos == FindCrlf(r.buf)
<1>1. /\ r.state = "chunk_trailer" /\ r \in ParserSet /\ feeding
      /\ r.buf \in Seq(Tokens) /\ r.body \in Seq(Tokens)
  BY DEF ChunkTrailer, At, ParserOK, ParserSet
<1>2. HeadRead(r, m) /\ IsChunked(m) /\ r.body = m.body
  BY <1>1 DEF Progress, AtTrailer
<1>3. PICK k \in 0 .. Len(m.trailer) : Ahead(r.buf, stream, cut, TrailerLeft(m, k))
  BY <1>1 DEF Progress, AtTrailer
<1>4. PICK left \in Seq(Tokens) : left = TrailerLeft(m, k)
  BY TrailerLeftIs
<1>5. /\ Ahead(r.buf, stream, cut, left) /\ left # <<>> /\ left[1][1] # "status"
      /\ Len(left) \in 1 .. Len(Ending(m))
  BY <1>3, <1>4, TrailerLeftFits
<1>6. pos # 0 => pos \in Nat /\ Shrinks(r.buf, AfterLine(r.buf, pos))
  BY <1>1, CrlfIs, LineShrinks
<1>7. IsPrefixOf(m.body, m.body)
  <2>1. m.body \in Seq(Tokens) /\ <<>> \in Seq(Tokens) /\ m.body \o <<>> = m.body
    BY MessageIs, ConcatEmptySeq
  <2> QED BY <2>1, PrefixOf, Zenon
<1>8. \/ pos = 0 /\ (~cut => stream # <<>>)
      \/ /\ pos = 1 /\ AfterLine(r.buf, pos) = <<>> /\ stream = <<>>
      \/ /\ pos = 2 /\ k + 1 \in 0 .. Len(m.trailer)
         /\ AfterLine(r.buf, pos) \in Seq(Tokens)
         /\ Ahead(AfterLine(r.buf, pos), stream, cut, TrailerLeft(m, k + 1))
  <2>1. m.trailer \in Seq(Fields) /\ Len(m.trailer) \in Nat
    BY MessageIs, LenProperties
  <2>2. CASE k = Len(m.trailer)
    <3>1. left = Eol \o <<>> /\ <<>> \in Seq(Tokens)
      BY <1>4, <2>2, TrailerLeftIs
    <3>2. Ahead(r.buf, stream, cut, Eol \o <<>>)
      BY <1>5, <3>1, Zenon
    <3>3. \/ FindCrlf(r.buf) = 0 /\ (~cut => stream # <<>>)
          \/ /\ FindCrlf(r.buf) = 1
             /\ AfterLine(r.buf, 1) \in Seq(Tokens)
             /\ Ahead(AfterLine(r.buf, 1), stream, cut, <<>>)
      BY <1>1, <3>1, <3>2, EmptyOrMore
    <3> QED BY <3>3, AheadNone
  <2>3. CASE k # Len(m.trailer)
    <3>1. k < Len(m.trailer) /\ k + 1 \in 0 .. Len(m.trailer) /\ k + 1 \in 1 .. Len(m.trailer)
      BY <2>1, <2>3
    <3>2. PICK t \in Texts : t = m.trailer[k + 1]
      <4>1. m.trailer[k + 1] \in Fields
        BY <2>1, <3>1, ElementOfSeq
      <4> QED BY <4>1, TextsOfFields
    <3>3. PICK more \in Seq(Tokens) : more = TrailerLeft(m, k + 1)
      BY <3>1, TrailerLeftIs
    <3>4. left = Line(t) \o more
      <4>1. left = Line(m.trailer[k + 1]) \o TrailerLeft(m, k + 1)
        BY <1>4, <3>1, TrailerLeftIs
      <4> QED BY <3>2, <3>3, <4>1, Zenon
    <3>5. Ahead(r.buf, stream, cut, Line(t) \o more)
      BY <1>5, <3>4, Zenon
    <3>6. \/ FindCrlf(r.buf) = 0 /\ (~cut => stream # <<>>)
          \/ /\ FindCrlf(r.buf) = 2 /\ LineOf(r.buf, 2) = <<t>>
             /\ AfterLine(r.buf, 2) \in Seq(Tokens)
             /\ Ahead(AfterLine(r.buf, 2), stream, cut, more)
      BY <1>1, <3>5, LineOrMore
    <3> QED BY <3>1, <3>3, <3>6
  <2> QED BY <2>2, <2>3
<1>9. CASE pos = 0 /\ r.buf = <<>> /\ r' = [r EXCEPT !.state = "done"]
  <2>1. cut
    <3> SUFFICES ASSUME ~cut PROVE FALSE
      OBVIOUS
    <3>1. PICK b \in Seq(Tokens) : b = r.buf /\ b = <<>>
      BY <1>1, <1>9
    <3>2. Ahead(b, stream, FALSE, left)
      <4>1. cut = FALSE
        OBVIOUS
      <4> QED BY <1>5, <3>1, <4>1, Zenon
    <3>3. b \o stream = left
      BY <3>2, AheadMore
    <3>4. stream = left
      BY <3>1, <3>3, ConcatEmptySeq
    <3>5. m.ok /\ Parsing(r)
      BY <1>1, <1>2 DEF HeadRead, Parsing
    <3> QED BY <1>2, <1>5, <1>9, <3>4, <3>5 DEF MidLine
  <2>2. Astray(stream)
    <3>1. Ahead(<<>>, stream, cut, left)
      <4>1. r.buf = <<>>
        BY <1>9
      <4> QED BY <1>5, <4>1, Zenon
    <3>2. stream # <<>> => stream[1] = left[1]
      BY <3>1, SentFirst
    <3> QED BY <1>5, <3>2 DEF Astray
  <2> HIDE DEF pos
  <2>3. /\ r'.state = "done" /\ r'.code = r.code /\ r'.headers = r.headers
        /\ r'.body = r.body
    BY <1>1, <1>9 DEF ParserSet
  <2>4. AtEnd(r', stream, cut, m)
    BY <1>2, <1>7, <2>1, <2>2, <2>3 DEF AtEnd, HeadRead
  <2> QED BY <2>1, <2>3, <2>4 DEF Fed, Progress, Parsing
<1>10. CASE pos = 0 /\ r' = r /\ feeding' = FALSE
  <2>1. ~cut => stream # <<>>
    BY <1>8, <1>10
  <2> QED BY <1>10, <2>1 DEF Fed
<1>11. CASE /\ pos > 0 /\ TrailerLine(pos) /\ feeding' = feeding
            /\ r' = [r EXCEPT !.buf = AfterLine(r.buf, pos), !.state = "done"]
  <2>1. pos = 1 /\ AfterLine(r.buf, pos) = <<>> /\ stream = <<>>
    BY <1>8, <1>11 DEF TrailerLine
  <2> HIDE DEF pos
  <2>2. /\ r'.state = "done" /\ r'.code = r.code /\ r'.headers = r.headers
        /\ r'.body = r.body /\ r'.buf = <<>>
    BY <1>1, <1>11, <2>1 DEF ParserSet
  <2>3. AtEnd(r', stream, cut, m)
    BY <1>2, <1>7, <2>1, <2>2 DEF AtEnd, HeadRead, Astray
  <2> QED BY <1>1, <1>11, <2>2, <2>3 DEF Fed, Progress, Parsing
<1>12. CASE /\ pos > 0 /\ ~TrailerLine(pos) /\ feeding' = feeding
            /\ r' = [r EXCEPT !.buf = AfterLine(r.buf, pos)]
  <2>1. /\ pos = 2 /\ k + 1 \in 0 .. Len(m.trailer)
        /\ AfterLine(r.buf, pos) \in Seq(Tokens)
        /\ Ahead(AfterLine(r.buf, pos), stream, cut, TrailerLeft(m, k + 1))
    BY <1>8, <1>12 DEF TrailerLine
  <2>2. Shrinks(r.buf, AfterLine(r.buf, pos))
    BY <1>6, <2>1
  <2> HIDE DEF pos
  <2>3. /\ r'.state = "chunk_trailer" /\ r'.code = r.code /\ r'.headers = r.headers
        /\ r'.body = r.body /\ r'.buf = AfterLine(r.buf, pos)
    BY <1>1, <1>12 DEF ParserSet
  <2>4. AtTrailer(r', stream, cut, m)
    BY <1>2, <2>1, <2>3 DEF AtTrailer, HeadRead
  <2> QED BY <1>1, <1>12, <2>2, <2>3, <2>4 DEF Fed, Progress
<1> QED BY <1>9, <1>10, <1>11, <1>12 DEF ChunkTrailer, Starve, Parse

LEMMA FeedFed ==
  ASSUME ParserOK(r), stream \in Seq(Tokens), cut \in BOOLEAN,
         NEW m \in Messages, m.framed, Progress(r, stream, cut, m),
         MidLine(r, stream, cut, m), FeedNext
  PROVE  /\ Progress(r', stream, cut, m)
         /\ feeding' => MidLine(r', stream, cut, m)
         /\ ~feeding' /\ ~cut => stream # <<>>
<1>1. Fed(m)
  BY FeedStatusLine, FeedHeaderLine, FeedBodyIdentity, FeedChunkSize, FeedChunkData,
     FeedChunkTrailer DEF FeedNext
<1>2. ASSUME feeding' PROVE MidLine(r', stream, cut, m)
  <2>1. CASE Parsing(r')
    <3>1. Shrinks(r.buf, r'.buf)
      BY <1>1, <1>2, <2>1 DEF Fed
    <3>2. Parsing(r) /\ r.buf \in Seq(Tokens)
      BY DEF FeedNext, StatusLine, HeaderLine, BodyIdentity, ChunkSize, ChunkData,
             ChunkTrailer, At, Parsing, ParserOK, ParserSet
    <3> QED BY <3>1, <3>2, MidLineKept
  <2>2. CASE ~Parsing(r')
    BY <2>2 DEF MidLine
  <2> QED BY <2>1, <2>2
<1> QED BY <1>1, <1>2 DEF Fed

-----------------------------------------------------------------------------
(* The client and the network *)

\* As much of the connection as each request has, whatever it carries.
NetOK ==
  /\ cut => fin
  /\ r.state = "error" /\ ~feeding => fin
  /\ Len(asked) <= Len(results) + 1
  /\ ~Working => r.state = "status_line"

\* The response the client is waiting for.
CurrentOK ==
  Working /\ ~lost =>
    /\ Current.framed
    /\ Progress(r, stream, cut, Current)
    /\ feeding => MidLine(r, stream, cut, Current)
    /\ ~feeding /\ ~cut /\ Parsing(r) => stream # <<>>

\* What a result says of the response.
Told(m, x) ==
  ~x.lost =>
    /\ ~x.cut => x.made = m.ok
    /\ x.made /\ ~x.cut => x.response.body = m.body
    /\ x.made => /\ m.ok /\ x.response.code = m.code
                 /\ x.response.ok = (m.code \in 200 .. 299)
                 /\ IsPrefixOf(x.response.body, m.body)
Listed(m, x) == x.made /\ ~x.lost => Summarises(x.response.headers, Kept(m))

ResultsOK ==
  \A k \in 1 .. Len(results) : Told(asked[k], results[k]) /\ Listed(asked[k], results[k])

StreamInv == ResponsesInv /\ NetOK /\ CurrentOK /\ ResultsOK

LEMMA CurrentIs ==
  ASSUME ResponsesInv, NetOK, Working
  PROVE  /\ Len(results) + 1 = Len(asked) /\ Len(asked) \in 1 .. Len(asked)
         /\ Current \in Messages
<1>1. /\ asked \in Seq(Messages) /\ Len(results) < Len(asked)
      /\ Len(results) \in Nat /\ Len(asked) \in Nat
  BY DEF ResponsesInv, ClientOK, Working
<1>2. Len(results) + 1 = Len(asked)
  BY <1>1 DEF NetOK
<1>3. Len(asked) \in 1 .. Len(asked)
  BY <1>1, <1>2
<1> QED BY <1>1, <1>2, <1>3, ElementOfSeq DEF Current

LEMMA InitStream == Init => StreamInv
<1> SUFFICES ASSUME NEW m \in Messages, Init,
                    r = [state |-> "status_line", code |-> 0, headers |-> <<>>,
                         body |-> <<>>, length |-> 0, remaining |-> 0, buf |-> <<>>],
                    feeding = FALSE, stream = m.wire, fin = FALSE, cut = FALSE,
                    lost = ~m.framed, asked = <<m>>, results = <<>>
             PROVE  StreamInv
  BY DEF Init
<1>1. ResponsesInv
  BY InitResponses
<1>2. NetOK
  BY DEF NetOK
<1>3. Current = m
  BY DEF Current
<1>4. Ahead(<<>>, m.wire, FALSE, m.wire)
  <2>1. m.wire \in Seq(Tokens) /\ <<>> \in Seq(Tokens) /\ <<>> \o m.wire = m.wire
    BY MessageIs, ConcatEmptySeq
  <2> QED BY <2>1, StrayIsAhead, Zenon
<1>5. AtStatus(r, stream, cut, m)
  BY <1>4 DEF AtStatus
<1>6. Progress(r, stream, cut, m)
  BY <1>5 DEF Progress
<1>7. stream # <<>> /\ (lost \/ m.framed)
  BY MessagesAssumption
<1>8. CurrentOK
  BY <1>3, <1>6, <1>7 DEF CurrentOK
<1>9. ResultsOK
  BY DEF ResultsOK
<1> QED BY <1>1, <1>2, <1>8, <1>9 DEF StreamInv

-----------------------------------------------------------------------------
(* The stream *)

\* Where all that was ahead still is, the parser still is where it was.
LEMMA ProgressMoves ==
  ASSUME NEW p \in ParserSet, NEW q \in ParserSet, NEW m, Parsing(p),
         NEW sent, NEW sent2, NEW short, NEW short2,
         q.state = p.state, q.code = p.code, q.headers = p.headers, q.body = p.body,
         q.length = p.length, q.remaining = p.remaining,
         \A full : Ahead(p.buf, sent, short, full) => Ahead(q.buf, sent2, short2, full),
         short /\ Astray(p.buf \o sent) => short2 /\ Astray(q.buf \o sent2),
         Progress(p, sent, short, m)
  PROVE  Progress(q, sent2, short2, m)
<1>1. AtStatus(p, sent, short, m) => AtStatus(q, sent2, short2, m)
  BY DEF AtStatus
<1>2. AtHeaders(p, sent, short, m) => AtHeaders(q, sent2, short2, m)
  BY DEF AtHeaders
<1>3. HeadRead(p, m) <=> HeadRead(q, m)
  BY DEF HeadRead
<1>4. AtBody(p, sent, short, m) => AtBody(q, sent2, short2, m)
  BY <1>3 DEF AtBody
<1>5. AtSize(p, sent, short, m) => AtSize(q, sent2, short2, m)
  BY <1>3 DEF AtSize
<1>6. AtData(p, sent, short, m) => AtData(q, sent2, short2, m)
  BY <1>3, Zenon DEF AtData
<1>7. AtTrailer(p, sent, short, m) => AtTrailer(q, sent2, short2, m)
  BY <1>3 DEF AtTrailer
<1> QED BY <1>1, <1>2, <1>4, <1>5, <1>6, <1>7 DEF Progress, Parsing

\* A segment, and what follows it.
LEMMA SegmentIs ==
  ASSUME NEW s \in Seq(Tokens), NEW n \in 1 .. Len(s)
  PROVE  /\ SubSeq(s, 1, n) \in Seq(Tokens) /\ Len(SubSeq(s, 1, n)) = n
         /\ SubSeq(s, 1, n)[n] = s[n]
         /\ Consume(s, n) \in Seq(Tokens) /\ Len(Consume(s, n)) = Len(s) - n
         /\ SubSeq(s, 1, n) \o Consume(s, n) = s
<1>1. Len(s) \in Nat
  BY LenProperties
<1>2. SubSeq(s, 1, n) \in Seq(Tokens) /\ Len(SubSeq(s, 1, n)) = n /\ SubSeq(s, 1, n)[n] = s[n]
  BY <1>1
<1>3. Consume(s, n) \in Seq(Tokens) /\ Len(Consume(s, n)) = Len(s) - n
  BY <1>1 DEF Consume
<1>4. SubSeq(s, 1, n) \o SubSeq(s, n + 1, Len(s)) = s
  BY <1>1
<1> QED BY <1>2, <1>3, <1>4 DEF Consume

LEMMA ReadStream ==
  ASSUME WholeTrailers, StreamInv, Working, NEW n \in 1 .. Len(stream), Read(n)
  PROVE  CurrentOK'
<1> SUFFICES ASSUME ~lost PROVE CurrentOK'
  BY DEF CurrentOK, Read
<1>1. /\ ParserOK(r) /\ r \in ParserSet /\ r.buf \in Seq(Tokens) /\ stream \in Seq(Tokens)
      /\ Len(stream) \in Nat
  BY LenProperties DEF StreamInv, ResponsesInv, ParserOK, ParserSet, ClientOK
<1>2. PICK m \in Messages : m = Current /\ m.framed /\ Progress(r, stream, cut, m)
  BY CurrentIs DEF StreamInv, CurrentOK
<1>3. PICK part \in Seq(Tokens) :
        part = SubSeq(stream, 1, n) /\ Len(part) = n /\ part[n] = stream[n]
  BY <1>1, SegmentIs
<1>4. PICK rest \in Seq(Tokens) : rest = Consume(stream, n) /\ Len(rest) = Len(stream) - n
  BY <1>1, SegmentIs
<1>5. PICK buf \in Seq(Tokens) : buf = r.buf \o part
  BY <1>1, <1>3, ConcatProperties
<1>6. /\ r' = [r EXCEPT !.buf = buf] /\ stream' = rest /\ feeding' = TRUE
      /\ cut' = cut /\ lost' = lost /\ asked' = asked /\ results' = results
      /\ Parsing(r) /\ ~EndsInTrailer(n)
  BY <1>3, <1>4, <1>5 DEF Read, Parsing
<1>7. \A full : Ahead(r.buf, stream, cut, full) => Ahead(buf, rest, cut, full)
  <2> SUFFICES ASSUME NEW full, Ahead(r.buf, stream, cut, full)
               PROVE  Ahead(buf, rest, cut, full)
    OBVIOUS
  <2>1. Ahead(r.buf \o SubSeq(stream, 1, n), Consume(stream, n), cut, full)
    BY <1>1, AheadRead
  <2> QED BY <1>3, <1>4, <1>5, <2>1, Zenon
<1>8. buf \o rest = r.buf \o stream
  <2>1. part \o rest = stream
    BY <1>1, <1>3, <1>4, SegmentIs
  <2>2. PICK b \in Seq(Tokens) : b = r.buf
    BY <1>1
  <2>3. (b \o part) \o rest = b \o (part \o rest)
    BY Associative
  <2> QED BY <1>5, <2>1, <2>2, <2>3, Zenon
<1>9. Progress(r', rest, cut, m)
  <2>1. /\ r' \in ParserSet /\ r'.state = r.state /\ r'.code = r.code
        /\ r'.headers = r.headers /\ r'.body = r.body /\ r'.length = r.length
        /\ r'.remaining = r.remaining /\ r'.buf = buf
    BY <1>1, <1>6 DEF ParserSet
  <2>2. PICK q \in ParserSet : q = r'
    BY <2>1
  <2>3. \A full : Ahead(r.buf, stream, cut, full) => Ahead(q.buf, rest, cut, full)
    BY <1>7, <2>1, <2>2, Zenon
  <2>4. cut /\ Astray(r.buf \o stream) => cut /\ Astray(q.buf \o rest)
    BY <1>8, <2>1, <2>2, Zenon
  <2>5. Progress(q, rest, cut, m)
    <3>1. /\ q.state = r.state /\ q.code = r.code /\ q.headers = r.headers
          /\ q.body = r.body /\ q.length = r.length /\ q.remaining = r.remaining
      BY <2>1, <2>2
    <3> QED BY <1>1, <1>2, <1>6, <2>3, <2>4, <3>1, ProgressMoves, Zenon
  <2> QED BY <2>2, <2>5
<1>10. MidLine(r', rest, cut, m)
  <2> SUFFICES ASSUME IsChunked(m), Len(rest) \in 1 .. Len(Ending(m))
               PROVE  r'.buf # <<>> /\ r'.buf[Len(r'.buf)] # LF
    BY DEF MidLine
  <2>1. r'.buf = buf
    BY <1>1, <1>6 DEF ParserSet
  <2>2. stream[n] # LF
    BY <1>2, <1>4, <1>6 DEF EndsInTrailer
  <2>3. PICK b \in Seq(Tokens) : b = r.buf
    BY <1>1
  <2>4. /\ Len(b \o part) = Len(b) + Len(part)
        /\ \A i \in 1 .. Len(b) + Len(part) : (b \o part)[i] =
             IF i <= Len(b) THEN b[i] ELSE part[i - Len(b)]
    BY ConcatProperties
  <2>5. /\ Len(b) + n \in 1 .. Len(b) + Len(part) /\ ~(Len(b) + n <= Len(b))
        /\ (Len(b) + n) - Len(b) = n
    <3>1. Len(b) \in Nat
      BY LenProperties
    <3> QED BY <1>3, <3>1
  <2>6. (b \o part)[Len(b) + n] = part[n] /\ Len(b \o part) = Len(b) + n
    BY <1>3, <2>4, <2>5
  <2>7. buf[Len(buf)] = stream[n] /\ Len(buf) # 0
    <3>1. Len(buf) = Len(b) + n
      BY <1>5, <2>3, <2>6
    <3>2. Len(b) \in Nat
      BY LenProperties
    <3> QED BY <1>3, <1>5, <2>3, <2>6, <3>1, <3>2
  <2> QED BY <2>1, <2>2, <2>7
<1>11. Current' = m
  BY <1>2, <1>6 DEF Current
<1> QED BY <1>2, <1>6, <1>9, <1>10, <1>11 DEF CurrentOK

LEMMA CloseStream ==
  ASSUME StreamInv, Working, NEW k \in 0 .. Len(stream), Close(k)
  PROVE  CurrentOK'
<1> SUFFICES ASSUME ~lost PROVE CurrentOK'
  BY DEF CurrentOK, Close
<1>1. /\ ParserOK(r) /\ r \in ParserSet /\ r.buf \in Seq(Tokens) /\ stream \in Seq(Tokens)
      /\ Len(stream) \in Nat /\ cut \in BOOLEAN
  BY LenProperties DEF StreamInv, ResponsesInv, ParserOK, ParserSet, ClientOK
<1>2. PICK m \in Messages : /\ m = Current /\ m.framed /\ Progress(r, stream, cut, m)
                            /\ feeding => MidLine(r, stream, cut, m)
                            /\ ~feeding /\ ~cut /\ Parsing(r) => stream # <<>>
  BY CurrentIs DEF StreamInv, CurrentOK
<1>3. cut = FALSE
  BY <1>1 DEF StreamInv, NetOK, Close
<1>4. PICK short : short = (k < Len(stream))
  BY Zenon
<1>5. PICK left \in Seq(Tokens) : left = SubSeq(stream, 1, k)
  BY <1>1, PartsTyped
<1>6. /\ r' = r /\ stream' = left /\ feeding' = feeding /\ cut' = short /\ lost' = lost
      /\ asked' = asked /\ results' = results
  BY <1>4, <1>5 DEF Close
<1>7. ~short => left = stream
  <2>1. ASSUME ~short PROVE k = Len(stream)
    <3>1. ~(k < Len(stream))
      BY <1>4, <2>1, Zenon
    <3> QED BY <1>1, <3>1
  <2>2. SubSeq(stream, 1, Len(stream)) = stream
    BY <1>1, SubSeqFull
  <2> QED BY <1>5, <2>1, <2>2
<1>8. Progress(r, left, short, m)
  <2>1. CASE Parsing(r)
    <3>1. \A full : Ahead(r.buf, stream, cut, full) => Ahead(r.buf, left, short, full)
      <4> SUFFICES ASSUME NEW full, Ahead(r.buf, stream, cut, full)
                   PROVE  Ahead(r.buf, left, short, full)
        OBVIOUS
      <4>1. Ahead(r.buf, stream, FALSE, full)
        BY <1>3, Zenon
      <4>2. Ahead(r.buf, SubSeq(stream, 1, k), k < Len(stream), full)
        BY <1>1, <4>1, AheadCut
      <4> QED BY <1>4, <1>5, <4>2, Zenon
    <3> QED BY <1>1, <1>2, <1>3, <2>1, <3>1, ProgressMoves
  <2>2. CASE r.state = "done"
    <3>1. AtEnd(r, stream, FALSE, m)
      BY <1>2, <1>3, <2>2 DEF Progress
    <3>2. stream = <<>>
      BY <3>1 DEF AtEnd
    <3>3. left = <<>>
      BY <1>1, <1>5, <3>2
    <3> QED BY <2>2, <3>1, <3>3 DEF AtEnd, Astray, Progress
  <2>3. CASE r.state = "error"
    BY <1>2, <1>3, <2>3 DEF Progress
  <2> QED BY <2>1, <2>2, <2>3 DEF Parsing
<1>9. feeding => MidLine(r, left, short, m)
  BY <1>2, <1>3, <1>7 DEF MidLine
<1>10. Current' = m
  BY <1>2, <1>6 DEF Current
<1>11. ~feeding /\ ~short /\ Parsing(r) => left # <<>>
  BY <1>2, <1>3, <1>7
<1> QED BY <1>2, <1>6, <1>8, <1>9, <1>10, <1>11 DEF CurrentOK

LEMMA EofStream ==
  ASSUME StreamInv, Working, ReadEof
  PROVE  CurrentOK'
<1> SUFFICES ASSUME ~lost PROVE CurrentOK'
  BY DEF CurrentOK, ReadEof, net
<1>1. ParserOK(r) /\ r \in ParserSet /\ r.body \in Seq(Tokens)
  BY DEF StreamInv, ResponsesInv, ParserOK, ParserSet
<1>2. PICK m \in Messages : /\ m = Current /\ m.framed /\ Progress(r, stream, cut, m)
                            /\ ~feeding /\ ~cut /\ Parsing(r) => stream # <<>>
  BY CurrentIs DEF StreamInv, CurrentOK
<1> DEFINE st == IF r.state = "body_identity" \/ r.body # <<>> THEN "done" ELSE "error"
<1>3. /\ r' = [r EXCEPT !.state = st] /\ Parsing(r) /\ stream = <<>>
      /\ stream' = stream /\ feeding' = feeding /\ ~feeding /\ cut' = cut /\ lost' = lost
      /\ asked' = asked /\ results' = results
  BY DEF ReadEof, Parsing, net
<1>4. cut
  BY <1>2, <1>3
<1>5. st = "done" => HeadRead(r, m) /\ IsPrefixOf(r.body, m.body)
  <2> SUFFICES ASSUME r.state = "body_identity" \/ r.body # <<>>
               PROVE  HeadRead(r, m) /\ IsPrefixOf(r.body, m.body)
    OBVIOUS
  <2>1. r.state \in {"body_identity", "chunk_size", "chunk_data", "chunk_trailer"}
    BY <1>1, <1>3 DEF ParserOK, ParserSet, ParseStates, Parsing
  <2>2. PICK all \in Seq(Tokens) : all = m.body
    BY MessageIs
  <2>3. CASE r.state = "body_identity"
    <3>1. HeadRead(r, m) /\ \E data \in Seq(Tokens) : r.body \o data = all
      BY <1>2, <2>2, <2>3 DEF Progress, AtBody
    <3> QED BY <1>1, <2>2, <3>1, PrefixOf
  <2>4. CASE r.state = "chunk_size"
    <3>1. HeadRead(r, m) /\ \E k \in 0 .. Len(m.chunks) : r.body \o BodyLeft(m, k) = all
      BY <1>2, <2>2, <2>4 DEF Progress, AtSize
    <3> QED BY <1>1, <2>2, <3>1, PrefixOf, BodyLeftIs
  <2>5. CASE r.state = "chunk_data"
    <3>1. HeadRead(r, m) /\ \E k \in 0 .. Len(m.chunks), data \in Seq(Tokens) :
                              Whole(r.body, data, BodyLeft(m, k), all)
      BY <1>2, <2>2, <2>5, Zenon DEF Progress, AtData
    <3>2. PICK k \in 0 .. Len(m.chunks), data \in Seq(Tokens) :
            Whole(r.body, data, BodyLeft(m, k), all)
      BY <3>1
    <3>3. PICK more \in Seq(Tokens) : more = BodyLeft(m, k)
      BY BodyLeftIs
    <3>4. PICK z \in Seq(Tokens) : z = data \o more
      BY ConcatProperties
    <3>5. r.body \o z = all
      BY <3>2, <3>3, <3>4, Zenon DEF Whole
    <3> QED BY <1>1, <2>2, <3>1, <3>5, PrefixOf
  <2>6. CASE r.state = "chunk_trailer"
    <3>1. HeadRead(r, m) /\ r.body = all
      BY <1>2, <2>2, <2>6 DEF Progress, AtTrailer
    <3>2. all \o <<>> = all /\ <<>> \in Seq(Tokens)
      BY ConcatEmptySeq
    <3> QED BY <2>2, <3>1, <3>2, PrefixOf, Zenon
  <2> QED BY <2>1, <2>3, <2>4, <2>5, <2>6
<1>6. st \in {"done", "error"}
  OBVIOUS
<1> HIDE DEF st
<1>7. r'.state = st /\ r'.code = r.code /\ r'.headers = r.headers /\ r'.body = r.body
  BY <1>1, <1>3 DEF ParserSet
<1>8. Progress(r', stream, cut, m)
  BY <1>3, <1>4, <1>5, <1>6, <1>7 DEF Progress, AtEnd, Astray, HeadRead
<1>9. Current' = m
  BY <1>2, <1>3 DEF Current
<1>10. ~Parsing(r')
  BY <1>6, <1>7 DEF Parsing
<1> QED BY <1>2, <1>3, <1>8, <1>9, <1>10 DEF CurrentOK

\* js_headers_from_http makes of every list of lines what HeadersReported says:
\* each name once, in the order of the first lines, with the value of the last.
THEOREM HeadersSummarised ==
  \A list \in Seq(Tokens) : Summarises(HeadersFromHttp(list), list)
<1> SUFFICES ASSUME NEW list \in Seq(Tokens)
             PROVE  Summarises(HeadersFromHttp(list), list)
  OBVIOUS
<1> DEFINE h           == HeadersFromHttp(list)
           n           == Len(list)
           OfName(name) == {i \in DOMAIN list : list[i][1] = name}
<1>1. Summary(h, list, n)
  BY HeadersSummarise
<1> HIDE DEF h
<1>2. /\ h \in Seq(Tokens) /\ DOMAIN h = 1 .. Len(h)
      /\ n \in Nat /\ DOMAIN list = 1 .. n
  BY <1>1 DEF Summary
<1> HIDE DEF n
<1>3. \A i \in 1 .. n : list[i][1] \in Names(h)
  BY <1>1, Zenon DEF Summary
<1>4. \A j \in 1 .. Len(h) : \E i \in 1 .. n :
        list[i] = h[j] /\ \A k \in i + 1 .. n : list[k][1] # h[j][1]
  BY <1>1, Zenon DEF Summary
<1>5. \A j, k \in 1 .. Len(h) : j < k => \E i \in 1 .. n :
        list[i][1] = h[j][1] /\ \A m \in 1 .. i : list[m][1] # h[k][1]
  BY <1>1, Zenon DEF Summary
<1>6. Names(h) = Names(list)
  <2>1. Names(list) \subseteq Names(h)
    BY <1>2, <1>3 DEF Names
  <2>2. \A j \in 1 .. Len(h) : h[j][1] \in Names(list)
    BY <1>2, <1>4 DEF Names
  <2>3. Names(h) \subseteq Names(list)
    BY <1>2, <2>2 DEF Names
  <2> QED BY <2>1, <2>3
<1>7. ASSUME NEW name \in Names(h)
      PROVE  Get(h, name) = list[Max(OfName(name))][2]
  <2>1. Find(h, name) \in 1 .. Len(h) /\ h[Find(h, name)][1] = name
    BY <1>2, FindIs
  <2>2. PICK i \in 1 .. n : list[i] = h[Find(h, name)]
                              /\ \A k \in i + 1 .. n : list[k][1] # name
    BY <1>4, <2>1
  <2>3. i \in OfName(name) /\ \A k \in OfName(name) : k \in Nat /\ k <= i
    BY <1>2, <2>1, <2>2
  <2> HIDE DEF OfName
  <2>4. Max(OfName(name)) = i
    <3> DEFINE S == OfName(name)
    <3>1. \E x \in S : \A y \in S : x >= y
      BY <2>3
    <3>2. Max(S) \in S /\ \A y \in S : Max(S) >= y
      BY <3>1, Zenon DEF Max
    <3>3. Max(S) \in Nat /\ Max(S) <= i /\ Max(S) >= i
      BY <2>3, <3>2
    <3> QED BY <3>3
  <2> QED BY <2>2, <2>4 DEF Get
<1>8. ASSUME NEW j \in DOMAIN h, NEW k \in DOMAIN h, j < k
      PROVE  Min(OfName(h[j][1])) < Min(OfName(h[k][1]))
  <2>1. PICK i \in 1 .. n : list[i][1] = h[j][1] /\ \A m \in 1 .. i : list[m][1] # h[k][1]
    BY <1>2, <1>5, <1>8
  <2>2. i \in OfName(h[j][1]) /\ OfName(h[j][1]) \in SUBSET Nat
    BY <1>2, <2>1
  <2>3. Min(OfName(h[j][1])) <= i /\ Min(OfName(h[j][1])) \in Nat
    <3> HIDE DEF OfName
    <3> QED BY <2>2, MinOf
  <2>4. /\ OfName(h[k][1]) # {} /\ OfName(h[k][1]) \in SUBSET Nat
        /\ \A m \in OfName(h[k][1]) : m > i
    <3>1. h[k][1] \in Names(list)
      BY <1>2, <1>6 DEF Names
    <3> QED BY <1>2, <2>1, <3>1 DEF Names
  <2>5. Min(OfName(h[k][1])) \in OfName(h[k][1])
    <3> HIDE DEF OfName
    <3> QED BY <2>4, MinOf
  <2>6. Min(OfName(h[k][1])) > i /\ Min(OfName(h[k][1])) \in Nat
    BY <2>4, <2>5
  <2> HIDE DEF OfName
  <2> QED BY <2>3, <2>6
<1> QED BY <1>6, <1>7, <1>8 DEF Summarises, h, n

-----------------------------------------------------------------------------
(* What is made of a response *)

\* What is made of the response the parser has come to the end of is true of it.
LEMMA ResultTold ==
  ASSUME StreamInv, Working, NEW made \in BOOLEAN,
         made => r.state = "done", ~made => r.state = "error"
  PROVE  Told(Current, Result(made)) /\ Listed(Current, Result(made))
<1>1. Result(made).lost = lost
  BY DEF Result
<1> SUFFICES ASSUME ~lost
             PROVE  Told(Current, Result(made)) /\ Listed(Current, Result(made))
  BY <1>1 DEF Told, Listed
<1>2. PICK m \in Messages : m = Current /\ m.framed /\ Progress(r, stream, cut, m)
  BY CurrentIs DEF StreamInv, CurrentOK
<1>3. PICK x : x = Result(made)
  BY Zenon
<1>4. m.ok \in BOOLEAN
  BY MessagesAssumption
<1>5. x.made = made /\ x.cut = cut /\ x.lost = lost /\ x.response = ResponseNew(r)
  BY <1>3 DEF Result
<1>6. CASE made
  <2>1. AtEnd(r, stream, cut, m)
    BY <1>2, <1>6 DEF Progress
  <2>2. /\ m.ok /\ r.code = m.code /\ r.headers = Kept(m) /\ IsPrefixOf(r.body, m.body)
        /\ ~cut => r.body = m.body
    BY <2>1 DEF AtEnd, HeadRead
  <2>3. /\ x.response.code = r.code /\ x.response.body = r.body
        /\ x.response.ok = (r.code \in 200 .. 299)
        /\ x.response.headers = HeadersFromHttp(r.headers)
    BY <1>5 DEF ResponseNew
  <2>4. made = m.ok /\ made = TRUE
    BY <1>4, <1>6, <2>2
  <2>5. Told(m, x)
    BY <1>5, <2>2, <2>3, <2>4, Zenon DEF Told
  <2>6. Summarises(HeadersFromHttp(r.headers), r.headers)
    <3>1. r.headers \in Seq(Tokens)
      BY DEF StreamInv, ResponsesInv, ParserOK, ParserSet
    <3> QED BY <3>1, HeadersSummarised
  <2>7. Listed(m, x)
    BY <2>2, <2>3, <2>6, Zenon DEF Listed
  <2> QED BY <1>2, <1>3, <2>5, <2>7
<1>7. CASE ~made
  <2>1. cut \/ ~m.ok
    BY <1>2, <1>7 DEF Progress
  <2>2. ~x.made /\ (~cut => made = m.ok)
    BY <1>4, <1>5, <1>7, <2>1
  <2>3. Told(m, x) /\ Listed(m, x)
    BY <1>5, <2>2 DEF Told, Listed
  <2> QED BY <1>2, <1>3, <2>3
<1> QED BY <1>6, <1>7

\* The next request has its response ahead of it, or none.
LEMMA NextAsked ==
  ASSUME StreamInv, Working, NEW m \in Messages,
         r' = ResponseReset(r), feeding' = FALSE, asked' = Append(asked, m),
         \/ Reconnect(m)
         \/ KeepAlive(m) /\ r.state = "done"
  PROVE  CurrentOK' /\ (cut' => fin')
<1>1. /\ asked \in Seq(Messages) /\ stream \in Seq(Tokens)
      /\ Len(asked) \in Nat /\ m.framed \in BOOLEAN /\ lost \in BOOLEAN /\ fin \in BOOLEAN
  BY MessageTyped, LenProperties DEF StreamInv, ResponsesInv, ClientOK
<1>2. Current' = m
  BY <1>1 DEF Current
<1>3. cut' => fin'
  <2>1. cut' = FALSE \/ cut' = fin'
    BY DEF Reconnect, KeepAlive
  <2> QED BY <2>1, Zenon
<1>4. ~lost' => m.framed
  BY DEF Reconnect, KeepAlive
<1>5. m.wire \in Seq(Tokens) /\ m.wire # <<>>
  BY MessageIs
<1>6. Ahead(<<>>, m.wire, FALSE, m.wire)
  <2>1. <<>> \in Seq(Tokens) /\ <<>> \o m.wire = m.wire
    BY <1>5, ConcatEmptySeq
  <2> QED BY <1>5, <2>1, StrayIsAhead, Zenon
<1>7. ~lost' => \/ stream' = m.wire /\ cut' = FALSE
                \/ cut' = TRUE /\ Astray(<<>> \o stream')
  <2>1. CASE Reconnect(m)
    BY <2>1 DEF Reconnect
  <2>2. CASE KeepAlive(m) /\ r.state = "done"
    <3> SUFFICES ASSUME ~lost'
                 PROVE  \/ stream' = m.wire /\ cut' = FALSE
                        \/ cut' = TRUE /\ Astray(<<>> \o stream')
      OBVIOUS
    <3>1. ~lost
      BY <2>2 DEF KeepAlive
    <3>2. AtEnd(r, stream, cut, Current)
      BY <2>2, <3>1 DEF StreamInv, CurrentOK, Progress
    <3>3. CASE fin = TRUE
      <4>1. stream' = stream /\ cut' = TRUE
        BY <2>2, <3>3 DEF KeepAlive
      <4>2. <<>> \o stream = stream
        BY <1>1, ConcatEmptySeq
      <4>3. Astray(stream)
        BY <3>2 DEF AtEnd
      <4> QED BY <4>1, <4>2, <4>3, Zenon
    <3>4. CASE fin = FALSE
      <4>1. stream' = stream \o m.wire /\ cut' = FALSE /\ ~cut
        BY <2>2, <3>4 DEF KeepAlive, StreamInv, NetOK
      <4>2. stream = <<>>
        BY <3>2, <4>1 DEF AtEnd
      <4>3. <<>> \o m.wire = m.wire
        BY <1>5, ConcatEmptySeq
      <4>4. stream' = m.wire
        BY <4>1, <4>2, <4>3, Zenon
      <4> QED BY <4>1, <4>4
    <3> QED BY <1>1, <3>3, <3>4
  <2> QED BY <2>1, <2>2
<1>8. /\ r'.state = "status_line" /\ r'.headers = <<>> /\ r'.body = <<>> /\ r'.buf = <<>>
  BY DEF ResponseReset
<1>9. ~lost' => AtStatus(r', stream', cut', m)
  <2>1. ASSUME stream' = m.wire, cut' = FALSE PROVE Ahead(<<>>, stream', cut', m.wire)
    BY <1>6, <2>1, Zenon
  <2>2. ~lost' => \/ Ahead(<<>>, stream', cut', m.wire)
                  \/ cut' = TRUE /\ Astray(<<>> \o stream')
    BY <1>7, <2>1, Zenon
  <2> QED BY <1>8, <2>2, Zenon DEF AtStatus
<1>10. ~lost' => Progress(r', stream', cut', m)
  BY <1>8, <1>9 DEF Progress
<1>11. ~lost' /\ ~cut' => stream' # <<>>
  BY <1>5, <1>7, Zenon
<1>12. CurrentOK'
  BY <1>2, <1>4, <1>10, <1>11, Zenon DEF CurrentOK
<1> QED BY <1>3, <1>12

LEMMA SettledStream ==
  ASSUME StreamInv, Working, ResponsesInv', NEW made \in BOOLEAN,
         made => r.state = "done", ~made => r.state = "error",
         results' = Append(results, Result(made)),
         r' = ResponseReset(r), feeding' = FALSE,
         \/ /\ Len(asked) < Requests
            /\ \E m \in Messages :
                 asked' = Append(asked, m) /\ ((made /\ KeepAlive(m)) \/ Reconnect(m))
         \/ Len(asked) = Requests /\ UNCHANGED <<net, asked>>
  PROVE  StreamInv'
<1>1. /\ Len(results) + 1 = Len(asked) /\ asked \in Seq(Messages) /\ results \in Seq(ResultSet)
      /\ Len(asked) \in Nat /\ Len(results) \in Nat /\ Requests \in Nat
  BY CurrentIs, LenProperties, LimitsAssumption DEF StreamInv, ResponsesInv, ClientOK
<1>2. PICK x \in ResultSet : x = Result(made)
  BY ResultIs DEF StreamInv, ResponsesInv
<1>3. Told(asked[Len(asked)], x) /\ Listed(asked[Len(asked)], x)
  <2>1. Told(Current, x) /\ Listed(Current, x)
    BY <1>2, ResultTold
  <2> QED BY <2>1, Zenon DEF Current
<1>4. /\ Len(results') = Len(asked)
      /\ results'[Len(asked)] = x
      /\ \A k \in 1 .. Len(results) : results'[k] = results[k]
  BY <1>1, <1>2
<1>5. /\ \A k \in 1 .. Len(asked) : asked'[k] = asked[k]
      /\ Len(asked') <= Len(asked) + 1
  <2>1. ASSUME NEW m \in Messages, asked' = Append(asked, m)
        PROVE  /\ \A k \in 1 .. Len(asked) : asked'[k] = asked[k]
               /\ Len(asked') = Len(asked) + 1
    BY <1>1, <2>1
  <2> QED BY <1>1, <2>1
<1>6. ResultsOK'
  <2> SUFFICES ASSUME NEW k \in 1 .. Len(results')
               PROVE  Told(asked'[k], results'[k]) /\ Listed(asked'[k], results'[k])
    BY DEF ResultsOK
  <2>1. k \in 1 .. Len(asked) /\ asked'[k] = asked[k]
    BY <1>4, <1>5
  <2>2. CASE k = Len(asked)
    BY <1>3, <1>4, <2>1, <2>2
  <2>3. CASE k # Len(asked)
    <3>1. k \in 1 .. Len(results) /\ results'[k] = results[k]
      BY <1>1, <1>4, <2>1, <2>3
    <3>2. Told(asked[k], results[k]) /\ Listed(asked[k], results[k])
      BY <3>1 DEF StreamInv, ResultsOK
    <3> QED BY <2>1, <3>1, <3>2
  <2> QED BY <2>2, <2>3
<1>7. r'.state = "status_line"
  BY DEF ResponseReset
<1>8. CASE Len(asked) = Requests /\ UNCHANGED <<net, asked>>
  <2>1. ~Working'
    BY <1>1, <1>4, <1>8 DEF Working
  <2>2. cut' => fin'
    BY <1>8 DEF StreamInv, NetOK, net
  <2>3. Len(asked') <= Len(results') + 1
    BY <1>1, <1>4, <1>5
  <2>4. NetOK'
    BY <1>7, <2>2, <2>3 DEF NetOK
  <2>5. CurrentOK'
    BY <2>1 DEF CurrentOK
  <2> QED BY <1>6, <2>4, <2>5 DEF StreamInv
<1>9. ASSUME NEW m \in Messages, asked' = Append(asked, m),
             (made /\ KeepAlive(m)) \/ Reconnect(m)
      PROVE  StreamInv'
  <2>1. CurrentOK' /\ (cut' => fin')
    BY <1>9, NextAsked
  <2>2. Len(asked') <= Len(results') + 1
    BY <1>1, <1>4, <1>5
  <2>3. NetOK'
    BY <1>7, <2>1, <2>2 DEF NetOK
  <2> QED BY <1>6, <2>1, <2>3 DEF StreamInv
<1> QED BY <1>8, <1>9

LEMMA NextStream ==
  ASSUME WholeTrailers, StreamInv, [Next]_vars
  PROVE  StreamInv'
<1>1. ResponsesInv'
  BY NextResponses DEF StreamInv
<1>2. /\ ParserOK(r) /\ r \in ParserSet /\ stream \in Seq(Tokens) /\ cut \in BOOLEAN
  BY DEF StreamInv, ResponsesInv, ParserOK, ClientOK
<1>3. ASSUME UNCHANGED <<asked, results>> PROVE ResultsOK'
  BY <1>3 DEF StreamInv, ResultsOK
<1>4. ASSUME FeedNext, Working PROVE StreamInv'
  <2>1. UNCHANGED <<net, asked, results>>
    BY <1>2, <1>4, FeedKeeps
  <2>2. /\ stream' = stream /\ fin' = fin /\ cut' = cut /\ lost' = lost
        /\ asked' = asked /\ results' = results
    BY <2>1 DEF net
  <2>3. feeding /\ (feeding' \/ Parsing(r'))
    BY <1>2, <1>4 DEF FeedNext, StatusLine, HeaderLine, BodyIdentity, ChunkSize, ChunkData,
       ChunkTrailer, At, Parse, Starve, TakeBody, ParserSet, Parsing
  <2>4. NetOK'
    <3>1. r'.state = "error" /\ ~feeding' => fin'
      BY <2>3 DEF Parsing
    <3>2. Working'
      BY <1>4, <2>2 DEF Working
    <3> QED BY <2>2, <3>1, <3>2 DEF StreamInv, NetOK
  <2>5. CurrentOK'
    <3> SUFFICES ASSUME ~lost PROVE CurrentOK'
      BY <2>2 DEF CurrentOK
    <3>1. PICK m \in Messages : /\ m = Current /\ m.framed
                                /\ Progress(r, stream, cut, m) /\ MidLine(r, stream, cut, m)
      BY <1>4, <2>3, CurrentIs DEF StreamInv, CurrentOK
    <3>2. /\ Progress(r', stream, cut, m)
          /\ feeding' => MidLine(r', stream, cut, m)
          /\ ~feeding' /\ ~cut => stream # <<>>
      BY <1>2, <1>4, <3>1, FeedFed
    <3>3. Current' = m
      BY <2>2, <3>1 DEF Current
    <3> QED BY <2>2, <3>1, <3>2, <3>3 DEF CurrentOK
  <2> QED BY <1>1, <1>3, <2>2, <2>4, <2>5 DEF StreamInv
<1>5. ASSUME NEW n \in 1 .. Len(stream), Read(n), Working PROVE StreamInv'
  <2>1. CurrentOK'
    BY <1>5, ReadStream
  <2>2. /\ feeding' = TRUE /\ UNCHANGED <<fin, cut, lost, asked, results>>
    BY <1>5 DEF Read
  <2>3. NetOK'
    BY <1>5, <2>2 DEF StreamInv, NetOK, Working
  <2> QED BY <1>1, <1>3, <2>1, <2>2, <2>3 DEF StreamInv
<1>6. ASSUME ReadEof, Working PROVE StreamInv'
  <2>1. CurrentOK'
    BY <1>6, EofStream
  <2>2. fin /\ UNCHANGED <<feeding, stream, fin, cut, lost, asked, results>>
    BY <1>6 DEF ReadEof, net
  <2>3. NetOK'
    BY <1>6, <2>2 DEF StreamInv, NetOK, Working
  <2> QED BY <1>1, <1>3, <2>1, <2>2, <2>3 DEF StreamInv
<1>7. ASSUME Complete, Working PROVE StreamInv'
  <2>1. /\ r.state = "done" /\ results' = Append(results, Result(TRUE))
        /\ r' = ResponseReset(r) /\ feeding' = FALSE
        /\ \/ /\ Len(asked) < Requests
              /\ \E m \in Messages :
                   asked' = Append(asked, m) /\ (KeepAlive(m) \/ Reconnect(m))
           \/ Len(asked) = Requests /\ UNCHANGED <<net, asked>>
    BY <1>7 DEF Complete
  <2> QED BY <1>1, <1>7, <2>1, SettledStream
<1>8. ASSUME Fail, Working PROVE StreamInv'
  <2>1. /\ r.state = "error" /\ results' = Append(results, Result(FALSE))
        /\ r' = ResponseReset(r) /\ feeding' = FALSE
        /\ \/ /\ Len(asked) < Requests
              /\ \E m \in Messages : asked' = Append(asked, m) /\ Reconnect(m)
           \/ Len(asked) = Requests /\ UNCHANGED <<net, asked>>
    BY <1>8 DEF Fail
  <2> QED BY <1>1, <1>8, <2>1, SettledStream
<1>9. ASSUME NEW k \in 0 .. Len(stream), Close(k), Working PROVE StreamInv'
  <2>1. CurrentOK'
    BY <1>9, CloseStream
  <2>2. fin' = TRUE /\ UNCHANGED <<r, feeding, lost, asked, results>>
    BY <1>9 DEF Close
  <2>3. NetOK'
    BY <1>9, <2>2 DEF StreamInv, NetOK, Working
  <2> QED BY <1>1, <1>3, <2>1, <2>2, <2>3 DEF StreamInv
<1>10. ASSUME UNCHANGED vars PROVE StreamInv'
  <2>1. /\ r' = r /\ feeding' = feeding /\ stream' = stream /\ fin' = fin /\ cut' = cut
        /\ lost' = lost /\ asked' = asked /\ results' = results
    BY <1>10 DEF vars, net
  <2>2. NetOK'
    BY <2>1 DEF StreamInv, NetOK, Working
  <2>3. CurrentOK'
    BY <2>1 DEF StreamInv, CurrentOK, Current, Working
  <2> QED BY <1>1, <1>3, <2>1, <2>2, <2>3 DEF StreamInv
<1> QED
  BY <1>4, <1>5, <1>6, <1>7, <1>8, <1>9, <1>10 DEF Next, ClientNext, ServerNext, Finished

LEMMA StreamHolds ==
  ASSUME WholeTrailers
  PROVE  Spec => []StreamInv
<1>1. StreamInv /\ [Next]_vars => StreamInv'
  BY NextStream
<1> QED BY InitStream, <1>1, PTL DEF Spec

LEMMA ToldIsFaithful ==
  ASSUME StreamInv
  PROVE  Faithful /\ HeadersReported
<1>1. DOMAIN results = 1 .. Len(results)
  BY DEF StreamInv, ResponsesInv, ClientOK
<1>2. \A k \in DOMAIN results : Told(asked[k], results[k]) /\ Listed(asked[k], results[k])
  BY <1>1 DEF StreamInv, ResultsOK
<1> QED BY <1>2, Zenon DEF Faithful, HeadersReported, Told, Listed

LEMMA StreamIsFramed ==
  ASSUME StreamInv
  PROVE  Framed /\ (~lost => NoStarvation)
<1>1. ASSUME ~lost, r.state = "done", ~cut PROVE stream = <<>> /\ r.buf = <<>>
  BY <1>1 DEF StreamInv, NetOK, CurrentOK, Progress, AtEnd
<1>2. ASSUME ~lost, ~feeding, stream = <<>>, ~fin, Working PROVE r.state = "done"
  BY <1>2 DEF StreamInv, NetOK, CurrentOK, Parsing
<1> QED BY <1>1, <1>2 DEF Framed, NoStarvation

-----------------------------------------------------------------------------
(* Theorems *)

\* Every value of the parser, of the client above it and of what it made of the
\* responses has its type, whatever the server sends in whatever segments
\* (js_http_parser.c): the headers kept are never more than JS_MAX_HEADERS.
THEOREM TypeCorrect == Spec => []TypeOK
BY ResponsesHold, ResponsesTyped, PTL

\* Whatever segments a response comes in, and whichever responses came before it
\* on its connection, the client records it with its status and its body, as an
\* error if it is malformed, and as no more than there was of it if the peer cut
\* it short: for responses of any number of lines, chunks and trailer lines, on
\* condition that no segment ends between the lines at the end of a chunked body
\* (js_http_response_feed, worker_conn_process).
THEOREM ResponsesFaithful ==
  ASSUME WholeTrailers
  PROVE  Spec => []Faithful
BY StreamHolds, ToldIsFaithful, PTL

\* The Headers of a Response summarise the header lines the server sent, as many
\* as are kept, however they were cut into segments (js_http_response_feed,
\* js_headers_from_http).
THEOREM HeadersTrue ==
  ASSUME WholeTrailers
  PROVE  Spec => []HeadersReported
BY StreamHolds, ToldIsFaithful, PTL

\* The parser takes a response for complete with its last byte: not before, and
\* with nothing of it left to be taken for the next (js_http_response_feed).
THEOREM StreamFramed ==
  ASSUME WholeTrailers
  PROVE  Spec => []Framed
BY StreamHolds, StreamIsFramed, PTL

\* While the server frames its responses as the parser reads them, the client never
\* waits for more of one that it has all of (worker_on_read).
THEOREM NeverStarves ==
  ASSUME WholeTrailers
  PROVE  Spec => [](~lost => NoStarvation)
BY StreamHolds, StreamIsFramed, PTL

-----------------------------------------------------------------------------
(* The script *)

LoopSet == [seen : Seq(Kinds), stayed : SUBSET Kinds, behind : BOOLEAN, over : BOOLEAN]

Seen(name) == \E i \in DOMAIN loop.seen : loop.seen[i] = name

\* A header that stayed was given at most once; while the callback runs, those
\* that were given are not behind the entry it was called for, and those not
\* behind it were given unless one was deleted there; at the end all were.
LoopOK ==
  /\ loop.stayed \subseteq Names(headers)
  /\ \A i, j \in DOMAIN loop.seen :
       loop.seen[i] = loop.seen[j] /\ loop.seen[i] \in loop.stayed => i = j
  /\ \A name \in loop.stayed :
       /\ given > 0 /\ Seen(name) => Find(headers, name) <= given
       /\ given > 0 /\ ~loop.behind /\ Find(headers, name) <= given => Seen(name)
       /\ loop.over /\ ~loop.behind => Seen(name)

ScriptOK ==
  /\ headers \in Seq(Tokens) /\ Distinct(headers)
  /\ given \in Nat /\ loop \in LoopSet
  /\ Working => given = 0 /\ loop = NoLoop
  /\ LoopOK

IInv == ResponsesInv /\ ScriptOK

\* Setting a header leaves the others where they are,
LEMMA FindAfterSet ==
  ASSUME NEW h \in Seq(Tokens), Distinct(h), NEW name \in Kinds, NEW value \in Nat,
         NEW other \in Names(h)
  PROVE  /\ other \in Names(Set(h, name, value))
         /\ Find(Set(h, name, value), other) = Find(h, other)
<1> DEFINE g == Set(h, name, value)
           p == Find(h, other)
<1>1. p \in 1 .. Len(h) /\ h[p][1] = other
  BY FindIs
<1>2. g \in Seq(Tokens) /\ Distinct(g)
  BY SetIs, SetDistinct
<1>3. p \in 1 .. Len(g)
  <2>1. Len(g) \in {Len(h), Len(h) + 1}
    BY SetIs
  <2> HIDE DEF g, p
  <2> QED BY <1>1, <2>1
<1>4. g[p][1] = other
  <2>1. name \in Names(h) => h[Find(h, name)][1] = name
    BY FindIs
  <2>2. g[p] = IF name \in Names(h) /\ p = Find(h, name) THEN <<name, value>> ELSE h[p]
    BY <1>1, SetIs
  <2> HIDE DEF g, p
  <2> QED BY <1>1, <2>1, <2>2
<1> HIDE DEF g, p
<1>5. Find(g, other) = p
  BY <1>2, <1>3, <1>4, FindsEach
<1>6. other \in Names(g)
  BY <1>2, <1>3, <1>4 DEF Names
<1> QED BY <1>5, <1>6 DEF g, p

\* and deleting one moves up those behind it.
LEMMA FindAfterDelete ==
  ASSUME NEW h \in Seq(Tokens), Distinct(h), NEW name, Has(h, name),
         NEW other \in Names(h), other # name
  PROVE  /\ other \in Names(Delete(h, name))
         /\ Find(h, other) # Find(h, name)
         /\ Find(Delete(h, name), other) =
              IF Find(h, other) < Find(h, name) THEN Find(h, other) ELSE Find(h, other) - 1
<1> DEFINE g == Delete(h, name)
           p == Find(h, name)
           o == Find(h, other)
           n == IF o < p THEN o ELSE o - 1
<1>1. /\ o \in 1 .. Len(h) /\ h[o][1] = other
      /\ p \in 1 .. Len(h) /\ h[p][1] = name
  BY FindIs
<1>2. /\ g \in Seq(Tokens) /\ Distinct(g) /\ Len(g) = Len(h) - 1
      /\ \A i \in 1 .. Len(h) - 1 : g[i] = IF i < p THEN h[i] ELSE h[i + 1]
  BY DeleteIs
<1> HIDE DEF g, p, o
<1>3. o # p
  BY <1>1
<1>4. n \in 1 .. Len(g) /\ g[n][1] = other
  BY <1>1, <1>2, <1>3
<1> HIDE DEF n
<1>5. Find(g, other) = n
  BY <1>2, <1>4, FindsEach
<1>6. other \in Names(g)
  BY <1>2, <1>4 DEF Names
<1> QED BY <1>3, <1>5, <1>6 DEF g, p, o, n

LEMMA NamesTyped ==
  ASSUME NEW h \in Seq(Tokens)
  PROVE  /\ Names(h) \subseteq Kinds
         /\ \A i \in 1 .. Len(h) : h[i][1] \in Names(h)
<1>1. \A i \in 1 .. Len(h) : h[i] \in Tokens
  OBVIOUS
<1>2. \A i \in 1 .. Len(h) : h[i][1] \in Kinds
  BY <1>1 DEF Tokens
<1> QED BY <1>2 DEF Names

LEMMA SetKeeps ==
  ASSUME ScriptOK, NEW name \in NameSet, NEW value \in NewValues, SetHeader(name, value)
  PROVE  ScriptOK'
<1>1. /\ headers' = Set(headers, name, value) /\ UNCHANGED <<given, loop>>
      /\ ~Working /\ UNCHANGED results
  BY DEF SetHeader, Change, HasResponse, vars
<1>2. name \in Kinds /\ value \in Nat /\ headers \in Seq(Tokens) /\ Distinct(headers)
  BY ScriptAssumption DEF NameSet, Kinds, ScriptOK
<1>3. headers' \in Seq(Tokens) /\ Distinct(headers')
  BY <1>1, <1>2, SetIs, SetDistinct
<1>4. \A other \in Names(headers) :
        other \in Names(headers') /\ Find(headers', other) = Find(headers, other)
  BY <1>1, <1>2, FindAfterSet
<1>5. LoopOK'
  BY <1>1, <1>4 DEF ScriptOK, LoopOK, Seen
<1>6. ~Working'
  BY <1>1 DEF Working
<1> QED BY <1>1, <1>3, <1>5, <1>6 DEF ScriptOK, Distinct

LEMMA DeleteKeeps ==
  ASSUME ScriptOK, NEW name \in NameSet, DeleteHeader(name)
  PROVE  ScriptOK'
<1> DEFINE p == Find(headers, name)
<1>1. /\ Has(headers, name)
      /\ headers' = Delete(headers, name) /\ given' = given
      /\ loop' = [loop EXCEPT !.stayed = @ \ {name}, !.behind = @ \/ p <= given]
      /\ ~Working /\ UNCHANGED results
  BY DEF DeleteHeader, Change, HasResponse, vars
<1>2. headers \in Seq(Tokens) /\ Distinct(headers) /\ given \in Nat /\ loop \in LoopSet
  BY DEF ScriptOK
<1>3. headers' \in Seq(Tokens) /\ Distinct(headers')
  BY <1>1, <1>2, DeleteIs
<1>4. \A other \in Names(headers) : other # name =>
        /\ other \in Names(headers')
        /\ Find(headers, other) # p
        /\ Find(headers', other) =
             IF Find(headers, other) < p THEN Find(headers, other)
             ELSE Find(headers, other) - 1
  BY <1>1, <1>2, FindAfterDelete
<1>5. p \in Nat /\ \A other \in Names(headers) : Find(headers, other) \in Nat
  BY <1>2, FindIs
<1> HIDE DEF p
<1> DEFINE behind == loop.behind \/ p <= given
<1>6. /\ loop'.seen = loop.seen /\ loop'.over = loop.over
      /\ loop'.stayed = loop.stayed \ {name}
      /\ loop'.behind = behind
  BY <1>1, <1>2 DEF LoopSet
<1>7. behind \in BOOLEAN
  OBVIOUS
<1>8. loop' \in LoopSet
  <2>1. loop' = [loop EXCEPT !.stayed = @ \ {name}, !.behind = behind]
    BY <1>1, <1>2 DEF LoopSet
  <2> HIDE DEF behind
  <2> QED BY <1>2, <1>7, <2>1 DEF LoopSet
<1>9. LoopOK'
  <2>1. loop'.stayed \subseteq Names(headers')
    BY <1>4, <1>6 DEF ScriptOK, LoopOK
  <2>2. \A i, j \in DOMAIN loop'.seen :
          loop'.seen[i] = loop'.seen[j] /\ loop'.seen[i] \in loop'.stayed => i = j
    BY <1>6 DEF ScriptOK, LoopOK
  <2>3. ASSUME NEW other \in loop'.stayed
        PROVE  /\ given' > 0 /\ Seen(other)' => Find(headers', other) <= given'
               /\ given' > 0 /\ ~loop'.behind /\ Find(headers', other) <= given'
                    => Seen(other)'
               /\ loop'.over /\ ~loop'.behind => Seen(other)'
    <3>1. other \in loop.stayed /\ other # name /\ other \in Names(headers)
      BY <1>6, <2>3 DEF ScriptOK, LoopOK
    <3>2. Seen(other)' <=> Seen(other)
      BY <1>6 DEF Seen
    <3>3. /\ given > 0 /\ Seen(other) => Find(headers, other) <= given
          /\ given > 0 /\ ~loop.behind /\ Find(headers, other) <= given => Seen(other)
          /\ loop.over /\ ~loop.behind => Seen(other)
      BY <3>1 DEF ScriptOK, LoopOK
    <3>4. given > 0 /\ Seen(other)' => Find(headers', other) <= given
      BY <1>2, <1>4, <1>5, <3>1, <3>2, <3>3
    <3>5. given > 0 /\ ~loop'.behind /\ Find(headers', other) <= given => Seen(other)'
      <4> SUFFICES ASSUME given > 0, ~loop'.behind, Find(headers', other) <= given
                   PROVE  Seen(other)'
        OBVIOUS
      <4>1. ~loop.behind /\ ~(p <= given)
        BY <1>6
      <4>2. Find(headers, other) <= given
        BY <1>2, <1>4, <1>5, <3>1, <4>1
      <4> QED BY <3>2, <3>3, <4>1, <4>2
    <3>6. loop'.over /\ ~loop'.behind => Seen(other)'
      BY <1>6, <3>2, <3>3
    <3> QED BY <1>1, <3>4, <3>5, <3>6
  <2> QED BY <2>1, <2>2, <2>3 DEF LoopOK
<1>10. ~Working'
  BY <1>1 DEF Working
<1> QED BY <1>1, <1>2, <1>3, <1>8, <1>9, <1>10 DEF ScriptOK, Distinct

\* The loop gives the entry at i, the one behind the last it gave, or ends.
LEMMA GiveKeeps ==
  ASSUME ScriptOK, ~Working, NEW i \in Nat, i > 0, NEW l \in LoopSet, Give(i, l),
         l.stayed \subseteq Names(headers),
         \A a, b \in DOMAIN l.seen :
           l.seen[a] = l.seen[b] /\ l.seen[a] \in l.stayed => a = b,
         \A name \in l.stayed :
           LET seen == \E a \in DOMAIN l.seen : l.seen[a] = name
           IN  /\ seen => Find(headers, name) < i
               /\ ~l.behind /\ Find(headers, name) < i => seen
               /\ l.over /\ ~l.behind => seen
  PROVE  ScriptOK'
<1>1. /\ headers' = headers /\ UNCHANGED results
      /\ headers \in Seq(Tokens) /\ Distinct(headers)
  BY DEF Give, vars, ScriptOK
<1>2. ~Working'
  BY <1>1 DEF Working
<1>3. \A name \in Names(headers) : Find(headers, name) \in 1 .. Len(headers)
  BY <1>1, FindIs
<1>4. CASE i <= Len(headers)
  <2> DEFINE new  == headers[i][1]
             seen == Append(l.seen, new)
  <2>1. given' = i /\ loop' = [l EXCEPT !.seen = seen]
    BY <1>4 DEF Give
  <2>2. new \in Names(headers) /\ new \in Kinds /\ Find(headers, new) = i
    BY <1>1, <1>4, NamesTyped, FindsEach
  <2>3. \A name \in Names(headers) : Find(headers, name) = i => name = new
    BY <1>1, FindIs
  <2> HIDE DEF new
  <2>4. /\ seen \in Seq(Kinds) /\ Len(seen) = Len(l.seen) + 1
        /\ \A a \in 1 .. Len(l.seen) : seen[a] = l.seen[a]
        /\ seen[Len(l.seen) + 1] = new
    BY <2>2, AppendProperties DEF LoopSet
  <2>5. Len(l.seen) \in Nat /\ DOMAIN l.seen = 1 .. Len(l.seen)
        /\ DOMAIN seen = 1 .. Len(l.seen) + 1
    BY <2>4 DEF LoopSet
  <2> HIDE DEF seen
  <2>6. /\ loop' \in LoopSet /\ loop'.seen = seen /\ loop'.stayed = l.stayed
        /\ loop'.behind = l.behind /\ loop'.over = l.over
    BY <2>1, <2>4 DEF LoopSet
  <2>7. \A name : Seen(name)' <=> name = new \/ \E a \in DOMAIN l.seen : l.seen[a] = name
    <3> SUFFICES ASSUME NEW name
                 PROVE  (\E a \in DOMAIN seen : seen[a] = name)
                          <=> name = new \/ \E a \in DOMAIN l.seen : l.seen[a] = name
      BY <2>6 DEF Seen
    <3>1. ASSUME NEW a \in DOMAIN seen, seen[a] = name
          PROVE  name = new \/ \E b \in DOMAIN l.seen : l.seen[b] = name
      BY <2>4, <2>5, <3>1
    <3>2. ASSUME NEW b \in DOMAIN l.seen, l.seen[b] = name
          PROVE  b \in DOMAIN seen /\ seen[b] = name
      BY <2>4, <2>5, <3>2
    <3>3. Len(l.seen) + 1 \in DOMAIN seen
      BY <2>5
    <3> QED BY <2>4, <3>1, <3>2, <3>3
  <2>8. new \in l.stayed => ~\E a \in DOMAIN l.seen : l.seen[a] = new
    BY <2>2
  <2>9. \A a, b \in DOMAIN seen : seen[a] = seen[b] /\ seen[a] \in l.stayed => a = b
    <3> SUFFICES ASSUME NEW a \in 1 .. Len(l.seen) + 1, NEW b \in 1 .. Len(l.seen) + 1,
                        seen[a] = seen[b], seen[a] \in l.stayed
                 PROVE  a = b
      BY <2>5
    <3>1. CASE a \in DOMAIN l.seen /\ b \in DOMAIN l.seen
      <4>1. seen[a] = l.seen[a] /\ seen[b] = l.seen[b]
        BY <2>4, <2>5, <3>1
      <4> QED BY <3>1, <4>1
    <3>2. CASE a \notin DOMAIN l.seen /\ b \notin DOMAIN l.seen
      BY <2>5, <3>2
    <3>3. CASE a \in DOMAIN l.seen /\ b \notin DOMAIN l.seen
      BY <2>4, <2>5, <2>8, <3>3
    <3>4. CASE a \notin DOMAIN l.seen /\ b \in DOMAIN l.seen
      BY <2>4, <2>5, <2>8, <3>4
    <3> QED BY <3>1, <3>2, <3>3, <3>4
  <2>10. ASSUME NEW name \in l.stayed
         PROVE  /\ Seen(name)' => Find(headers, name) <= i
                /\ ~l.behind /\ Find(headers, name) <= i => Seen(name)'
                /\ l.over /\ ~l.behind => Seen(name)'
    <3> DEFINE was == \E a \in DOMAIN l.seen : l.seen[a] = name
    <3>1. /\ was => Find(headers, name) < i
          /\ ~l.behind /\ Find(headers, name) < i => was
          /\ l.over /\ ~l.behind => was
      OBVIOUS
    <3>2. Seen(name)' <=> name = new \/ was
      BY <2>7
    <3>3. name \in Names(headers) /\ Find(headers, name) \in Nat
      BY <1>3
    <3> HIDE DEF was
    <3> QED BY <2>2, <2>3, <3>1, <3>2, <3>3
  <2>11. LoopOK'
    BY <1>1, <2>1, <2>6, <2>9, <2>10 DEF LoopOK
  <2> QED BY <1>1, <1>2, <2>1, <2>6, <2>11 DEF ScriptOK, Distinct
<1>5. CASE ~(i <= Len(headers))
  <2>1. given' = 0 /\ loop' = [l EXCEPT !.over = TRUE]
    BY <1>5 DEF Give
  <2>2. /\ loop' \in LoopSet /\ loop'.seen = l.seen /\ loop'.stayed = l.stayed
        /\ loop'.behind = l.behind
    BY <2>1 DEF LoopSet
  <2>3. \A name : Seen(name)' <=> \E a \in DOMAIN l.seen : l.seen[a] = name
    BY <2>2 DEF Seen
  <2>4. \A name \in l.stayed : ~l.behind => Seen(name)'
    <3>1. \A name \in l.stayed : Find(headers, name) < i
      BY <1>1, <1>3, <1>5
    <3> QED BY <2>3, <3>1
  <2>5. LoopOK'
    BY <1>1, <2>1, <2>2, <2>4 DEF LoopOK
  <2> QED BY <1>1, <1>2, <2>1, <2>2, <2>5 DEF ScriptOK, Distinct
<1> QED BY <1>4, <1>5

LEMMA ForEachKeeps ==
  ASSUME ScriptOK, ForEach
  PROVE  ScriptOK'
<1> DEFINE l == [NoLoop EXCEPT !.stayed = Names(headers)]
<1>1. ~Working /\ Give(1, l)
  BY DEF ForEach, HasResponse
<1>2. NoLoop \in LoopSet /\ Names(headers) \subseteq Kinds
  BY NamesTyped DEF NoLoop, LoopSet, ScriptOK
<1>3. headers \in Seq(Tokens)
  BY DEF ScriptOK
<1>4. l \in LoopSet
  BY <1>2 DEF LoopSet
<1>5. l.stayed = Names(headers) /\ DOMAIN l.seen = {} /\ ~l.over
  BY DEF NoLoop
<1> HIDE DEF l
<1>6. \A name \in Names(headers) : Find(headers, name) \in Nat /\ ~(Find(headers, name) < 1)
  BY <1>3, FindIs
<1> QED BY <1>1, <1>4, <1>5, <1>6, GiveKeeps

LEMMA CallbackReturnsKeeps ==
  ASSUME ScriptOK, CallbackReturns
  PROVE  ScriptOK'
<1>1. given > 0 /\ given \in Nat /\ loop \in LoopSet /\ Give(given + 1, loop)
  BY DEF CallbackReturns, ScriptOK
<1>2. ~Working
  BY <1>1 DEF ScriptOK
<1>3. \A name \in Names(headers) : Find(headers, name) \in Nat
  BY FindIs DEF ScriptOK
<1>4. /\ loop.stayed \subseteq Names(headers)
      /\ \A a, b \in DOMAIN loop.seen :
           loop.seen[a] = loop.seen[b] /\ loop.seen[a] \in loop.stayed => a = b
  BY DEF ScriptOK, LoopOK
<1>5. ASSUME NEW name \in loop.stayed
      PROVE  LET seen == \E a \in DOMAIN loop.seen : loop.seen[a] = name
             IN  /\ seen => Find(headers, name) < given + 1
                 /\ ~loop.behind /\ Find(headers, name) < given + 1 => seen
                 /\ loop.over /\ ~loop.behind => seen
  <2>1. /\ Seen(name) => Find(headers, name) <= given
        /\ ~loop.behind /\ Find(headers, name) <= given => Seen(name)
        /\ loop.over /\ ~loop.behind => Seen(name)
    BY <1>1, <1>5 DEF ScriptOK, LoopOK
  <2>2. Find(headers, name) \in Nat
    BY <1>3, <1>4, <1>5
  <2>3. Find(headers, name) < given + 1 <=> Find(headers, name) <= given
    BY <1>1, <2>2
  <2> QED BY <2>1, <2>3 DEF Seen
<1>6. given + 1 \in Nat /\ given + 1 > 0
  BY <1>1
<1> QED BY <1>1, <1>2, <1>4, <1>5, <1>6, GiveKeeps

LEMMA CallbackThrowsKeeps ==
  ASSUME ScriptOK, CallbackThrows
  PROVE  ScriptOK'
<1>1. given > 0 /\ given' = 0 /\ UNCHANGED <<headers, loop, results>>
  BY DEF CallbackThrows, vars
<1>2. ~Working
  BY <1>1 DEF ScriptOK
<1>3. ~Working'
  BY <1>1, <1>2 DEF Working
<1>4. LoopOK'
  BY <1>1 DEF ScriptOK, LoopOK, Seen
<1> QED BY <1>1, <1>3, <1>4 DEF ScriptOK, Distinct

\* The script gets the headers of the last response.
LEMMA ReceiveKeeps ==
  ASSUME ResponsesInv, ScriptOK, Receive
  PROVE  ScriptOK'
<1>1. Working /\ UNCHANGED <<given, loop>>
  BY DEF Receive, ClientNext
<1>2. given' = 0 /\ loop' = NoLoop
  BY <1>1 DEF ScriptOK
<1>3. ResponsesInv'
  BY NextResponses DEF Receive, Next
<1>4. headers' \in Seq(Tokens) /\ Distinct(headers')
  <2>1. CASE Working'
    <3> DEFINE h == << >>
    <3>1. headers' = h
      BY <2>1 DEF Receive
    <3>2. h \in Seq(Tokens) /\ DOMAIN h = {}
      OBVIOUS
    <3> HIDE DEF h
    <3> QED BY <3>1, <3>2 DEF Distinct
  <2>2. CASE ~Working'
    <3> DEFINE k == Len(results')
    <3>1. headers' = results'[k].response.headers
      BY <2>2 DEF Receive
    <3>2. k \in 1 .. Len(results')
      BY <1>3, <2>2, LimitsAssumption DEF ResponsesInv, ClientOK, Working
    <3>3. Distinct(headers')
      BY <1>3, <3>1, <3>2 DEF ResponsesInv, ClientOK, Distinct
    <3>4. results'[k] \in ResultSet
      BY <1>3, <3>2 DEF ResponsesInv, ClientOK
    <3> QED BY <3>1, <3>3, <3>4 DEF ResultSet
  <2> QED BY <2>1, <2>2
<1>5. loop' \in LoopSet
  BY <1>1 DEF ScriptOK
<1>6. LoopOK'
  BY <1>2 DEF LoopOK, NoLoop
<1> QED BY <1>2, <1>4, <1>5, <1>6 DEF ScriptOK, Distinct

LEMMA ScriptSame ==
  ASSUME ScriptOK, UNCHANGED <<script, results>>
  PROVE  ScriptOK'
BY DEF ScriptOK, LoopOK, Seen, Distinct, Working, script

LEMMA InitScripted == ScriptInit => IInv
<1> SUFFICES ASSUME ScriptInit PROVE IInv
  OBVIOUS
<1>1. ResponsesInv
  BY InitResponses DEF ScriptInit
<1>2. given = 0 /\ loop = NoLoop
  BY DEF ScriptInit
<1>3. headers \in Seq(Tokens) /\ DOMAIN headers = {}
  BY DEF ScriptInit
<1>4. loop \in LoopSet
  BY <1>2 DEF LoopSet, NoLoop
<1>5. LoopOK
  BY <1>2 DEF LoopOK, NoLoop
<1>6. ScriptOK
  BY <1>2, <1>3, <1>4, <1>5 DEF ScriptOK, Distinct
<1> QED BY <1>1, <1>6 DEF IInv

LEMMA NextScripted ==
  ASSUME IInv, [ScriptedNext]_scripted
  PROVE  IInv'
<1>1. ResponsesInv /\ ScriptOK
  BY DEF IInv
<1>2. [Next]_vars
  BY DEF ScriptedNext, Receive, ServerActs, ScriptNext, Idle, SetHeader, DeleteHeader,
         ForEach, CallbackReturns, CallbackThrows, Change, Give, Next, Finished, scripted
<1>3. ResponsesInv'
  BY <1>1, <1>2, NextResponses
<1>4. CASE Receive
  BY <1>1, <1>3, <1>4, ReceiveKeeps DEF IInv
<1>5. CASE ServerActs
  <2>1. UNCHANGED <<script, results>>
    BY <1>5 DEF ServerActs, ServerNext, Close
  <2> QED BY <1>1, <1>3, <2>1, ScriptSame DEF IInv
<1>6. CASE Idle
  <2>1. UNCHANGED <<script, results>>
    BY <1>6 DEF Idle, Finished, vars
  <2> QED BY <1>1, <1>3, <2>1, ScriptSame DEF IInv
<1>7. CASE ScriptNext
  <2>1. ScriptOK'
    BY <1>1, <1>7, SetKeeps, DeleteKeeps, ForEachKeeps, CallbackReturnsKeeps,
       CallbackThrowsKeeps DEF ScriptNext
  <2> QED BY <1>3, <2>1 DEF IInv
<1>8. CASE UNCHANGED scripted
  <2>1. UNCHANGED <<script, results>>
    BY <1>8 DEF scripted, vars
  <2> QED BY <1>1, <1>3, <2>1, ScriptSame DEF IInv
<1> QED BY <1>4, <1>5, <1>6, <1>7, <1>8 DEF ScriptedNext

\* The invariant is what the run checks, and more.
LEMMA IInvVisits ==
  ASSUME IInv
  PROVE  ForEachVisits
<1>1. headers \in Seq(Tokens) /\ Distinct(headers) /\ loop \in LoopSet /\ LoopOK
  BY DEF IInv, ScriptOK
<1>2. Cardinality(Names(headers)) = Len(headers)
  <2> DEFINE n == Len(headers)
             f == [i \in 1 .. n |-> headers[i][1]]
  <2>1. n \in Nat /\ DOMAIN headers = 1 .. n
    BY <1>1
  <2>2. \A m \in Nat : IsFiniteSet(1 .. m) /\ Cardinality(1 .. m) = m
    BY FS_Interval
  <2>3. f \in [1 .. n -> Names(headers)]
    BY <2>1 DEF Names
  <2>4. \A i, j \in 1 .. n : f[i] = f[j] => i = j
    BY <1>1, <2>1 DEF Distinct
  <2>5. \A name \in Names(headers) : \E i \in 1 .. n : f[i] = name
    BY <2>1 DEF Names
  <2> HIDE DEF f, n
  <2>6. ExistsBijection(1 .. n, Names(headers))
    BY <2>3, <2>4, <2>5 DEF ExistsBijection, Bijection, Injection, Surjection, IsInjective
  <2>7. Cardinality(Names(headers)) = n
    BY <2>1, <2>2, <2>6, FS_Bijection
  <2> QED BY <2>7 DEF n
<1>3. ASSUME NEW name \in loop.stayed
      PROVE  Times(name) <= 1 /\ (Seen(name) => Times(name) = 1)
  <2> DEFINE S == {i \in DOMAIN loop.seen : loop.seen[i] = name}
  <2>1. CASE Seen(name)
    <3>1. PICK a \in DOMAIN loop.seen : loop.seen[a] = name
      BY <2>1 DEF Seen
    <3>2. S = {a}
      BY <1>1, <1>3, <3>1 DEF LoopOK
    <3>3. Cardinality(S) = 1
      BY <3>2, FS_Singleton
    <3> QED BY <3>3 DEF Times
  <2>2. CASE ~Seen(name)
    <3>1. S = {}
      BY <2>2 DEF Seen
    <3>2. Cardinality(S) = 0
      BY <3>1, FS_EmptySet
    <3> QED BY <2>2, <3>2 DEF Times
  <2> QED BY <2>1, <2>2
<1>4. loop.over /\ ~loop.behind => \A name \in loop.stayed : Seen(name)
  BY <1>1 DEF LoopOK
<1> QED BY <1>2, <1>3, <1>4 DEF ForEachVisits

LEMMA ScriptedInv == ScriptedSpec => []IInv
<1>1. IInv /\ [ScriptedNext]_scripted => IInv'
  BY NextScripted
<1> QED BY InitScripted, <1>1, PTL DEF ScriptedSpec

-----------------------------------------------------------------------------
(* Theorems *)

\* A script does nothing to the client: all that holds of the client alone, the
\* theorems of HttpParserProofs among it, holds of a client whose responses
\* scripts work on (js_fetch_complete gives away what it has made).
THEOREM ScriptsApart == ScriptedSpec => Spec
<1>1. ScriptInit => Init
  BY DEF ScriptInit
<1>2. [ScriptedNext]_scripted => [Next]_vars
  BY DEF ScriptedNext, Receive, ServerActs, Idle, Next, scripted, ScriptNext, SetHeader,
         DeleteHeader, ForEach, CallbackReturns, CallbackThrows, Change, Give
<1> QED BY <1>1, <1>2, PTL DEF ScriptedSpec, Spec

\* forEach gives its callback every header that stays, once, however the
\* callback changes the others (js_headers_forEach, js_headers_delete).
THEOREM VisitsEach == ScriptedSpec => []ForEachVisits
BY ScriptedInv, IInvVisits, PTL
=============================================================================
