-------------------------- MODULE Algorithms_proofs --------------------------
(***************************************************************************)
(* Proofs about the rest of what MCAlgorithms runs: env files that do not  *)
(* exceed a limit of imports are read back as they were written, whatever  *)
(* their values hold, and others are refused; every export of a vault is a *)
(* valid package, however it grew; what the daemon keeps about its callers *)
(* is bounded, no minute sees more than twice a limit, and nobody is       *)
(* refused without a cause in it.                                          *)
(***************************************************************************)
EXTENDS Algorithms, RateLimit, FiniteSetTheorems, TLAPS

-----------------------------------------------------------------------------
(* Env files.  A file is written and read by five folds; each is followed   *)
(* by induction over its run.                                              *)

\* The tokens of an env file.
Token == STRING \cup {"dq", "bs", "=", "nl", "cr", "tab", "n", "r", "t", "x", "1", "export"}

Escaping == INSTANCE FoldFacts WITH Op <- EnvFile!EscapeInto
Quoting == INSTANCE FoldFacts WITH Op <- EnvFile!ReadQuoted

\* The first elements of a sequence, and one more.
Upto(s, k) == SubSeq(s, 1, k)

\* The next element.
LEMMA OneMore ==
  ASSUME NEW T, NEW s \in Seq(T), NEW k \in 0 .. Len(s) - 1
  PROVE  /\ Upto(s, k) \in Seq(T) /\ s[k + 1] \in T
         /\ Upto(s, k + 1) = Append(Upto(s, k), s[k + 1])
<1> DEFINE a == Upto(s, k + 1)
           b == Append(Upto(s, k), s[k + 1])
<1>1. s[k + 1] \in T
  OBVIOUS
<1>2. Upto(s, k) \in Seq(T) /\ Len(Upto(s, k)) = k /\ \A i \in 1 .. k : Upto(s, k)[i] = s[i]
  BY DEF Upto
<1>3. a \in Seq(T) /\ Len(a) = k + 1 /\ \A i \in 1 .. k + 1 : a[i] = s[i]
  BY DEF Upto
<1>4. b \in Seq(T) /\ Len(b) = k + 1 /\ b[k + 1] = s[k + 1] /\ \A i \in 1 .. k : b[i] = s[i]
  BY <1>1, <1>2
<1> HIDE DEF a, b
<1>5. \A i \in 1 .. k + 1 : a[i] = b[i]
  BY <1>3, <1>4
<1>6. a = b
  BY <1>3, <1>4, <1>5, Escaping!SameSequence
<1> QED
  BY <1>1, <1>2, <1>6, Zenon DEF a, b

\* The ends of a sequence.
LEMMA AllAndNone ==
  ASSUME NEW T, NEW s \in Seq(T)
  PROVE  Upto(s, 0) = <<>> /\ Upto(s, Len(s)) = s
BY DEF Upto

Text(u) == [at |-> "text", value |-> u, trailing |-> <<>>]
Escape(u) == [at |-> "escape", value |-> u, trailing |-> <<>>]
End(u) == [at |-> "closed", value |-> u, trailing |-> <<>>]

\* Each character is read as it was written.
LEMMA ReadsPlain ==
  ASSUME NEW u, NEW c, c \notin {"nl", "cr", "tab", "bs", "dq"}
  PROVE  /\ EnvFile!EscapedChar(c) = <<c>>
         /\ EnvFile!ReadQuoted(Text(u), c) = Text(Append(u, c))
<1>1. EnvFile!EscapedChar(c) = <<c>>
  BY SMTT(10) DEF EnvFile!EscapedChar
<1>2. EnvFile!ReadQuoted(Text(u), c) = [Text(u) EXCEPT !.value = Append(@, c)]
  <2>1. Text(u).at = "text"
    BY DEF Text
  <2> HIDE DEF Text
  <2> QED
    BY <2>1, SMTT(10) DEF EnvFile!ReadQuoted
<1> QED
  BY <1>1, <1>2, SMTT(10) DEF Text

Escapable == {"nl", "cr", "tab", "bs", "dq"}
Code(c) == CASE c = "nl" -> "n" [] c = "cr" -> "r" [] c = "tab" -> "t" [] OTHER -> c

\* A character that is escaped is read from its code.
LEMMA ReadsSpecial ==
  ASSUME NEW u, NEW c \in Escapable
  PROVE  /\ EnvFile!EscapedChar(c) = <<"bs", Code(c)>>
         /\ EnvFile!ReadQuoted(Text(u), "bs") = Escape(u)
         /\ EnvFile!ReadQuoted(Escape(u), Code(c)) = Text(Append(u, c))
<1>1. EnvFile!EscapedChar(c) = <<"bs", Code(c)>>
  BY SMTT(10) DEF EnvFile!EscapedChar, Escapable, Code
<1>2. EnvFile!ReadQuoted(Text(u), "bs") = [Text(u) EXCEPT !.at = "escape"]
  <2>1. Text(u).at = "text"
    BY DEF Text
  <2> HIDE DEF Text
  <2> QED
    BY <2>1, SMTT(10) DEF EnvFile!ReadQuoted
<1>3. Code(c) \in DOMAIN EnvFile!Unescaped /\ EnvFile!Unescaped[Code(c)] = c
  BY SMTT(10) DEF EnvFile!Unescaped, Escapable, Code
<1>4. EnvFile!ReadQuoted(Escape(u), Code(c))
      = [Escape(u) EXCEPT !.at = "text", !.value = Append(@, EnvFile!Unescaped[Code(c)])]
  <2>1. Escape(u).at = "escape"
    BY DEF Escape
  <2> HIDE DEF Escape, Code
  <2> QED
    BY <1>3, <2>1, SMTT(10) DEF EnvFile!ReadQuoted
<1>5. EnvFile!ReadQuoted(Escape(u), Code(c)) = [Escape(u) EXCEPT !.at = "text", !.value = Append(@, c)]
  BY <1>3, <1>4
<1>6. [Escape(u) EXCEPT !.at = "text", !.value = Append(@, c)] = Text(Append(u, c))
  <2> DEFINE e == [Escape(u) EXCEPT !.at = "text"]
  <2>1. e = Text(u) /\ Text(u).value = u
    BY SMTT(10) DEF Text, Escape
  <2>2. [Text(u) EXCEPT !.value = Append(u, c)] = Text(Append(u, c))
    BY SMTT(10) DEF Text
  <2>3. [Escape(u) EXCEPT !.at = "text", !.value = Append(@, c)] = [e EXCEPT !.value = Append(@, c)]
    BY Zenon
  <2> HIDE DEF e, Text
  <2>4. [e EXCEPT !.value = Append(@, c)] = [Text(u) EXCEPT !.value = Append(u, c)]
    BY <2>1
  <2> QED
    BY <2>2, <2>3, <2>4, Zenon
<1>7. [Text(u) EXCEPT !.at = "escape"] = Escape(u)
  BY SMTT(10) DEF Text, Escape
<1> QED
  BY <1>1, <1>2, <1>5, <1>6, <1>7, Zenon

\* A quote that is not escaped ends the value.
LEMMA Closes ==
  ASSUME NEW u
  PROVE  EnvFile!ReadQuoted(Text(u), "dq") = End(u)
<1>1. EnvFile!ReadQuoted(Text(u), "dq") = [Text(u) EXCEPT !.at = "closed"]
  <2>1. Text(u).at = "text"
    BY DEF Text
  <2> QED
    BY <2>1, SMTT(10) DEF EnvFile!ReadQuoted
<1> QED
  BY <1>1, SMTT(10) DEF Text, End

\* No newline is in a text.
OneLine(s) == \A i \in 1 .. Len(s) : s[i] # "nl"

\* What is written so far reads as what has been written so far.
ReadsAs(e, u) == e \in Seq(Token) /\ OneLine(e) /\ Quoting!Fold(Text(<<>>), e) = Text(u)

\* A token appended to a text.
LEMMA LineGrows ==
  ASSUME NEW e \in Seq(Token), OneLine(e), NEW c \in Token, c # "nl"
  PROVE  Append(e, c) \in Seq(Token) /\ OneLine(Append(e, c))
<1>1. /\ Append(e, c) \in Seq(Token) /\ Len(Append(e, c)) = Len(e) + 1
      /\ Append(e, c)[Len(e) + 1] = c /\ \A i \in 1 .. Len(e) : Append(e, c)[i] = e[i]
  OBVIOUS
<1> DEFINE r == Append(e, c)
<1> HIDE DEF r
<1>2. ASSUME NEW i \in 1 .. Len(e) + 1
      PROVE  r[i] # "nl"
  <2>1. i \in 1 .. Len(e) \/ i = Len(e) + 1
    OBVIOUS
  <2> QED
    BY <1>1, <2>1, Zenon DEF OneLine, r
<1> QED
  BY <1>1, <1>2, Zenon DEF OneLine, r

\* Joining one or two elements is appending them.
LEMMA AppendedTokens ==
  ASSUME NEW T, NEW e \in Seq(T), NEW c \in T, NEW d \in T
  PROVE  e \o <<c>> = Append(e, c) /\ e \o <<c, d>> = Append(Append(e, c), d)
<1>1. e \o <<c>> = Append(e, c)
  OBVIOUS
<1>2. e \o <<c, d>> = Append(Append(e, c), d)
  OBVIOUS
<1> QED
  BY <1>1, <1>2

\* Codes are no newlines.
LEMMA Codes ==
  ASSUME NEW c \in Escapable
  PROVE  Code(c) \in Token /\ Code(c) # "nl" /\ c \in Token
BY SMTT(10) DEF Code, Escapable, Token

\* One character more is written, and read.
LEMMA OneRead ==
  ASSUME NEW e, NEW u, NEW c \in Token, ReadsAs(e, u)
  PROVE  ReadsAs(EnvFile!EscapeInto(e, c), Append(u, c))
<1> DEFINE start == Text(<<>>)
<1>0. e \in Seq(Token) /\ OneLine(e) /\ Quoting!Fold(start, e) = Text(u)
  BY Zenon DEF ReadsAs
<1>1. CASE c \notin Escapable
  <2>1. c \notin {"nl", "cr", "tab", "bs", "dq"} /\ c # "nl"
    BY <1>1, SMTT(10) DEF Escapable
  <2>2. EnvFile!EscapedChar(c) = <<c>> /\ EnvFile!ReadQuoted(Text(u), c) = Text(Append(u, c))
    BY <2>1, ReadsPlain, Zenon
  <2>3. EnvFile!EscapeInto(e, c) = Append(e, c)
    BY <1>0, <2>2, AppendedTokens, Zenon DEF EnvFile!EscapeInto
  <2>4. Append(e, c) \in Seq(Token) /\ OneLine(Append(e, c))
    BY <1>0, <2>1, LineGrows, Zenon
  <2>5. Quoting!Fold(start, Append(e, c)) = EnvFile!ReadQuoted(Quoting!Fold(start, e), c)
    BY <1>0, Quoting!FoldAppend, Zenon
  <2> QED
    BY <1>0, <2>2, <2>3, <2>4, <2>5, Zenon DEF ReadsAs
<1>2. CASE c \in Escapable
  <2> DEFINE d == Code(c)
             f == Append(e, "bs")
  <2>1. d \in Token /\ d # "nl" /\ "bs" \in Token /\ "bs" # "nl"
    BY <1>2, Codes DEF Token
  <2> HIDE DEF d
  <2>2. /\ EnvFile!EscapedChar(c) = <<"bs", d>>
        /\ EnvFile!ReadQuoted(Text(u), "bs") = Escape(u)
        /\ EnvFile!ReadQuoted(Escape(u), d) = Text(Append(u, c))
    BY <1>2, ReadsSpecial, Zenon DEF d
  <2>3. EnvFile!EscapeInto(e, c) = Append(f, d)
    <3>1. e \o <<"bs", d>> = Append(Append(e, "bs"), d)
      BY <1>0, <2>1, AppendedTokens
    <3> QED
      BY <2>2, <3>1, Zenon DEF EnvFile!EscapeInto
  <2>4. f \in Seq(Token) /\ OneLine(f)
    BY <1>0, <2>1, LineGrows, Zenon
  <2>5. Quoting!Fold(start, f) = EnvFile!ReadQuoted(Quoting!Fold(start, e), "bs")
    BY <1>0, <2>1, Quoting!FoldAppend, Zenon
  <2> HIDE DEF f
  <2>6. Append(f, d) \in Seq(Token) /\ OneLine(Append(f, d))
    BY <2>1, <2>4, LineGrows, Zenon
  <2>7. Quoting!Fold(start, Append(f, d)) = EnvFile!ReadQuoted(Quoting!Fold(start, f), d)
    BY <2>1, <2>4, Quoting!FoldAppend, Zenon
  <2> QED
    BY <1>0, <2>2, <2>3, <2>5, <2>6, <2>7, Zenon DEF ReadsAs
<1> QED
  BY <1>1, <1>2

\* So it is with all characters of a value.
LEMMA QuotedReads ==
  ASSUME NEW v \in Seq(Token)
  PROVE  ReadsAs(EnvFile!Escaped(v), v)
<1> DEFINE n == Len(v)
<1>0. n \in Nat /\ 0 \in 0 .. n /\ n \in 0 .. n
  OBVIOUS
<1>1. PICK h : Escaping!IsRun(<<>>, v, h) /\ h[n] = EnvFile!Escaped(v)
  <2>1. Escaping!Fold(<<>>, v) = EnvFile!Escaped(v)
    BY Zenon DEF Escaping!Fold, Escaping!FoldLeft, Escaping!MapThenFoldSet, Escaping!Max,
       EnvFile!Escaped, EnvFile!FoldLeft, EnvFile!MapThenFoldSet, EnvFile!Max
  <2> QED
    BY <2>1, Escaping!FoldRuns, Zenon
<1> DEFINE good == {k \in 0 .. n : ReadsAs(h[k], Upto(v, k))}
<1>2. 0 \in good
  <2>1. h[0] = <<>> /\ Upto(v, 0) = <<>>
    BY <1>1, AllAndNone, Zenon DEF Escaping!IsRun
  <2>2. <<>> \in Seq(Token) /\ OneLine(<<>>)
    BY DEF OneLine
  <2>3. Quoting!Fold(Text(<<>>), <<>>) = Text(<<>>)
    BY Quoting!FoldNone, Zenon
  <2> QED
    BY <1>0, <2>1, <2>2, <2>3, Zenon DEF ReadsAs
<1>3. ASSUME NEW k \in 0 .. n - 1, k \in good
      PROVE  k + 1 \in good
  <2>1. Upto(v, k + 1) = Append(Upto(v, k), v[k + 1]) /\ v[k + 1] \in Token
    BY OneMore, Zenon
  <2>2. h[k + 1] = EnvFile!EscapeInto(h[k], v[k + 1])
    BY <1>1, Zenon DEF Escaping!IsRun
  <2>3. ReadsAs(h[k], Upto(v, k))
    BY <1>3, Zenon
  <2>4. ReadsAs(EnvFile!EscapeInto(h[k], v[k + 1]), Append(Upto(v, k), v[k + 1]))
    BY <2>1, <2>3, OneRead, Zenon
  <2>5. k + 1 \in 0 .. n
    BY <1>0
  <2> QED
    BY <2>1, <2>2, <2>4, <2>5, Zenon
<1> HIDE DEF good
<1>4. n \in good
  BY <1>0, <1>2, <1>3, Escaping!Induction, Zenon
<1>5. ReadsAs(h[n], Upto(v, n))
  BY <1>4, Zenon DEF good
<1> QED
  BY <1>1, <1>5, AllAndNone, Zenon

\* Nothing is left of nothing.
LEMMA NothingTrimmed == EnvFile!Trim(<<>>) = <<>>
<1>1. EnvFile!TrimStart(<<>>) = <<>>
  <2>1. {i \in 1 .. Len(<<>>) : <<>>[i] \notin EnvFile!Blank} = {}
    OBVIOUS
  <2>2. EnvFile!SelectInSeq(<<>>, LAMBDA c : c \notin EnvFile!Blank) = 0
    BY <2>1, Zenon DEF EnvFile!SelectInSeq
  <2> QED
    BY <2>2, Zenon DEF EnvFile!TrimStart
<1>2. EnvFile!TrimEnd(<<>>) = <<>>
  <2>1. SubSeq(<<>>, 1, 0) = <<>>
    OBVIOUS
  <2>2. {i \in 1 .. Len(<<>>) : <<>>[i] \notin EnvFile!Blank} = {}
    OBVIOUS
  <2> QED
    BY <2>1, <2>2, Zenon DEF EnvFile!TrimEnd, EnvFile!SelectLastInSeq
<1> QED
  BY <1>1, <1>2, Zenon DEF EnvFile!Trim

\* The quoted value after its first quote.
LEMMA ValueReads ==
  ASSUME NEW v \in Seq(Token)
  PROVE  EnvFile!DoubleQuoted(Append(EnvFile!Escaped(v), "dq")) = EnvFile!Yields(v)
<1> DEFINE e == EnvFile!Escaped(v)
<1>1. e \in Seq(Token) /\ Quoting!Fold(Text(<<>>), e) = Text(v)
  BY QuotedReads, Zenon DEF ReadsAs
<1>2. "dq" \in Token
  BY DEF Token
<1> HIDE DEF e
<1>3. Quoting!Fold(Text(<<>>), Append(e, "dq")) = End(v)
  <2>1. Quoting!Fold(Text(<<>>), Append(e, "dq")) = EnvFile!ReadQuoted(Quoting!Fold(Text(<<>>), e), "dq")
    BY <1>1, <1>2, Quoting!FoldAppend, Zenon
  <2> QED
    BY <1>1, <2>1, Closes, Zenon
<1>4. Quoting!Fold(Text(<<>>), Append(e, "dq"))
      = EnvFile!FoldLeft(EnvFile!ReadQuoted, [at |-> "text", value |-> <<>>, trailing |-> <<>>], Append(e, "dq"))
  BY Zenon DEF Quoting!Fold, Quoting!FoldLeft, Quoting!MapThenFoldSet, Quoting!Max,
     EnvFile!FoldLeft, EnvFile!MapThenFoldSet, EnvFile!Max, Text
<1>5. End(v).at = "closed" /\ End(v).value = v /\ End(v).trailing = <<>>
  BY DEF End
<1>6. EnvFile!DoubleQuoted(Append(e, "dq")) = EnvFile!Closed(v, <<>>)
  BY <1>3, <1>4, <1>5, Zenon DEF EnvFile!DoubleQuoted
<1>7. EnvFile!Trim(<<>>) = <<>>
  BY NothingTrimmed, Zenon
<1> QED
  BY <1>6, <1>7, Zenon DEF EnvFile!Closed, e

NameToken == EnvFile!Letter \cup EnvFile!Digit

\* What an export writes: names that are those of variables, and values.
EnvEntry == {e \in [name : Seq(Token), value : Seq(Token)] : EnvFile!ValidEnvName(e.name)}

\* Nothing is trimmed where no blank is at the ends.
LEMMA StartStays ==
  ASSUME NEW T, NEW s \in Seq(T), Len(s) > 0, s[1] \notin EnvFile!Blank
  PROVE  EnvFile!TrimStart(s) = s
<1> DEFINE I == {i \in 1 .. Len(s) : s[i] \notin EnvFile!Blank}
<1>1. 1 \in I /\ \A i \in I : 1 <= i
  OBVIOUS
<1>2. EnvFile!Min(I) = 1
  <2>1. \A x \in I : (\A y \in I : x <= y) => x = 1
    BY <1>1
  <2>2. EnvFile!Min(I) = CHOOSE x \in I : \A y \in I : x <= y
    BY Zenon DEF EnvFile!Min
  <2> HIDE DEF I
  <2> QED
    BY <1>1, <2>1, <2>2, Zenon
<1>3. EnvFile!SelectInSeq(s, LAMBDA c : c \notin EnvFile!Blank) = 1
  <2>1. I # {}
    BY <1>1, Zenon
  <2> QED
    BY <1>2, <2>1, Zenon DEF EnvFile!SelectInSeq
<1>4. SubSeq(s, 1, Len(s)) = s /\ 1 # 0
  OBVIOUS
<1> HIDE DEF I
<1> QED
  BY <1>3, <1>4, Zenon DEF EnvFile!TrimStart

\* The same at both ends.
LEMMA TrimStays ==
  ASSUME NEW T, NEW s \in Seq(T), Len(s) > 0,
         s[1] \notin EnvFile!Blank, s[Len(s)] \notin EnvFile!Blank
  PROVE  EnvFile!Trim(s) = s
<1> DEFINE I == {i \in 1 .. Len(s) : s[i] \notin EnvFile!Blank}
           n == Len(s)
<1>1. n \in I /\ \A i \in I : n >= i
  OBVIOUS
<1>2. EnvFile!Max(I) = n
  <2>1. \A x \in I : (\A y \in I : x >= y) => x = n
    <3> TAKE x \in I
    <3> HAVE \A y \in I : x >= y
    <3>1. x >= n /\ n >= x /\ x \in Int /\ n \in Int
      BY <1>1
    <3> QED
      BY <3>1
  <2>2. EnvFile!Max(I) = CHOOSE x \in I : \A y \in I : x >= y
    BY Zenon DEF EnvFile!Max
  <2> HIDE DEF I, n
  <2> QED
    BY <1>1, <2>1, <2>2, Zenon
<1>3. EnvFile!SelectLastInSeq(s, LAMBDA c : c \notin EnvFile!Blank) = n
  <2>1. I # {}
    BY <1>1, Zenon
  <2> QED
    BY <1>2, <2>1, Zenon DEF EnvFile!SelectLastInSeq
<1>4. SubSeq(s, 1, n) = s
  OBVIOUS
<1>5. EnvFile!TrimStart(s) = s
  BY StartStays, Zenon
<1> HIDE DEF I, n
<1> QED
  BY <1>3, <1>4, <1>5, Zenon DEF EnvFile!Trim, EnvFile!TrimEnd

\* One sequence after the other.
Follows(T, s, t, r) ==
    /\ r \in Seq(T) /\ Len(r) = Len(s) + Len(t)
    /\ \A i \in 1 .. Len(s) : r[i] = s[i]
    /\ \A i \in 1 .. Len(t) : r[Len(s) + i] = t[i]

\* The elements of a joined sequence.
LEMMA JoinedParts ==
  ASSUME NEW T, NEW s \in Seq(T), NEW t \in Seq(T)
  PROVE  Follows(T, s, t, s \o t)
<1>1. s \o t \in Seq(T) /\ Len(s \o t) = Len(s) + Len(t)
  OBVIOUS
<1>2. \A i \in 1 .. Len(s) : (s \o t)[i] = s[i]
  OBVIOUS
<1>3. \A i \in 1 .. Len(t) : (s \o t)[Len(s) + i] = t[i]
  OBVIOUS
<1> QED
  BY <1>1, <1>2, <1>3, Zenon DEF Follows

\* The line of an entry.
LEMMA AssignmentShape ==
  ASSUME NEW T, NEW name \in Seq(T), NEW q \in Seq(T), NEW c \in T, NEW d \in T,
         NEW a, a = name \o <<c, d>> \o q
  PROVE  /\ a \in Seq(T) /\ Len(a) = Len(name) + 2 + Len(q)
         /\ \A i \in 1 .. Len(name) : a[i] = name[i]
         /\ a[Len(name) + 1] = c /\ a[Len(name) + 2] = d
         /\ \A i \in 1 .. Len(q) : a[Len(name) + 2 + i] = q[i]
<1> DEFINE b == name \o <<c, d>>
<1>1. /\ b \in Seq(T) /\ Len(b) = Len(name) + 2
      /\ \A i \in 1 .. Len(name) : b[i] = name[i]
      /\ b[Len(name) + 1] = c /\ b[Len(name) + 2] = d
  OBVIOUS
<1> HIDE DEF b
<1>2. a = b \o q
  BY DEF b
<1>3. /\ a \in Seq(T) /\ Len(a) = Len(b) + Len(q)
      /\ \A i \in 1 .. Len(b) : a[i] = b[i]
      /\ \A i \in 1 .. Len(q) : a[Len(b) + i] = q[i]
  <2>1. b \in Seq(T)
    BY <1>1, Zenon
  <2>2. Follows(T, b, q, a)
    BY <1>2, <2>1, JoinedParts, Zenon
  <2> QED
    BY <2>2, Zenon DEF Follows
<1>4. Len(name) \in Nat /\ Len(q) \in Nat
  OBVIOUS
<1> QED
  BY <1>1, <1>3, <1>4

\* Where the name ends and the value begins.
CutAt(T, name, q, d, a) ==
    LET v == SubSeq(a, Len(name) + 2, Len(a))
    IN  /\ SubSeq(a, 1, Len(name)) = name
        /\ v \in Seq(T) /\ v # <<>> /\ Head(v) = d /\ Tail(v) = q

\* So an assignment is cut.
LEMMA AssignmentParts ==
  ASSUME NEW T, NEW name \in Seq(T), NEW q \in Seq(T), NEW c \in T, NEW d \in T,
         NEW a, a = name \o <<c, d>> \o q
  PROVE  CutAt(T, name, q, d, a)
<1> DEFINE m == Len(name)
           n == Len(q)
           v == SubSeq(a, m + 2, Len(a))
           w == SubSeq(a, 1, m)
<1>1. /\ a \in Seq(T) /\ Len(a) = m + 2 + n
      /\ \A i \in 1 .. m : a[i] = name[i]
      /\ a[m + 1] = c /\ a[m + 2] = d
      /\ \A i \in 1 .. n : a[m + 2 + i] = q[i]
  BY AssignmentShape
<1>2. m \in Nat /\ n \in Nat
  OBVIOUS
<1>3. w \in Seq(T) /\ Len(w) = m /\ \A i \in 1 .. m : w[i] = name[i]
  BY <1>1, <1>2
<1>4. w = name
  <2> HIDE DEF w
  <2> QED
    BY <1>3, Escaping!SameSequence
<1>5. v \in Seq(T) /\ Len(v) = n + 1 /\ \A i \in 1 .. n + 1 : v[i] = a[m + 1 + i]
  BY <1>1, <1>2
<1> HIDE DEF v
<1>6. v # <<>> /\ Head(v) = d
  BY <1>1, <1>2, <1>5
<1>7. Tail(v) \in Seq(T) /\ Len(Tail(v)) = n /\ \A i \in 1 .. n : Tail(v)[i] = v[i + 1]
  BY <1>2, <1>5
<1>8. \A i \in 1 .. n : Tail(v)[i] = q[i]
  <2> TAKE i \in 1 .. n
  <2>1. i + 1 \in 1 .. n + 1 /\ m + 1 + (i + 1) = m + 2 + i
    BY <1>2
  <2> QED
    BY <1>1, <1>5, <1>7, <2>1, Zenon
<1>9. Tail(v) = q
  BY <1>2, <1>7, <1>8, Escaping!SameSequence
<1> QED
  BY <1>4, <1>5, <1>6, <1>9, Zenon DEF v, w, CutAt

\* A name has no character that means something on the line of an assignment.
LEMMA NameTokens ==
  ASSUME NEW name \in Seq(Token), EnvFile!ValidEnvName(name)
  PROVE  /\ Len(name) \in Nat /\ Len(name) > 0
         /\ \A i \in 1 .. Len(name) : name[i] \notin EnvFile!Blank \cup {"=", "#", "export", "nl"}
         /\ name[1] \notin EnvFile!Blank \cup {"=", "#", "export", "nl"}
<1>1. name # <<>> /\ EnvFile!Range(name) \subseteq EnvFile!Letter \cup EnvFile!Digit
  BY Zenon DEF EnvFile!ValidEnvName
<1>2. Len(name) \in Nat /\ Len(name) > 0 /\ DOMAIN name = 1 .. Len(name) /\ 1 \in 1 .. Len(name)
  BY <1>1
<1>3. \A i \in 1 .. Len(name) : name[i] \in EnvFile!Letter \cup EnvFile!Digit
  BY <1>1, <1>2, Zenon DEF EnvFile!Range
<1>4. \A c \in EnvFile!Letter \cup EnvFile!Digit : c \notin EnvFile!Blank \cup {"=", "#", "export", "nl"}
  <2>1. \A c \in {"n", "r", "t", "x", "1"} : c \notin {"tab", "nl", "cr", "=", "#", "export"}
    OBVIOUS
  <2>2. \A c \in {"n", "r", "t", "x", "1"} : c # " "
    BY Zenon
  <2>3. EnvFile!Letter \cup EnvFile!Digit = {"n", "r", "t", "x", "1"}
    BY DEF EnvFile!Letter, EnvFile!Digit
  <2>4. \A c : c \in EnvFile!Blank \cup {"=", "#", "export", "nl"}
               => c = " " \/ c \in {"tab", "nl", "cr", "=", "#", "export"}
    BY Zenon DEF EnvFile!Blank
  <2> QED
    BY <2>1, <2>2, <2>3, <2>4, Zenon
<1> QED
  BY <1>2, <1>3, <1>4, Zenon

\* What is known of the line of an entry.
LineOf(e, a) ==
    LET m == Len(e.name)
    IN  /\ a \in Seq(Token) /\ Len(a) \in Nat /\ Len(a) >= m + 3 /\ OneLine(a)
        /\ \A i \in 1 .. m : a[i] = e.name[i]
        /\ a[m + 1] = "=" /\ a[Len(a)] = "dq"
        /\ SubSeq(a, 1, m) = e.name
        /\ EnvFile!ParseEnvValue(SubSeq(a, m + 2, Len(a))) = EnvFile!Yields(e.value)

\* So the line of every entry is.
LEMMA LineWritten ==
  ASSUME NEW e \in EnvEntry
  PROVE  LineOf(e, EnvFile!Assignment(e))
<1> DEFINE m == Len(e.name)
           esc == EnvFile!Escaped(e.value)
           q == Append(esc, "dq")
           a == EnvFile!Assignment(e)
           n == Len(q)
<1>1. e.name \in Seq(Token) /\ e.value \in Seq(Token) /\ EnvFile!ValidEnvName(e.name)
  BY DEF EnvEntry
<1>2. /\ m \in Nat /\ m > 0
      /\ \A i \in 1 .. m : e.name[i] \notin EnvFile!Blank \cup {"=", "#", "export", "nl"}
  BY <1>1, NameTokens, Zenon
<1>3. esc \in Seq(Token) /\ OneLine(esc)
  BY <1>1, QuotedReads, Zenon DEF ReadsAs
<1>4. "dq" \in Token /\ "=" \in Token /\ "dq" # "nl" /\ "=" # "nl"
  BY DEF Token
<1>5. q \in Seq(Token) /\ OneLine(q)
  BY <1>3, <1>4, LineGrows, Zenon
<1>6. n \in Nat /\ n > 0 /\ q[n] = "dq"
  <2> HIDE DEF esc
  <2> QED
    BY <1>3, <1>4
<1>7. a = e.name \o <<"=", "dq">> \o q
  BY Zenon DEF EnvFile!Assignment
<1>8. EnvFile!DoubleQuoted(q) = EnvFile!Yields(e.value)
  BY <1>1, ValueReads, Zenon
<1> HIDE DEF a, q
<1>9. /\ a \in Seq(Token) /\ Len(a) = m + 2 + n
      /\ \A i \in 1 .. m : a[i] = e.name[i]
      /\ a[m + 1] = "=" /\ a[m + 2] = "dq"
      /\ \A i \in 1 .. n : a[m + 2 + i] = q[i]
  BY <1>1, <1>4, <1>5, <1>7, AssignmentShape
<1> DEFINE v == SubSeq(a, m + 2, Len(a))
<1>10. SubSeq(a, 1, m) = e.name /\ v \in Seq(Token) /\ v # <<>> /\ Head(v) = "dq" /\ Tail(v) = q
  <2>1. CutAt(Token, e.name, q, "dq", a)
    BY <1>1, <1>4, <1>5, <1>7, AssignmentParts, Zenon
  <2> QED
    BY <2>1, Zenon DEF CutAt
<1> HIDE DEF v, m, n
<1>11. EnvFile!ParseEnvValue(v) = EnvFile!Yields(e.value)
  <2>1. Len(v) > 0 /\ v[1] = "dq"
    BY <1>10
  <2>2. "dq" \notin EnvFile!Blank
    BY SMTT(10) DEF EnvFile!Blank
  <2>3. EnvFile!TrimStart(v) = v
    BY <1>10, <2>1, <2>2, StartStays, Zenon
  <2> QED
    BY <1>8, <1>10, <2>3, Zenon DEF EnvFile!ParseEnvValue
<1>12. ASSUME NEW i \in 1 .. Len(a)
       PROVE  a[i] # "nl"
  <2>1. \/ i \in 1 .. m
        \/ i = m + 1 \/ i = m + 2
        \/ \E j \in 1 .. n : i = m + 2 + j
    <3>1. CASE i <= m + 2
      BY <1>2, <1>6, <3>1
    <3>2. CASE i > m + 2
      <4>1. i - (m + 2) \in 1 .. n /\ i = m + 2 + (i - (m + 2))
        BY <1>2, <1>6, <1>9, <3>2
      <4> QED
        BY <4>1, Zenon
    <3> QED
      BY <1>2, <1>6, <1>9, <3>1, <3>2
  <2>2. CASE i \in 1 .. m
    BY <1>2, <1>9, <2>2, Zenon
  <2>3. CASE i = m + 1 \/ i = m + 2
    BY <1>4, <1>9, <2>3, Zenon
  <2>4. ASSUME NEW j \in 1 .. n, i = m + 2 + j
        PROVE  a[i] # "nl"
    BY <1>5, <1>9, <2>4, Zenon DEF OneLine, n
  <2> QED
    BY <2>1, <2>2, <2>3, <2>4, Zenon
<1>13. Len(a) \in Nat /\ Len(a) >= m + 3 /\ a[Len(a)] = "dq"
  <2>1. n \in 1 .. n /\ Len(a) = m + 2 + n /\ Len(a) \in Nat /\ Len(a) >= m + 3
    BY <1>2, <1>6, <1>9
  <2>2. a[m + 2 + n] = "dq"
    BY <1>6, <1>9, <2>1, Zenon
  <2> QED
    BY <2>1, <2>2, Zenon
<1>14. OneLine(a)
  BY <1>12, Zenon DEF OneLine
<1> QED
  BY <1>9, <1>10, <1>11, <1>13, <1>14, Zenon DEF LineOf, v, m, a

\* The line of an entry is read as the entry, unless its name was there already, and
\* refused when it is longer than an import takes.
LEMMA LineParsed ==
  ASSUME NEW e \in EnvEntry, NEW prev, \A p \in EnvFile!Range(prev) : p.name # e.name
  PROVE  EnvFile!ParseLine(EnvFile!Yields(prev), EnvFile!Assignment(e))
         = IF EntryFits(e) THEN EnvFile!Yields(Append(prev, e)) ELSE EnvFile!Fails
<1> DEFINE m == Len(e.name)
           a == EnvFile!Assignment(e)
<1>1. e.name \in Seq(Token) /\ e.value \in Seq(Token) /\ EnvFile!ValidEnvName(e.name)
  BY DEF EnvEntry
<1>2. /\ m \in Nat /\ m > 0
      /\ \A i \in 1 .. m : e.name[i] \notin EnvFile!Blank \cup {"=", "#", "export", "nl"}
      /\ e.name[1] \notin EnvFile!Blank \cup {"=", "#", "export", "nl"}
  BY <1>1, NameTokens, Zenon
<1>3. /\ a \in Seq(Token) /\ Len(a) \in Nat /\ Len(a) >= m + 3 /\ OneLine(a)
      /\ \A i \in 1 .. m : a[i] = e.name[i]
      /\ a[m + 1] = "=" /\ a[Len(a)] = "dq"
      /\ SubSeq(a, 1, m) = e.name
      /\ EnvFile!ParseEnvValue(SubSeq(a, m + 2, Len(a))) = EnvFile!Yields(e.value)
  BY LineWritten, Zenon DEF LineOf
<1> HIDE DEF a, m
<1>4. 1 \in 1 .. m /\ Len(a) > 0 /\ m + 1 \in 1 .. Len(a) /\ m = (m + 1) - 1 /\ m + 2 = (m + 1) + 1 /\ m + 1 # 0
  BY <1>2, <1>3
<1>5. a[1] = e.name[1]
  BY <1>3, <1>4, Zenon
<1>6. a[1] \notin EnvFile!Blank /\ a[1] # "#" /\ a[1] # "export"
  BY <1>2, <1>5
<1>7. "dq" \notin EnvFile!Blank
  BY SMTT(10) DEF EnvFile!Blank
<1>8. EnvFile!Trim(a) = a
  BY <1>3, <1>4, <1>6, <1>7, TrimStays, Zenon
<1>9. a # <<>> /\ Head(a) = a[1]
  BY <1>3, <1>4
<1>10. EnvFile!SelectInSeq(a, LAMBDA c : c = "=") = m + 1
  <2> DEFINE I == {i \in 1 .. Len(a) : a[i] = "="}
  <2>1. m + 1 \in I
    BY <1>3, <1>4
  <2>2. ASSUME NEW i \in I
        PROVE  m + 1 <= i
    <3>1. i \in Nat /\ i >= 1 /\ a[i] = "="
      BY <2>2
    <3>2. ~ (i \in 1 .. m)
      BY <1>2, <1>3, <3>1
    <3> QED
      BY <1>2, <3>1, <3>2
  <2>3. EnvFile!Min(I) = m + 1
    <3>1. \A x \in I : (\A y \in I : x <= y) => x = m + 1
      <4> TAKE x \in I
      <4> HAVE \A y \in I : x <= y
      <4>1. x <= m + 1 /\ m + 1 <= x /\ x \in Int /\ m + 1 \in Int
        BY <1>2, <2>1, <2>2
      <4> QED
        BY <4>1
    <3>2. EnvFile!Min(I) = CHOOSE x \in I : \A y \in I : x <= y
      BY Zenon DEF EnvFile!Min
    <3> HIDE DEF I
    <3> QED
      BY <2>1, <2>2, <3>1, <3>2, Zenon
  <2>4. I # {}
    BY <2>1, Zenon
  <2> QED
    BY <2>3, <2>4, Zenon DEF EnvFile!SelectInSeq
<1>11. EnvFile!Trim(e.name) = e.name
  <2>1. m \in 1 .. m
    BY <1>2
  <2>2. e.name[m] \notin EnvFile!Blank /\ e.name[1] \notin EnvFile!Blank
    BY <1>2, <2>1
  <2> QED
    BY <1>1, <1>2, <2>2, TrimStays, Zenon DEF m
<1>12. [name |-> e.name, value |-> e.value] = e
  BY DEF EnvEntry
<1>13. /\ EnvFile!Yields(prev).ok = TRUE /\ EnvFile!Yields(prev).value = prev
       /\ EnvFile!Yields(e.value).ok = TRUE /\ EnvFile!Yields(e.value).value = e.value
  BY DEF EnvFile!Yields
<1>14. EnvFile!Trim(SubSeq(a, 1, (m + 1) - 1)) = e.name
  BY <1>3, <1>4, <1>11, Zenon
<1>15. EnvFile!ParseEnvValue(SubSeq(a, (m + 1) + 1, Len(a))) = EnvFile!Yields(e.value)
  BY <1>3, <1>4, Zenon
<1> HIDE DEF m
<1>16. CASE EntryFits(e)
  <2>1. EnvFile!Bytes(a) <= MaxEnvLine /\ EnvFile!Bytes(e.value) <= MaxEnvValue
    BY <1>16, Zenon DEF EntryFits, a
  <2>2. EnvFile!ParseLine(EnvFile!Yields(prev), a) = EnvFile!Yields(Append(prev, e))
    BY <1>1, <1>4, <1>6, <1>8, <1>9, <1>10, <1>12, <1>13, <1>14, <1>15, <2>1, Zenon DEF EnvFile!ParseLine
  <2> QED
    BY <1>16, <2>2, Zenon DEF a
<1>17. CASE ~ EntryFits(e)
  <2>1. ~ EnvFile!Bytes(a) <= MaxEnvLine \/ ~ EnvFile!Bytes(e.value) <= MaxEnvValue
    BY <1>17, Zenon DEF EntryFits, a
  <2>2. EnvFile!ParseLine(EnvFile!Yields(prev), a) = EnvFile!Fails
    BY <1>6, <1>8, <1>9, <1>10, <1>13, <1>15, <2>1, Zenon DEF EnvFile!ParseLine
  <2> QED
    BY <1>17, <2>2, Zenon DEF a
<1> QED
  BY <1>16, <1>17, Zenon

\* What is refused stays so.
LEMMA StaysRefused ==
  ASSUME NEW raw
  PROVE  EnvFile!ParseLine(EnvFile!Fails, raw) = EnvFile!Fails
<1>1. EnvFile!Fails.ok = FALSE
  BY DEF EnvFile!Fails
<1> QED
  BY <1>1, Zenon DEF EnvFile!ParseLine

\* An empty line changes nothing.
LEMMA EmptyLine ==
  ASSUME NEW entries
  PROVE  EnvFile!ParseLine(EnvFile!Yields(entries), <<>>) = EnvFile!Yields(entries)
<1>1. EnvFile!Bytes(<<>>) <= MaxEnvLine
  <2> DEFINE I == {i \in DOMAIN <<>> : <<>>[i] = "export"}
  <2>1. I = {}
    OBVIOUS
  <2>2. EnvFile!Cardinality(I) = Cardinality(I)
    BY Zenon DEF EnvFile!Cardinality, Cardinality
  <2>3. EnvFile!Cardinality(I) = 0
    BY <2>1, <2>2, FS_EmptySet, Zenon
  <2>4. EnvFile!Bytes(<<>>) = Len(<<>>) + 6 * EnvFile!Cardinality(I)
    BY Zenon DEF EnvFile!Bytes
  <2> HIDE DEF I
  <2>5. EnvFile!Bytes(<<>>) = 0
    BY <2>3, <2>4
  <2> QED
    BY <2>5, EnvAssumption
<1>2. EnvFile!Yields(entries).ok = TRUE
  BY DEF EnvFile!Yields
<1> QED
  BY <1>1, <1>2, NothingTrimmed, Zenon DEF EnvFile!ParseLine

Breaking == INSTANCE FoldFacts WITH Op <- EnvFile!LineInto
Writing == INSTANCE FoldFacts WITH Op <- EnvFile!WriteInto
Parsing == INSTANCE FoldFacts WITH Op <- EnvFile!ParseLine

\* A character goes to the end of the last line.
LEMMA LastLine ==
  ASSUME NEW lines \in Seq(Seq(Token)), NEW w \in Seq(Token), NEW c \in Token, c # "nl"
  PROVE  EnvFile!LineInto(Append(lines, w), c) = Append(lines, Append(w, c))
<1> DEFINE n == Len(lines)
           a == Append(lines, w)
           b == Append(lines, Append(w, c))
           r == [a EXCEPT ![Len(a)] = Append(@, c)]
<1>1. n \in Nat /\ Append(w, c) \in Seq(Token)
  OBVIOUS
<1>2. a \in Seq(Seq(Token)) /\ Len(a) = n + 1 /\ a[n + 1] = w /\ \A i \in 1 .. n : a[i] = lines[i]
  OBVIOUS
<1>3. b \in Seq(Seq(Token)) /\ Len(b) = n + 1 /\ b[n + 1] = Append(w, c) /\ \A i \in 1 .. n : b[i] = lines[i]
  <2> DEFINE x == Append(w, c)
  <2>1. x \in Seq(Token)
    BY <1>1
  <2> HIDE DEF x
  <2>2. /\ Append(lines, x) \in Seq(Seq(Token)) /\ Len(Append(lines, x)) = n + 1
        /\ Append(lines, x)[n + 1] = x /\ \A i \in 1 .. n : Append(lines, x)[i] = lines[i]
    BY <2>1
  <2> QED
    BY <2>2, Zenon DEF x
<1>4. EnvFile!LineInto(a, c) = r
  BY Zenon DEF EnvFile!LineInto
<1> HIDE DEF a, b
<1>5. r = [a EXCEPT ![n + 1] = Append(w, c)]
  BY <1>2
<1>6. /\ r \in Seq(Seq(Token)) /\ Len(r) = n + 1
      /\ \A i \in 1 .. n + 1 : r[i] = IF i = n + 1 THEN Append(w, c) ELSE a[i]
  <2> DEFINE x == Append(w, c)
             z == [a EXCEPT ![n + 1] = x]
  <2>1. x \in Seq(Token) /\ n + 1 \in 1 .. n + 1
    BY <1>1
  <2> HIDE DEF x, n
  <2>2. z \in Seq(Seq(Token)) /\ Len(z) = n + 1
    BY <1>1, <1>2, <2>1 DEF n
  <2>3. \A i \in 1 .. n + 1 : z[i] = IF i = n + 1 THEN x ELSE a[i]
    BY <1>1, <1>2, <2>1 DEF n
  <2>4. r = z
    BY <1>5, Zenon DEF x, n
  <2> HIDE DEF z, r
  <2> QED
    BY <2>2, <2>3, <2>4, Zenon DEF x, n
<1> HIDE DEF r
<1>7. \A i \in 1 .. n + 1 : r[i] = b[i]
  <2> TAKE i \in 1 .. n + 1
  <2>1. i = n + 1 \/ (i \in 1 .. n /\ i # n + 1)
    BY <1>1
  <2>2. CASE i = n + 1
    BY <1>3, <1>6, <2>2, Zenon
  <2>3. CASE i \in 1 .. n /\ i # n + 1
    BY <1>2, <1>3, <1>6, <2>3, Zenon
  <2> QED
    BY <2>1, <2>2, <2>3, Zenon
<1>8. r = b
  <2> HIDE DEF n
  <2> QED
    BY <1>3, <1>6, <1>7, Escaping!SameSequence, Zenon
<1> QED
  BY <1>4, <1>8, Zenon DEF a, b

\* A text without a newline becomes the last line.
LEMMA LineBroken ==
  ASSUME NEW lines \in Seq(Seq(Token)), NEW w \in Seq(Token), OneLine(w)
  PROVE  Breaking!Fold(Append(lines, <<>>), w) = Append(lines, w)
<1> DEFINE n == Len(w)
<1>0. n \in Nat /\ 0 \in 0 .. n /\ n \in 0 .. n
  OBVIOUS
<1>1. PICK h : Breaking!IsRun(Append(lines, <<>>), w, h) /\ h[n] = Breaking!Fold(Append(lines, <<>>), w)
  BY Breaking!FoldRuns, Zenon
<1> DEFINE good == {k \in 0 .. n : h[k] = Append(lines, Upto(w, k))}
<1>2. 0 \in good
  BY <1>0, <1>1, AllAndNone, Zenon DEF Breaking!IsRun
<1>3. ASSUME NEW k \in 0 .. n - 1, k \in good
      PROVE  k + 1 \in good
  <2>1. Upto(w, k) \in Seq(Token) /\ Upto(w, k + 1) = Append(Upto(w, k), w[k + 1]) /\ w[k + 1] \in Token
    BY OneMore, Zenon
  <2>2. h[k + 1] = EnvFile!LineInto(h[k], w[k + 1])
    BY <1>1, Zenon DEF Breaking!IsRun
  <2>3. k + 1 \in 0 .. n /\ k + 1 \in 1 .. n
    BY <1>0
  <2>4. w[k + 1] # "nl"
    BY <2>3, Zenon DEF OneLine
  <2>5. EnvFile!LineInto(Append(lines, Upto(w, k)), w[k + 1]) = Append(lines, Append(Upto(w, k), w[k + 1]))
    BY <2>1, <2>4, LastLine, Zenon
  <2>6. h[k] = Append(lines, Upto(w, k))
    BY <1>3, Zenon
  <2> QED
    BY <2>1, <2>2, <2>3, <2>5, <2>6, Zenon
<1> HIDE DEF good
<1>4. n \in good
  BY <1>0, <1>2, <1>3, Escaping!Induction, Zenon
<1>5. h[n] = Append(lines, Upto(w, n))
  BY <1>4, Zenon DEF good
<1> QED
  BY <1>1, <1>5, AllAndNone, Zenon

\* The texts of the entries, and their lines.
TextLines(entries) == [i \in 1 .. Len(entries) |-> EnvFile!Assignment(entries[i])]

\* Each text is the line of its entry.
LEMMA TextLinesOf ==
  ASSUME NEW entries \in Seq(EnvEntry)
  PROVE  /\ TextLines(entries) \in Seq(Seq(Token)) /\ Len(TextLines(entries)) = Len(entries)
         /\ \A i \in 1 .. Len(entries) : /\ entries[i] \in EnvEntry
                                        /\ LineOf(entries[i], TextLines(entries)[i])
                                        /\ TextLines(entries)[i] = EnvFile!Assignment(entries[i])
<1> DEFINE n == Len(entries)
           b == TextLines(entries)
<1>1. n \in Nat /\ \A i \in 1 .. n : entries[i] \in EnvEntry
  OBVIOUS
<1>2. \A i \in 1 .. n : LineOf(entries[i], EnvFile!Assignment(entries[i]))
  BY <1>1, LineWritten, Zenon
<1>3. \A i \in 1 .. n : EnvFile!Assignment(entries[i]) \in Seq(Token)
  BY <1>2, Zenon DEF LineOf
<1>4. b \in [1 .. n -> Seq(Token)]
  BY <1>3, Zenon DEF TextLines
<1>5. b \in Seq(Seq(Token)) /\ Len(b) = n
  <2> HIDE DEF b
  <2> QED
    BY <1>1, <1>4
<1> QED
  BY <1>1, <1>2, <1>5, Zenon DEF TextLines

\* A text that is cut into lines gives those before it and what it holds.
Holding(text, lines) ==
    text \in Seq(Token) /\ Breaking!Fold(<< <<>> >>, text) = Append(lines, <<>>)

\* One line is written, and broken off.
LEMMA OneLineMore ==
  ASSUME NEW text, NEW lines \in Seq(Seq(Token)), Holding(text, lines),
         NEW w \in Seq(Token), OneLine(w)
  PROVE  Holding(text \o Append(w, "nl"), Append(lines, w))
<1> DEFINE x == Append(w, "nl")
           first == << <<>> >>
<1>0. text \in Seq(Token) /\ Breaking!Fold(first, text) = Append(lines, <<>>)
  BY Zenon DEF Holding
<1>1. "nl" \in Token
  BY DEF Token
<1>2. x \in Seq(Token)
  BY <1>1
<1>3. text \o x \in Seq(Token)
  <2> HIDE DEF x
  <2> QED
    BY <1>0, <1>2
<1>4. Breaking!Fold(first, text \o x) = Breaking!Fold(Append(lines, <<>>), x)
  <2> HIDE DEF x
  <2>1. Breaking!Fold(first, text \o x) = Breaking!Fold(Breaking!Fold(first, text), x)
    BY <1>0, <1>2, Breaking!FoldJoin, Zenon
  <2> QED
    BY <1>0, <2>1, Zenon
<1>5. Breaking!Fold(Append(lines, <<>>), x) = EnvFile!LineInto(Breaking!Fold(Append(lines, <<>>), w), "nl")
  BY <1>1, Breaking!FoldAppend, Zenon
<1>6. Breaking!Fold(Append(lines, <<>>), w) = Append(lines, w)
  BY LineBroken, Zenon
<1>7. EnvFile!LineInto(Append(lines, w), "nl") = Append(Append(lines, w), <<>>)
  BY Zenon DEF EnvFile!LineInto
<1> QED
  BY <1>3, <1>4, <1>5, <1>6, <1>7, Zenon DEF Holding

\* The file has a line for each entry.
LEMMA FileBroken ==
  ASSUME NEW entries \in Seq(EnvEntry)
  PROVE  Holding(EnvFile!Written(entries), TextLines(entries))
<1> DEFINE n == Len(entries)
           b == TextLines(entries)
<1>0. n \in Nat /\ 0 \in 0 .. n /\ n \in 0 .. n
  OBVIOUS
<1>1. /\ b \in Seq(Seq(Token)) /\ Len(b) = n
      /\ \A i \in 1 .. n : LineOf(entries[i], b[i]) /\ b[i] = EnvFile!Assignment(entries[i])
  BY TextLinesOf, Zenon
<1> HIDE DEF b
<1>2. PICK h : Writing!IsRun(<<>>, entries, h) /\ h[n] = EnvFile!Written(entries)
  <2>1. Writing!Fold(<<>>, entries) = EnvFile!Written(entries)
    BY Zenon DEF Writing!Fold, Writing!FoldLeft, Writing!MapThenFoldSet, Writing!Max,
       EnvFile!Written, EnvFile!FoldLeft, EnvFile!MapThenFoldSet, EnvFile!Max
  <2> QED
    BY <2>1, Writing!FoldRuns, Zenon
<1> DEFINE good == {k \in 0 .. n : Holding(h[k], Upto(b, k))}
<1>3. 0 \in good
  <2>1. h[0] = <<>> /\ Upto(b, 0) = <<>>
    BY <1>1, <1>2, AllAndNone, Zenon DEF Writing!IsRun
  <2>2. Breaking!Fold(<< <<>> >>, <<>>) = << <<>> >>
    BY Breaking!FoldNone, Zenon
  <2>3. Append(<<>>, <<>>) = << <<>> >> /\ <<>> \in Seq(Token)
    OBVIOUS
  <2> QED
    BY <1>0, <2>1, <2>2, <2>3, Zenon DEF Holding
<1>4. ASSUME NEW k \in 0 .. n - 1, k \in good
      PROVE  k + 1 \in good
  <2>1. k \in 0 .. Len(b) - 1 /\ k + 1 \in 1 .. n /\ k + 1 \in 0 .. n
    BY <1>0, <1>1
  <2>2. Upto(b, k) \in Seq(Seq(Token)) /\ Upto(b, k + 1) = Append(Upto(b, k), b[k + 1]) /\ b[k + 1] \in Seq(Token)
    BY <1>1, <2>1, OneMore, Zenon
  <2>3. h[k + 1] = EnvFile!WriteInto(h[k], entries[k + 1])
    BY <1>2, Zenon DEF Writing!IsRun
  <2>4. h[k + 1] = h[k] \o Append(b[k + 1], "nl")
    BY <1>1, <2>1, <2>3, Zenon DEF EnvFile!WriteInto
  <2>5. OneLine(b[k + 1])
    BY <1>1, <2>1, Zenon DEF LineOf
  <2>6. Holding(h[k], Upto(b, k))
    BY <1>4, Zenon
  <2>7. Holding(h[k] \o Append(b[k + 1], "nl"), Append(Upto(b, k), b[k + 1]))
    BY <2>2, <2>5, <2>6, OneLineMore, Zenon
  <2> QED
    BY <2>1, <2>2, <2>4, <2>7, Zenon
<1> HIDE DEF good
<1>5. n \in good
  BY <1>0, <1>3, <1>4, Escaping!Induction, Zenon
<1>6. Holding(h[n], Upto(b, n))
  BY <1>5, Zenon DEF good
<1>7. Upto(b, n) = b
  BY <1>1, AllAndNone, Zenon
<1> QED
  BY <1>2, <1>6, <1>7, Zenon DEF b

\* The last line is empty, and no line ends with a carriage return.
LEMMA LinesRead ==
  ASSUME NEW entries \in Seq(EnvEntry)
  PROVE  EnvFile!Lines(EnvFile!Written(entries)) = Append(TextLines(entries), <<>>)
<1> DEFINE n == Len(entries)
           b == TextLines(entries)
           all == Append(b, <<>>)
           text == EnvFile!Written(entries)
<1>1. /\ n \in Nat /\ b \in Seq(Seq(Token)) /\ Len(b) = n
      /\ \A i \in 1 .. n : LineOf(entries[i], b[i])
  BY TextLinesOf DEF TextLines
<1>2. EnvFile!FoldLeft(EnvFile!LineInto, << <<>> >>, text) = all
  <2>1. Breaking!Fold(<< <<>> >>, text) = EnvFile!FoldLeft(EnvFile!LineInto, << <<>> >>, text)
    BY Zenon DEF Breaking!Fold, Breaking!FoldLeft, Breaking!MapThenFoldSet, Breaking!Max,
       EnvFile!FoldLeft, EnvFile!MapThenFoldSet, EnvFile!Max
  <2> QED
    BY <2>1, FileBroken, Zenon DEF Holding
<1> HIDE DEF b
<1>3. /\ DOMAIN all = 1 .. n + 1 /\ all[n + 1] = <<>> /\ \A i \in 1 .. n : all[i] = b[i]
      /\ all = [i \in DOMAIN all |-> all[i]]
  <2>1. <<>> \in Seq(Token)
    OBVIOUS
  <2>2. all \in Seq(Seq(Token)) /\ Len(all) = n + 1 /\ all[n + 1] = <<>>
    BY <1>1, <2>1
  <2>3. \A i \in 1 .. n : all[i] = b[i]
    BY <1>1, <2>1
  <2> HIDE DEF all
  <2>4. DOMAIN all = 1 .. n + 1 /\ all = [i \in DOMAIN all |-> all[i]]
    BY <2>2
  <2> QED
    BY <2>2, <2>3, <2>4, Zenon
<1> HIDE DEF all, text
<1>4. ASSUME NEW i \in 1 .. n + 1
      PROVE  EnvFile!Chomp(all[i]) = all[i]
  <2>1. i = n + 1 \/ i \in 1 .. n
    BY <1>1
  <2>2. CASE i = n + 1
    BY <1>3, <2>2, Zenon DEF EnvFile!Chomp
  <2>3. CASE i \in 1 .. n
    <3>1. b[i][Len(b[i])] = "dq"
      BY <1>1, <2>3, Zenon DEF LineOf
    <3>2. "dq" # "cr"
      OBVIOUS
    <3> QED
      BY <1>3, <2>3, <3>1, <3>2, Zenon DEF EnvFile!Chomp, EnvFile!Last
  <2> QED
    BY <2>1, <2>2, <2>3
<1>5. [i \in DOMAIN all |-> EnvFile!Chomp(all[i])] = [i \in DOMAIN all |-> all[i]]
  BY <1>3, <1>4, Zenon
<1> QED
  BY <1>2, <1>3, <1>5, Zenon DEF EnvFile!Lines, all, text, b

\* What is read of the first entries.
FitUpto(entries, k) == \A i \in 1 .. k : EntryFits(entries[i])
ReadUpto(entries, k) == IF FitUpto(entries, k) THEN EnvFile!Yields(Upto(entries, k)) ELSE EnvFile!Fails

\* One entry more is read, or refused.
LEMMA EntryRead ==
  ASSUME NEW entries \in Seq(EnvEntry), NEW k \in 0 .. Len(entries) - 1,
         \A p \in EnvFile!Range(Upto(entries, k)) : p.name # entries[k + 1].name
  PROVE  EnvFile!ParseLine(ReadUpto(entries, k), EnvFile!Assignment(entries[k + 1])) = ReadUpto(entries, k + 1)
<1> DEFINE e == entries[k + 1]
           prev == Upto(entries, k)
<1>1. e \in EnvEntry /\ Upto(entries, k + 1) = Append(prev, e)
  BY OneMore, Zenon
<1>2. FitUpto(entries, k + 1) <=> FitUpto(entries, k) /\ EntryFits(e)
  <2>1. \A i : i \in 1 .. k + 1 <=> (i \in 1 .. k \/ i = k + 1)
    OBVIOUS
  <2> QED
    BY <2>1, Zenon DEF FitUpto
<1> HIDE DEF e, prev
<1>3. CASE FitUpto(entries, k)
  <2>1. ReadUpto(entries, k) = EnvFile!Yields(prev)
    BY <1>3, Zenon DEF ReadUpto, prev
  <2>2. EnvFile!ParseLine(EnvFile!Yields(prev), EnvFile!Assignment(e))
        = IF EntryFits(e) THEN EnvFile!Yields(Append(prev, e)) ELSE EnvFile!Fails
    BY <1>1, LineParsed, Zenon DEF e, prev
  <2>3. ReadUpto(entries, k + 1) = IF EntryFits(e) THEN EnvFile!Yields(Append(prev, e)) ELSE EnvFile!Fails
    BY <1>1, <1>2, <1>3, Zenon DEF ReadUpto
  <2> QED
    BY <2>1, <2>2, <2>3, Zenon DEF e
<1>4. CASE ~ FitUpto(entries, k)
  BY <1>2, <1>4, StaysRefused, Zenon DEF ReadUpto
<1> QED
  BY <1>3, <1>4, Zenon

\* What is written is read back if an import can take it, whatever the values hold, and
\* refused as a whole if not.
THEOREM WrittenReads ==
  ASSUME NEW entries \in Seq(EnvEntry), entries # <<>>,
         \A i, j \in DOMAIN entries : entries[i].name = entries[j].name => i = j
  PROVE  EnvFile!ReadEnv(EnvFile!Written(entries))
         = IF EnvFits(entries) THEN EnvFile!Yields(entries) ELSE EnvFile!Fails
<1> DEFINE n == Len(entries)
           b == TextLines(entries)
<1>0. n \in Nat /\ 0 \in 0 .. n /\ n \in 0 .. n /\ DOMAIN entries = 1 .. n
  OBVIOUS
<1>1. /\ b \in Seq(Seq(Token)) /\ Len(b) = n
      /\ \A i \in 1 .. n : entries[i] \in EnvEntry /\ b[i] = EnvFile!Assignment(entries[i])
  BY TextLinesOf, Zenon
<1>2. EnvFile!Lines(EnvFile!Written(entries)) = Append(b, <<>>)
  BY LinesRead, Zenon
<1> HIDE DEF b
<1> DEFINE start == EnvFile!Yields(<<>>)
<1>3. PICK h : Parsing!IsRun(start, b, h) /\ h[Len(b)] = Parsing!Fold(start, b)
  BY <1>1, Parsing!FoldRuns, Zenon
<1> DEFINE good == {k \in 0 .. n : h[k] = ReadUpto(entries, k)}
<1>4. 0 \in good
  <2>1. \A i : ~ (i \in 1 .. 0)
    OBVIOUS
  <2>2. ReadUpto(entries, 0) = start
    BY <2>1, AllAndNone, Zenon DEF ReadUpto, FitUpto
  <2> QED
    BY <1>0, <1>3, <2>2, Zenon DEF Parsing!IsRun
<1>5. ASSUME NEW k \in 0 .. n - 1, k \in good
      PROVE  k + 1 \in good
  <2> DEFINE prev == Upto(entries, k)
             e == entries[k + 1]
  <2>1. k \in 0 .. Len(b) - 1 /\ k + 1 \in 1 .. n /\ k + 1 \in 0 .. n /\ k \in Nat /\ k <= n
    BY <1>0, <1>1
  <2>2. prev \in Seq(EnvEntry) /\ Upto(entries, k + 1) = Append(prev, e)
    BY OneMore, Zenon
  <2>3. h[k + 1] = EnvFile!ParseLine(h[k], b[k + 1])
    BY <1>3, <2>1, Zenon DEF Parsing!IsRun
  <2>4. b[k + 1] = EnvFile!Assignment(e) /\ e \in EnvEntry
    BY <1>1, <2>1, Zenon
  <2>5. DOMAIN prev = 1 .. k /\ \A i \in 1 .. k : prev[i] = entries[i]
    BY <1>0, <2>1 DEF Upto
  <2>6. \A p \in EnvFile!Range(prev) : p.name # e.name
    <3>1. ASSUME NEW i \in 1 .. k
          PROVE  prev[i].name # e.name
      <4>1. i \in DOMAIN entries /\ k + 1 \in DOMAIN entries /\ i # k + 1
        BY <1>0, <2>1
      <4> QED
        BY <2>5, <4>1, Zenon
    <3> HIDE DEF prev
    <3> QED
      BY <2>5, <3>1, Zenon DEF EnvFile!Range
  <2>7. h[k] = ReadUpto(entries, k)
    BY <1>5, Zenon
  <2>8. EnvFile!ParseLine(ReadUpto(entries, k), EnvFile!Assignment(e)) = ReadUpto(entries, k + 1)
    BY <2>6, EntryRead, Zenon
  <2> HIDE DEF prev, e
  <2> QED
    BY <2>1, <2>3, <2>4, <2>7, <2>8, Zenon
<1> HIDE DEF good
<1>6. n \in good
  BY <1>0, <1>4, <1>5, Escaping!Induction, Zenon
<1> DEFINE all == ReadUpto(entries, n)
<1>7. Parsing!Fold(start, b) = all
  BY <1>1, <1>3, <1>6, Zenon DEF good
<1>8. Parsing!Fold(start, Append(b, <<>>)) = EnvFile!ParseLine(Parsing!Fold(start, b), <<>>)
  <2>1. <<>> \in Seq(Token)
    OBVIOUS
  <2> HIDE DEF start
  <2> QED
    BY <1>1, <2>1, Parsing!FoldAppend, Zenon
<1>9. EnvFile!ParseLine(all, <<>>) = all
  BY EmptyLine, StaysRefused, Zenon DEF ReadUpto
<1>10. EnvFile!FoldLeft(EnvFile!ParseLine, start, EnvFile!Lines(EnvFile!Written(entries))) = all
  <2>1. Parsing!Fold(start, Append(b, <<>>)) = EnvFile!FoldLeft(EnvFile!ParseLine, start, Append(b, <<>>))
    BY Zenon DEF Parsing!Fold, Parsing!FoldLeft, Parsing!MapThenFoldSet, Parsing!Max,
       EnvFile!FoldLeft, EnvFile!MapThenFoldSet, EnvFile!Max
  <2> QED
    BY <1>2, <1>7, <1>8, <1>9, <2>1, Zenon
<1> HIDE DEF all
<1>11. EnvFile!Yields(entries).value = entries /\ EnvFile!Fails.value = <<>>
  BY DEF EnvFile!Yields, EnvFile!Fails
<1>12. EnvFits(entries) <=> /\ FitUpto(entries, n) /\ Len(entries) <= MaxEnvEntries
                            /\ EnvFile!Bytes(EnvFile!Written(entries)) <= MaxEnvFile
  BY <1>0, Zenon DEF EnvFits, FitUpto
<1>13. all = IF FitUpto(entries, n) THEN EnvFile!Yields(entries) ELSE EnvFile!Fails
  BY AllAndNone, Zenon DEF all, ReadUpto
<1> QED
  BY <1>10, <1>11, <1>12, <1>13, Zenon DEF EnvFile!ReadEnv, EnvFile!ParseEnv

-----------------------------------------------------------------------------
(* Exports.  A vault's scopes are a tree; what hangs on a profile's scope,  *)
(* without other profiles, is one too.                                      *)

\* One step up.
UpFrom(scopes, at) == IF at \in DOMAIN scopes THEN scopes[at].parent ELSE None

\* A way up of n steps.
Ascends(scopes, s, n, way) ==
    way[0] = s /\ \A k \in 0 .. n - 1 : way[k + 1] = UpFrom(scopes, way[k])

\* Above s there is nothing after at most d scopes.
Ends(scopes, s, d) == \E n \in 0 .. d : \E way : Ascends(scopes, s, n, way) /\ way[n] = None

\* One step up, with the table as the element of a sequence.
UpIn(at, scopes) == UpFrom(scopes, at)
Ascending == INSTANCE FoldFacts WITH Op <- UpIn

\* What Climb is defined by.
ClimbOf(scopes, s, bound, up) ==
    up = [k \in 0 .. bound |-> IF k = 0 THEN s
                               ELSE IF up[k - 1] \in DOMAIN scopes THEN scopes[up[k - 1]].parent
                               ELSE None]

\* There is a way up of any length.
LEMMA WayUp ==
  ASSUME NEW scopes, NEW s, NEW n \in Nat
  PROVE  \E way : Ascends(scopes, s, n, way)
<1> DEFINE tables == [i \in 1 .. n |-> scopes]
<1>1. tables \in Seq({scopes}) /\ Len(tables) = n
  OBVIOUS
<1>2. \A k \in 0 .. n - 1 : tables[k + 1] = scopes
  OBVIOUS
<1> HIDE DEF tables
<1>3. PICK h : Ascending!IsRun(s, tables, h)
  BY <1>1, Ascending!FoldRuns, Zenon
<1>4. h[0] = s /\ \A k \in 0 .. n - 1 : h[k + 1] = UpIn(h[k], tables[k + 1])
  BY <1>1, <1>3, Zenon DEF Ascending!IsRun
<1> QED
  BY <1>2, <1>4, Zenon DEF Ascends, UpIn

\* Two ways up from the same scope are the same.
LEMMA WaysAgree ==
  ASSUME NEW scopes, NEW s, NEW m \in Nat, NEW n \in Nat, NEW a, NEW b, m <= n,
         Ascends(scopes, s, m, a), Ascends(scopes, s, n, b)
  PROVE  \A k \in 0 .. m : a[k] = b[k]
<1> DEFINE T == {k \in 0 .. m : a[k] = b[k]}
<1>1. 0 \in T
  BY DEF Ascends
<1>2. ASSUME NEW k \in 0 .. m - 1, k \in T
      PROVE  k + 1 \in T
  <2>1. k \in 0 .. n - 1 /\ k + 1 \in 0 .. m
    OBVIOUS
  <2>2. a[k + 1] = UpFrom(scopes, a[k]) /\ b[k + 1] = UpFrom(scopes, b[k])
    BY <2>1, Zenon DEF Ascends
  <2>3. a[k] = b[k]
    BY <1>2
  <2> QED
    BY <2>1, <2>2, <2>3, Zenon
<1> HIDE DEF T
<1>3. \A k \in 0 .. m : k \in T
  BY <1>1, <1>2, Ascending!Induction, Zenon
<1> QED
  BY <1>3, Zenon DEF T

\* Climbing is such a way.
LEMMA ClimbAscends ==
  ASSUME NEW scopes, NEW s, NEW bound \in Nat
  PROVE  Ascends(scopes, s, bound, Package!Climb(scopes, s, bound))
<1>1. PICK way : Ascends(scopes, s, bound, way)
  BY WayUp
<1> DEFINE up == [k \in 0 .. bound |-> way[k]]
<1>2. up[0] = s
  BY <1>1 DEF Ascends
<1>3. ASSUME NEW k \in 0 .. bound, k # 0
      PROVE  up[k] = UpFrom(scopes, up[k - 1])
  <2>1. k - 1 \in 0 .. bound - 1 /\ k - 1 \in 0 .. bound /\ (k - 1) + 1 = k
    BY <1>3
  <2>2. way[(k - 1) + 1] = UpFrom(scopes, way[k - 1])
    BY <1>1, <2>1, Zenon DEF Ascends
  <2> QED
    BY <2>1, <2>2, Zenon
<1>4. ClimbOf(scopes, s, bound, up)
  <2> DEFINE F(k) == IF k = 0 THEN s
                     ELSE IF up[k - 1] \in DOMAIN scopes THEN scopes[up[k - 1]].parent
                     ELSE None
  <2>1. \A k \in 0 .. bound : up[k] = F(k)
    <3> HIDE DEF up
    <3> QED
      BY <1>2, <1>3, Zenon DEF UpFrom
  <2>2. up = [k \in 0 .. bound |-> up[k]]
    BY Zenon
  <2>3. [k \in 0 .. bound |-> up[k]] = [k \in 0 .. bound |-> F(k)]
    <3> HIDE DEF up, F
    <3> QED
      BY <2>1, Zenon
  <2>4. up = [k \in 0 .. bound |-> F(k)]
    <3> HIDE DEF up, F
    <3> QED
      BY <2>2, <2>3, Zenon
  <2> HIDE DEF up
  <2> QED
    BY <2>4, Zenon DEF ClimbOf
<1> HIDE DEF up
<1> DEFINE climb == CHOOSE u : ClimbOf(scopes, s, bound, u)
<1>5. ClimbOf(scopes, s, bound, climb)
  BY <1>4, Zenon
<1>6. Package!Climb(scopes, s, bound) = climb
  BY Zenon DEF Package!Climb, ClimbOf
<1> HIDE DEF climb
<1>7. Ascends(scopes, s, bound, climb)
  <2>1. \A k \in 0 .. bound : climb[k] = IF k = 0 THEN s
                               ELSE IF climb[k - 1] \in DOMAIN scopes THEN scopes[climb[k - 1]].parent
                               ELSE None
    BY <1>5, Zenon DEF ClimbOf
  <2>2. 0 \in 0 .. bound
    OBVIOUS
  <2>3. \A k \in 0 .. bound - 1 : k + 1 \in 0 .. bound /\ k + 1 # 0 /\ (k + 1) - 1 = k
    OBVIOUS
  <2> QED
    BY <2>1, <2>2, <2>3, Zenon DEF Ascends, UpFrom
<1> QED
  BY <1>6, <1>7, Zenon

\* A depth within bounds is the number of steps to the end.
LEMMA DepthIs ==
  ASSUME NEW scopes, NEW s, NEW bound \in Nat, NEW d \in 0 .. bound
  PROVE  Package!Depth(scopes, s, bound) <= d <=> Ends(scopes, s, d)
<1> DEFINE up == Package!Climb(scopes, s, bound)
           ends == {k \in 0 .. bound : up[k] = None}
           least == CHOOSE k \in ends : \A j \in ends : k <= j
<1>1. Ascends(scopes, s, bound, up)
  BY ClimbAscends, Zenon
<1>2. Package!Depth(scopes, s, bound) = IF ends = {} THEN bound + 1 ELSE least
  BY Zenon DEF Package!Depth
<1> HIDE DEF up
<1>3. ASSUME ends # {} PROVE least \in ends /\ \A j \in ends : least <= j
  <2>1. ends \subseteq Nat
    OBVIOUS
  <2> HIDE DEF ends
  <2>2. \E k \in ends : \A j \in ends : k <= j
    BY <1>3, <2>1, Ascending!NatMin, Zenon
  <2> QED
    BY <2>2, Zenon
<1>4. ASSUME Package!Depth(scopes, s, bound) <= d
      PROVE  Ends(scopes, s, d)
  <2>1. ends # {}
    <3>1. bound + 1 > d
      OBVIOUS
    <3> HIDE DEF ends, least
    <3> QED
      BY <1>2, <1>4, <3>1
  <2>2. least \in 0 .. bound /\ up[least] = None
    BY <1>3, <2>1
  <2>3. least <= d
    <3> HIDE DEF ends, least
    <3> QED
      BY <1>2, <1>4, <2>1
  <2>4. least \in 0 .. d /\ \A k \in 0 .. least - 1 : k \in 0 .. bound - 1
    <3> HIDE DEF least
    <3> QED
      BY <2>2, <2>3
  <2>5. Ascends(scopes, s, least, up)
    <3> HIDE DEF least
    <3> QED
      BY <1>1, <2>4, Zenon DEF Ascends
  <2> HIDE DEF least
  <2> QED
    BY <2>2, <2>4, <2>5, Zenon DEF Ends
<1>5. ASSUME Ends(scopes, s, d)
      PROVE  Package!Depth(scopes, s, bound) <= d
  <2>0. PICK n \in 0 .. d : \E way : Ascends(scopes, s, n, way) /\ way[n] = None
    BY <1>5, Zenon DEF Ends
  <2>1. PICK way : Ascends(scopes, s, n, way) /\ way[n] = None
    BY <2>0, Zenon
  <2>2. n \in Nat /\ n <= bound /\ n \in 0 .. n /\ n \in 0 .. bound
    OBVIOUS
  <2>3. \A k \in 0 .. n : way[k] = up[k]
    BY <1>1, <2>1, <2>2, WaysAgree
  <2>4. n \in ends
    BY <2>1, <2>2, <2>3, Zenon
  <2>5. least <= n /\ least \in 0 .. bound /\ ends # {}
    <3>1. least \in ends /\ \A j \in ends : least <= j
      BY <1>3, <2>4
    <3>2. least \in 0 .. bound
      <4> HIDE DEF least
      <4> QED
        BY <3>1
    <3> HIDE DEF least, ends
    <3> QED
      BY <2>4, <3>1, <3>2, Zenon
  <2> HIDE DEF least, ends
  <2> QED
    BY <1>2, <2>5
<1> QED
  BY <1>4, <1>5

\* The parent of a scope is a scope, or none.
Rooted(scopes) ==
    None \notin DOMAIN scopes /\ \A s \in DOMAIN scopes : scopes[s].parent \in DOMAIN scopes \cup {None}

\* A table with one row more.
AddRow(scopes, id, row) == [s \in DOMAIN scopes \cup {id} |-> IF s = id THEN row ELSE scopes[s]]

\* The way up does not leave the table before it ends.
LEMMA WayStays ==
  ASSUME NEW scopes, Rooted(scopes), NEW s \in DOMAIN scopes, NEW n \in Nat, NEW way,
         Ascends(scopes, s, n, way)
  PROVE  \A k \in 0 .. n : way[k] \in DOMAIN scopes \cup {None}
<1> DEFINE T == {k \in 0 .. n : way[k] \in DOMAIN scopes \cup {None}}
<1>1. 0 \in T
  BY DEF Ascends
<1>2. ASSUME NEW k \in 0 .. n - 1, k \in T
      PROVE  k + 1 \in T
  <2>1. k + 1 \in 0 .. n
    OBVIOUS
  <2>2. way[k + 1] = UpFrom(scopes, way[k])
    BY Zenon DEF Ascends
  <2>3. UpFrom(scopes, way[k]) \in DOMAIN scopes \cup {None}
    BY Zenon DEF UpFrom, Rooted
  <2> QED
    BY <2>1, <2>2, <2>3, Zenon
<1> HIDE DEF T
<1>3. \A k \in 0 .. n : k \in T
  BY <1>1, <1>2, Ascending!Induction, Zenon
<1> QED
  BY <1>3, Zenon DEF T

\* A row more does not change the way of the others.
LEMMA OthersEnd ==
  ASSUME NEW scopes, Rooted(scopes), NEW s \in DOMAIN scopes, NEW d \in Nat, Ends(scopes, s, d),
         NEW id, id \notin DOMAIN scopes, id # None, NEW row
  PROVE  Ends(AddRow(scopes, id, row), s, d)
<1>1. PICK n \in 0 .. d : \E way : Ascends(scopes, s, n, way) /\ way[n] = None
  BY Zenon DEF Ends
<1>2. PICK way : Ascends(scopes, s, n, way) /\ way[n] = None
  BY <1>1, Zenon
<1> DEFINE grown == AddRow(scopes, id, row)
<1>3. n \in Nat /\ \A k \in 0 .. n - 1 : k \in 0 .. n
  OBVIOUS
<1>4. \A k \in 0 .. n - 1 : way[k] \in DOMAIN scopes \cup {None}
  BY <1>2, <1>3, WayStays, Zenon
<1>5. DOMAIN grown = DOMAIN scopes \cup {id} /\ \A x \in DOMAIN scopes : grown[x] = scopes[x]
  BY DEF AddRow
<1> HIDE DEF grown
<1>6. \A x \in DOMAIN scopes \cup {None} : UpFrom(grown, x) = UpFrom(scopes, x)
  <2>1. None \notin DOMAIN scopes /\ None \notin DOMAIN grown
    BY <1>5 DEF Rooted
  <2> QED
    BY <1>5, <2>1 DEF UpFrom
<1>7. Ascends(grown, s, n, way)
  BY <1>2, <1>4, <1>6, Zenon DEF Ascends
<1> QED
  BY <1>2, <1>7, Zenon DEF Ends, grown

\* A scope is one deeper than its parent.
LEMMA OneHigher ==
  ASSUME NEW scopes, NEW s \in DOMAIN scopes, NEW d \in Nat, Ends(scopes, scopes[s].parent, d)
  PROVE  Ends(scopes, s, d + 1)
<1> DEFINE up == scopes[s].parent
<1>1. PICK n \in 0 .. d : \E way : Ascends(scopes, up, n, way) /\ way[n] = None
  BY Zenon DEF Ends
<1>2. PICK way : Ascends(scopes, up, n, way) /\ way[n] = None
  BY <1>1, Zenon
<1> DEFINE longer == [k \in 0 .. n + 1 |-> IF k = 0 THEN s ELSE way[k - 1]]
<1>3. longer[0] = s /\ longer[n + 1] = way[n]
  OBVIOUS
<1>4. ASSUME NEW k \in 0 .. n
      PROVE  longer[k + 1] = UpFrom(scopes, longer[k])
  <2>1. longer[k + 1] = way[k]
    OBVIOUS
  <2>2. CASE k = 0
    BY <1>2, <2>1, <2>2 DEF Ascends, UpFrom
  <2>3. CASE k # 0
    <3>1. longer[k] = way[k - 1] /\ k - 1 \in 0 .. n - 1 /\ (k - 1) + 1 = k
      BY <2>3
    <3>2. way[(k - 1) + 1] = UpFrom(scopes, way[k - 1])
      BY <1>2, <3>1, Zenon DEF Ascends
    <3> QED
      BY <2>1, <3>1, <3>2, Zenon
  <2> QED
    BY <2>2, <2>3
<1>5. n + 1 \in 0 .. d + 1 /\ (n + 1) - 1 = n
  OBVIOUS
<1> HIDE DEF longer
<1>6. Ascends(scopes, s, n + 1, longer)
  BY <1>3, <1>4, <1>5 DEF Ascends
<1>7. longer[n + 1] = None
  BY <1>2, <1>3, Zenon
<1> QED
  BY <1>5, <1>6, <1>7, Zenon DEF Ends

\* A scope without a parent is the end.
LEMMA RootEnds ==
  ASSUME NEW scopes, NEW s \in DOMAIN scopes, scopes[s].parent = None
  PROVE  Ends(scopes, s, 1)
<1> DEFINE way == [k \in 0 .. 1 |-> IF k = 0 THEN s ELSE None]
<1>1. way[0] = s /\ way[1] = None
  OBVIOUS
<1> HIDE DEF way
<1>2. \A k \in 0 .. 1 - 1 : k = 0
  OBVIOUS
<1>3. Ascends(scopes, s, 1, way)
  BY <1>1, <1>2 DEF Ascends, UpFrom
<1>4. 1 \in 0 .. 1
  OBVIOUS
<1> QED
  BY <1>1, <1>3, <1>4, Zenon DEF Ends

\* What ends soon ends within any longer bound.
LEMMA EndsLater ==
  ASSUME NEW scopes, NEW s, NEW d \in Nat, NEW e \in Nat, d <= e, Ends(scopes, s, d)
  PROVE  Ends(scopes, s, e)
<1>1. \A n \in 0 .. d : n \in 0 .. e
  OBVIOUS
<1> QED
  BY <1>1, Zenon DEF Ends

\* The row of a scope that leaves the vault in an export.
Leaves(rows, scopes, selected, s) ==
    /\ rows[s].parent = IF scopes[s].parent \in selected THEN scopes[s].parent ELSE None
    /\ rows[s].kind = scopes[s].kind
    /\ rows[s].path = scopes[s].path

\* What an export makes of a row.
LEMMA ExportedRow ==
  ASSUME NEW vault, NEW selected, NEW s \in selected,
         NEW A, NEW B, NEW C, vault.scopes[s] \in [parent : A, kind : B, path : C]
  PROVE  Leaves(Package!ExportedScopes(vault, selected), vault.scopes, selected, s)
<1> DEFINE row == vault.scopes[s]
<1>1. Package!ExportedScopes(vault, selected)[s]
      = [row EXCEPT !.parent = IF row.parent \in selected THEN row.parent ELSE None]
  BY Zenon DEF Package!ExportedScopes
<1>2. ASSUME NEW p
      PROVE  LET r == [row EXCEPT !.parent = p]
             IN  r.parent = p /\ r.kind = row.kind /\ r.path = row.path
  <2> HIDE DEF row
  <2>1. row \in [parent : A, kind : B, path : C]
    BY Zenon DEF row
  <2> QED
    BY <2>1
<1> QED
  BY <1>1, <1>2, Zenon DEF Leaves

\* An export's scopes are no deeper than the vault's.
LEMMA ExportEnds ==
  ASSUME NEW vault, NEW selected, None \notin selected, selected \subseteq DOMAIN vault.scopes,
         \A s \in selected : LET up == vault.scopes[s].parent
                             IN  Package!ExportedScopes(vault, selected)[s].parent
                                 = IF up \in selected THEN up ELSE None,
         NEW s \in selected, NEW d \in Nat, Ends(vault.scopes, s, d)
  PROVE  Ends(Package!ExportedScopes(vault, selected), s, d)
<1> DEFINE rows == Package!ExportedScopes(vault, selected)
<1>1. PICK n \in 0 .. d : \E way : Ascends(vault.scopes, s, n, way) /\ way[n] = None
  BY Zenon DEF Ends
<1>2. PICK way : Ascends(vault.scopes, s, n, way) /\ way[n] = None
  BY <1>1, Zenon
<1> DEFINE out == {k \in 0 .. n : way[k] \notin selected}
<1>3. out \subseteq Nat /\ n \in out
  BY <1>2
<1>4. PICK j \in out : \A k \in out : j <= k
  <2> HIDE DEF out
  <2> QED
    BY <1>3, Ascending!NatMin, Zenon
<1>5. way[0] = s
  BY <1>2 DEF Ascends
<1>6. j \in 1 .. n /\ way[j] \notin selected
  BY <1>4, <1>5
<1>7. \A k \in 0 .. j - 1 : k \in 0 .. n - 1 /\ way[k] \in selected
  BY <1>4, <1>6
<1> DEFINE cut == [k \in 0 .. j |-> IF k < j THEN way[k] ELSE None]
<1>8. cut[0] = s /\ cut[j] = None /\ \A k \in 0 .. j - 1 : cut[k] = way[k]
  BY <1>5, <1>6
<1>9. ASSUME NEW k \in 0 .. j - 1
      PROVE  cut[k + 1] = UpFrom(rows, cut[k])
  <2>1. way[k] \in selected /\ cut[k] = way[k]
    BY <1>7, <1>8, Zenon
  <2>2. way[k + 1] = UpFrom(vault.scopes, way[k])
    BY <1>2, <1>7, Zenon DEF Ascends
  <2>3. way[k + 1] = vault.scopes[way[k]].parent
    BY <2>1, <2>2, Zenon DEF UpFrom
  <2>4. UpFrom(rows, way[k]) = IF way[k + 1] \in selected THEN way[k + 1] ELSE None
    <3>1. DOMAIN rows = selected
      BY DEF Package!ExportedScopes
    <3>2. rows[way[k]].parent = IF way[k + 1] \in selected THEN way[k + 1] ELSE None
      <4> HIDE DEF rows
      <4> QED
        BY <2>1, <2>3, Zenon DEF rows
    <3> HIDE DEF rows
    <3> QED
      BY <2>1, <3>1, <3>2, Zenon DEF UpFrom
  <2>5. CASE k + 1 < j
    <3>1. k + 1 \in 0 .. j - 1
      BY <2>5
    <3> HIDE DEF cut, rows
    <3> QED
      BY <1>7, <1>8, <2>1, <2>4, <3>1, Zenon
  <2>6. CASE ~(k + 1 < j)
    <3>1. k + 1 = j
      BY <2>6, <1>6
    <3> HIDE DEF cut, rows
    <3> QED
      BY <1>6, <1>8, <2>1, <2>4, <3>1, Zenon
  <2> QED
    BY <2>5, <2>6, Zenon
<1>10. j \in 0 .. d
  BY <1>6
<1> HIDE DEF cut, rows
<1>11. Ascends(rows, s, j, cut)
  BY <1>8, <1>9, Zenon DEF Ascends
<1> QED
  BY <1>8, <1>10, <1>11, Zenon DEF Ends, rows

\* The scopes of other profiles.
Others(vault, root) == {vault.profiles[p].scope : p \in DOMAIN vault.profiles} \ {root}

\* One round of the loop, with its table and what it leaves out as an element.
GrowIn(selected, x) == Package!Grown(x[1], x[2], selected)
Growing == INSTANCE FoldFacts WITH Op <- GrowIn

\* n rounds of the loop.
Grows(vault, root, n, round) ==
    /\ round[0] = {root}
    /\ \A k \in 0 .. n - 1 : round[k + 1] = Package!Grown(vault.scopes, Others(vault, root), round[k])

\* What the loop is defined by.
RoundOf(vault, root, n, round) ==
    round = [k \in 0 .. n |-> IF k = 0 THEN {root}
                              ELSE Package!Grown(vault.scopes, Others(vault, root), round[k - 1])]

\* The number of a vault's scopes.
LEMMA ScopesCount ==
  ASSUME NEW S, IsFiniteSet(S)
  PROVE  Package!Cardinality(S) \in Nat
<1>1. Package!Cardinality(S) = Cardinality(S)
  BY Zenon DEF Package!Cardinality, Cardinality
<1> QED
  BY <1>1, FS_CardinalityType, Zenon

\* There are any number of rounds.
LEMMA SomeRounds ==
  ASSUME NEW vault, NEW root, NEW n \in Nat
  PROVE  \E round : Grows(vault, root, n, round)
<1> DEFINE x == <<vault.scopes, Others(vault, root)>>
           seq == [i \in 1 .. n |-> x]
<1>1. x[1] = vault.scopes /\ x[2] = Others(vault, root)
  OBVIOUS
<1> HIDE DEF x
<1>2. seq \in Seq({x}) /\ Len(seq) = n /\ \A k \in 0 .. n - 1 : seq[k + 1] = x
  OBVIOUS
<1> HIDE DEF seq
<1>3. PICK h : Growing!IsRun({root}, seq, h)
  BY <1>2, Growing!FoldRuns, Zenon
<1>4. h[0] = {root} /\ \A k \in 0 .. n - 1 : h[k + 1] = GrowIn(h[k], x)
  BY <1>2, <1>3, Zenon DEF Growing!IsRun
<1> QED
  BY <1>1, <1>4, Zenon DEF Grows, GrowIn

\* The selection is what the last round gives.
LEMMA SubtreeRuns ==
  ASSUME NEW vault, NEW root, IsFiniteSet(DOMAIN vault.scopes)
  PROVE  \E n \in Nat : \E round : Grows(vault, root, n, round) /\ round[n] = Package!ProfileSubtree(vault, root)
<1> DEFINE n == Package!Cardinality(DOMAIN vault.scopes)
           others == Others(vault, root)
<1>0. n \in Nat
  BY ScopesCount, Zenon
<1> DEFINE final == CHOOSE round : RoundOf(vault, root, n, round)
<1>1. Package!ProfileSubtree(vault, root) = final[n]
  BY Zenon DEF Package!ProfileSubtree, RoundOf, Others
<1> HIDE DEF n
<1>2. PICK h : Grows(vault, root, n, h)
  BY <1>0, SomeRounds
<1> DEFINE round == [k \in 0 .. n |-> h[k]]
           F(k) == IF k = 0 THEN {root} ELSE Package!Grown(vault.scopes, others, round[k - 1])
<1>3. ASSUME NEW k \in 0 .. n
      PROVE  round[k] = F(k)
  <2>1. CASE k = 0
    BY <1>2, <2>1 DEF Grows
  <2>2. CASE k # 0
    <3>1. k - 1 \in 0 .. n - 1 /\ k - 1 \in 0 .. n /\ (k - 1) + 1 = k
      BY <1>0, <2>2
    <3>2. h[(k - 1) + 1] = Package!Grown(vault.scopes, others, h[k - 1])
      BY <1>2, <3>1, Zenon DEF Grows
    <3>3. round[k] = h[k] /\ round[k - 1] = h[k - 1]
      BY <3>1, Zenon
    <3> HIDE DEF round
    <3> QED
      BY <2>2, <3>1, <3>2, <3>3, Zenon
  <2> QED
    BY <2>1, <2>2
<1>4. RoundOf(vault, root, n, round)
  <2>2. round = [k \in 0 .. n |-> round[k]]
    BY Zenon
  <2>3. [k \in 0 .. n |-> round[k]] = [k \in 0 .. n |-> F(k)]
    <3> HIDE DEF round, F
    <3> QED
      BY <1>3, Zenon
  <2>4. round = [k \in 0 .. n |-> F(k)]
    <3> HIDE DEF round, F
    <3> QED
      BY <2>2, <2>3, Zenon
  <2> HIDE DEF round
  <2> QED
    BY <2>4, Zenon DEF RoundOf
<1> HIDE DEF round
<1>5. RoundOf(vault, root, n, final)
  BY <1>4, Zenon
<1> HIDE DEF final
<1>6. Grows(vault, root, n, final)
  <2>1. \A k \in 0 .. n : final[k] = IF k = 0 THEN {root} ELSE Package!Grown(vault.scopes, others, final[k - 1])
    BY <1>5, Zenon DEF RoundOf
  <2>2. 0 \in 0 .. n
    BY <1>0
  <2>3. \A k \in 0 .. n - 1 : k + 1 \in 0 .. n /\ k + 1 # 0 /\ (k + 1) - 1 = k
    BY <1>0
  <2> QED
    BY <2>1, <2>2, <2>3, Zenon DEF Grows
<1> QED
  BY <1>0, <1>1, <1>6, Zenon

\* Scopes that hang on a root.
Hangs(scopes, root, selected) ==
    /\ root \in selected /\ selected \subseteq DOMAIN scopes
    /\ \A s \in selected \ {root} : scopes[s].parent \in selected

\* What is selected with a root: scopes that hang on it, none of another profile.
Subtree(vault, root, selected) ==
    Hangs(vault.scopes, root, selected) /\ \A s \in selected \ {root} : s \notin Others(vault, root)

\* The loop selects such scopes.
LEMMA SubtreeHangs ==
  ASSUME NEW vault, NEW root \in DOMAIN vault.scopes, IsFiniteSet(DOMAIN vault.scopes)
  PROVE  Subtree(vault, root, Package!ProfileSubtree(vault, root))
<1>1. PICK n \in Nat : \E round : Grows(vault, root, n, round) /\ round[n] = Package!ProfileSubtree(vault, root)
  BY SubtreeRuns, Zenon
<1>2. PICK round : Grows(vault, root, n, round) /\ round[n] = Package!ProfileSubtree(vault, root)
  BY <1>1, Zenon
<1> DEFINE T == {k \in 0 .. n : Subtree(vault, root, round[k])}
<1>3. 0 \in T
  <2>1. 0 \in 0 .. n /\ round[0] = {root}
    BY <1>2 DEF Grows
  <2>2. Subtree(vault, root, {root})
    BY Zenon DEF Subtree, Hangs
  <2> QED
    BY <2>1, <2>2, Zenon
<1>4. ASSUME NEW k \in 0 .. n - 1, k \in T
      PROVE  k + 1 \in T
  <2>1. k + 1 \in 0 .. n
    OBVIOUS
  <2>2. round[k + 1] = Package!Grown(vault.scopes, Others(vault, root), round[k])
    BY <1>2, Zenon DEF Grows
  <2>3. Subtree(vault, root, round[k])
    BY <1>4, Zenon
  <2>4. Subtree(vault, root, Package!Grown(vault.scopes, Others(vault, root), round[k]))
    BY <2>3 DEF Subtree, Hangs, Package!Grown
  <2> QED
    BY <2>1, <2>2, <2>4, Zenon
<1> HIDE DEF T
<1>5. n \in T
  <2>1. \A k \in 0 .. n : k \in T
    BY <1>3, <1>4, Ascending!Induction, Zenon
  <2>2. n \in 0 .. n
    OBVIOUS
  <2> QED
    BY <2>1, <2>2, Zenon
<1> QED
  BY <1>2, <1>5, Zenon DEF T

\* The rows of a vault that grew (PickVault, GrowVault).
ScopeRow == [parent : {Root, None} \cup NewScope, kind : Nat,
             path : Seq({"user", "profile"} \cup Labels \cup NewScope)]

\* Its scopes: a tree of rows with paths of their own.
ScopesForm(scopes) ==
    /\ IsFiniteSet(DOMAIN scopes)
    /\ Root \in DOMAIN scopes /\ DOMAIN scopes \subseteq {Root} \cup NewScope
    /\ \A s \in DOMAIN scopes : scopes[s] \in ScopeRow
    /\ Rooted(scopes)
    /\ \A a, b \in DOMAIN scopes : scopes[a].path = scopes[b].path => a = b

\* Its profiles: base at the root, others at a scope that has their id.
ProfilesForm(scopes, profiles) ==
    /\ "base" \in DOMAIN profiles
    /\ \A p \in DOMAIN profiles :
           /\ profiles[p].name = p
           /\ p = "base" => profiles[p].scope = Root
           /\ p # "base" => profiles[p].scope = p /\ p \in DOMAIN scopes \ {Root}

VaultForm(scopes, profiles) ==
    /\ ScopesForm(scopes) /\ ProfilesForm(scopes, profiles)
    /\ Package!MetadataHolds(VaultInput(scopes, profiles))

\* The parts of such a vault.
LEMMA VaultParts ==
  ASSUME NEW scopes, NEW profiles
  PROVE  LET v == VaultInput(scopes, profiles)
         IN  /\ "of" \in DOMAIN v /\ v.of = "vault"
             /\ v.scopes = scopes /\ v.profiles = profiles /\ v.secrets = NoRows
BY DEF VaultInput

\* What the check of the metadata says of each scope.
Checked(scopes, s) ==
    LET row == scopes[s]
    IN  /\ s = Root <=> row.parent = None
        /\ s = Root <=> row.kind = 0
        /\ row.kind # 2
        /\ s # Root => Package!Below(row.path, scopes[row.parent].path)
        /\ row.kind = 1 => row.parent = Root
        /\ Ends(scopes, s, MaxScopeDepth)

\* It says so with depths for ends.
LEMMA CheckedScopes ==
  ASSUME NEW scopes, NEW profiles
  PROVE  Package!ScopesHold(VaultInput(scopes, profiles)) <=> \A s \in DOMAIN scopes : Checked(scopes, s)
<1> DEFINE v == VaultInput(scopes, profiles)
<1>1. v.scopes = scopes
  BY VaultParts
<1>2. MaxScopeDepth \in Nat /\ MaxScopeDepth \in 0 .. MaxScopeDepth
  BY GrowthAssumption
<1>3. \A s : Package!Readable(scopes, s) <=> Ends(scopes, s, MaxScopeDepth)
  BY <1>2, DepthIs, Zenon DEF Package!Readable
<1> HIDE DEF v
<1>4. Package!ScopesHold(v) <=> \A s \in DOMAIN scopes : Checked(scopes, s)
  BY <1>1, <1>3, Zenon DEF Package!ScopesHold, Checked, Package!RootKind, Package!RetiredKind, Package!ProfileKind
<1> QED
  BY <1>4 DEF v

\* And of the profiles' scopes.
ProfilesAt(scopes, profiles) ==
    LET at == {profiles[p].scope : p \in DOMAIN profiles}
    IN  /\ \A p, q \in DOMAIN profiles : profiles[p].scope = profiles[q].scope => p = q
        /\ Root \in at
        /\ \A s \in at \ {Root} : scopes[s].kind = 1 /\ scopes[s].parent = Root
        /\ \A s \in DOMAIN scopes : scopes[s].kind = 1 => s \in at

\* It says so with a function that is injective.
LEMMA CheckedProfiles ==
  ASSUME NEW scopes, NEW profiles
  PROVE  Package!ProfilesHold(VaultInput(scopes, profiles)) <=> ProfilesAt(scopes, profiles)
<1> DEFINE v == VaultInput(scopes, profiles)
<1>1. v.scopes = scopes /\ v.profiles = profiles
  BY VaultParts
<1> HIDE DEF v
<1>2. Package!Injective([p \in DOMAIN profiles |-> profiles[p].scope])
      <=> \A p, q \in DOMAIN profiles : profiles[p].scope = profiles[q].scope => p = q
  BY Zenon DEF Package!Injective
<1> DEFINE at == {profiles[p].scope : p \in DOMAIN profiles}
<1>3. Package!ProfilesHold(v)
      <=> /\ Package!Injective([p \in DOMAIN profiles |-> profiles[p].scope])
          /\ Root \in at
          /\ \A s \in at \ {Root} : scopes[s].kind = 1 /\ scopes[s].parent = Root
          /\ \A s \in DOMAIN scopes : scopes[s].kind = 1 => s \in at
  BY <1>1, Zenon DEF Package!ProfilesHold, Package!ProfileKind
<1> HIDE DEF at
<1> QED
  BY <1>2, <1>3, Zenon DEF v, at, ProfilesAt

\* The rows of an export of such a vault.
LEMMA FormLeaves ==
  ASSUME NEW scopes, NEW profiles, VaultForm(scopes, profiles),
         NEW selected, NEW s \in selected, s \in DOMAIN scopes
  PROVE  Leaves(Package!ExportedScopes(VaultInput(scopes, profiles), selected), scopes, selected, s)
<1> DEFINE v == VaultInput(scopes, profiles)
           A == {Root, None} \cup NewScope
           C == Seq({"user", "profile"} \cup Labels \cup NewScope)
<1>1. v.scopes = scopes
  BY VaultParts
<1>2. scopes[s] \in ScopeRow
  BY DEF VaultForm, ScopesForm
<1>3. scopes[s] \in [parent : A, kind : Nat, path : C]
  BY <1>2 DEF ScopeRow
<1> HIDE DEF v, A, C
<1>4. v.scopes[s] \in [parent : A, kind : Nat, path : C]
  BY <1>1, <1>3, Zenon
<1>5. Leaves(Package!ExportedScopes(v, selected), v.scopes, selected, s)
  BY <1>4, ExportedRow, Zenon
<1> QED
  BY <1>1, <1>5, Zenon DEF v

\* An export takes scopes that hang on a root.
Takes(scopes, root, selected) ==
    /\ Hangs(scopes, root, selected)
    /\ scopes[root].parent \notin selected
    /\ Root \in selected => root = Root

\* Scopes that pass validation, with their root.
ValidFrom(payload, root) ==
    /\ Package!Roots(payload) = {root} /\ Package!RootScope(payload) = root
    /\ Package!ValidScopes(payload)

\* The scopes of an export pass validation.
LEMMA ExportedScopesValid ==
  ASSUME NEW scopes, NEW profiles, VaultForm(scopes, profiles), NEW root, NEW selected,
         Takes(scopes, root, selected),
         NEW payload, payload.scopes = Package!ExportedScopes(VaultInput(scopes, profiles), selected),
         payload.kind = "workspace" => root = Root
  PROVE  ValidFrom(payload, root)
<1> DEFINE v == VaultInput(scopes, profiles)
           rows == Package!ExportedScopes(v, selected)
<1>1. v.scopes = scopes /\ payload.scopes = rows
  BY VaultParts
<1>2. None \notin selected /\ selected \subseteq DOMAIN scopes /\ root \in selected
  BY <1>1 DEF Takes, Hangs, VaultForm, ScopesForm, Rooted
<1>3. \A s \in DOMAIN scopes : Checked(scopes, s)
  BY CheckedScopes, Zenon DEF VaultForm, Package!MetadataHolds
<1>4. ASSUME NEW s \in selected
      PROVE  /\ rows[s].parent = IF scopes[s].parent \in selected THEN scopes[s].parent ELSE None
             /\ rows[s].kind = scopes[s].kind
             /\ rows[s].path = scopes[s].path
  <2>1. s \in DOMAIN scopes
    BY <1>2
  <2>2. Leaves(rows, scopes, selected, s)
    BY <2>1, FormLeaves, Zenon
  <2> QED
    BY <2>2, Zenon DEF Leaves
<1>5. DOMAIN rows = selected
  BY DEF Package!ExportedScopes
<1>6. rows[root].parent = None
  BY <1>1, <1>2, <1>4, Zenon DEF Takes
<1>7. ASSUME NEW s \in selected \ {root}
      PROVE  /\ scopes[s].parent \in selected /\ rows[s].parent = scopes[s].parent
             /\ rows[s].parent # None
  <2>1. s \in selected /\ scopes[s].parent \in selected
    BY <1>1 DEF Takes, Hangs
  <2> HIDE DEF rows
  <2> QED
    BY <1>2, <1>4, <2>1, Zenon
<1>8. Package!Roots(payload) = {root}
  <2> HIDE DEF rows
  <2>1. Package!Roots(payload) = {s \in selected : rows[s].parent = None}
    BY <1>1, <1>5, Zenon DEF Package!Roots
  <2>2. \A s : s \in {t \in selected : rows[t].parent = None} <=> s \in {root}
    BY <1>2, <1>6, <1>7, Zenon
  <2> QED
    BY <2>1, <2>2
<1>9. Package!RootScope(payload) = root
  BY <1>8 DEF Package!RootScope
<1>10. Package!Cardinality(Package!Roots(payload)) = 1
  <2>1. Package!Cardinality({root}) = Cardinality({root})
    BY Zenon DEF Package!Cardinality, Cardinality
  <2> QED
    BY <1>8, <2>1, FS_Singleton, Zenon
<1>11. payload.kind = "workspace" => rows[root].kind = Package!RootKind
  <2>1. ASSUME payload.kind = "workspace"
        PROVE  scopes[root].kind = 0
    BY <1>2, <1>3, <2>1, Zenon DEF Checked
  <2> QED
    BY <1>2, <1>4, <2>1, Zenon DEF Package!RootKind
<1>12. ASSUME NEW s \in selected \ {root}
       PROVE  /\ rows[s].kind # Package!RootKind
              /\ rows[s].parent \in selected
              /\ Package!PathsNest(rows, s)
  <2>1. s # Root /\ s \in selected /\ s \in DOMAIN scopes
    BY <1>2 DEF Takes
  <2>2. scopes[s].kind # 0 /\ Package!Below(scopes[s].path, scopes[scopes[s].parent].path)
    BY <1>3, <2>1, Zenon DEF Checked
  <2>3. scopes[s].parent \in selected /\ rows[s].parent = scopes[s].parent
    BY <1>7, Zenon
  <2>4. rows[s].kind = scopes[s].kind /\ rows[s].path = scopes[s].path
        /\ rows[scopes[s].parent].path = scopes[scopes[s].parent].path
    BY <1>4, <2>1, <2>3, Zenon
  <2> HIDE DEF rows
  <2> QED
    BY <2>2, <2>3, <2>4, Zenon DEF Package!PathsNest, Package!RootKind
<1>13. ASSUME NEW s \in selected
       PROVE  Package!HasDepth(rows, s)
  <2>1. MaxScopeDepth \in Nat /\ MaxScopeDepth + 1 \in Nat /\ MaxScopeDepth <= MaxScopeDepth + 1
        /\ MaxScopeDepth + 1 \in 0 .. MaxScopeDepth + 1
    BY GrowthAssumption
  <2>2. Ends(v.scopes, s, MaxScopeDepth)
    BY <1>1, <1>2, <1>3 DEF Checked
  <2>3. \A t \in selected : LET up == v.scopes[t].parent
                            IN  rows[t].parent = IF up \in selected THEN up ELSE None
    BY <1>1, <1>4, Zenon
  <2>4. selected \subseteq DOMAIN v.scopes
    BY <1>1, <1>2, Zenon
  <2>5. Ends(rows, s, MaxScopeDepth)
    <3> HIDE DEF v
    <3> QED
      BY <1>2, <2>1, <2>2, <2>3, <2>4, ExportEnds, Zenon
  <2> HIDE DEF rows
  <2>6. Ends(rows, s, MaxScopeDepth + 1)
    BY <2>1, <2>5, EndsLater
  <2>7. Package!Depth(rows, s, MaxScopeDepth + 1) <= MaxScopeDepth + 1
    BY <2>1, <2>6, DepthIs, Zenon
  <2> QED
    BY <2>7, Zenon DEF Package!HasDepth
<1>14. Package!Injective([s \in selected |-> rows[s].path])
  <2>1. \A a, b \in selected : scopes[a].path = scopes[b].path => a = b
    BY <1>2 DEF VaultForm, ScopesForm
  <2>2. \A a, b \in selected : rows[a].path = rows[b].path => a = b
    BY <1>4, <2>1, Zenon
  <2> HIDE DEF rows
  <2> QED
    BY <2>2, Zenon DEF Package!Injective
<1> HIDE DEF rows
<1>15. Package!ValidScopes(payload)
  BY <1>1, <1>5, <1>8, <1>9, <1>10, <1>11, <1>12, <1>13, <1>14, Zenon DEF Package!ValidScopes
<1> QED
  BY <1>8, <1>9, <1>15, Zenon DEF ValidFrom

\* What an export of a profile takes: base's scope is the root, that of any other
\* hangs on the root, which base keeps.
LEMMA ProfileTakes ==
  ASSUME NEW scopes, NEW profiles, VaultForm(scopes, profiles), NEW p \in DOMAIN profiles,
         NEW v, v = VaultInput(scopes, profiles),
         NEW selected, selected = Package!ProfileSubtree(v, profiles[p].scope)
  PROVE  Takes(scopes, profiles[p].scope, selected) /\ Subtree(v, profiles[p].scope, selected)
<1> DEFINE root == profiles[p].scope
<1>1. v.scopes = scopes /\ v.profiles = profiles
  BY VaultParts
<1>2. root \in DOMAIN scopes /\ Root \in DOMAIN scopes /\ None \notin DOMAIN scopes
      /\ IsFiniteSet(DOMAIN scopes)
  BY DEF VaultForm, ScopesForm, ProfilesForm, Rooted
<1>3. Subtree(v, root, selected)
  <2>1. selected = Package!ProfileSubtree(v, root) /\ root \in DOMAIN v.scopes
        /\ IsFiniteSet(DOMAIN v.scopes)
    BY <1>1, <1>2, Zenon
  <2> HIDE DEF root
  <2> QED
    BY <2>1, SubtreeHangs, Zenon
<1>4. selected \subseteq DOMAIN scopes /\ \A s \in selected \ {root} : s \notin Others(v, root)
  BY <1>1, <1>3 DEF Subtree, Hangs
<1>5. root # Root => Root \notin selected
  <2>1. "base" \in DOMAIN profiles /\ profiles["base"].scope = Root
    BY Zenon DEF VaultForm, ProfilesForm
  <2>2. root # Root => Root \in Others(v, root)
    BY <1>1, <2>1, Zenon DEF Others
  <2> HIDE DEF root
  <2> QED
    BY <1>4, <2>2
<1>6. scopes[root].parent \notin selected
  <2>1. \A s \in DOMAIN scopes : Checked(scopes, s)
    BY CheckedScopes, Zenon DEF VaultForm, Package!MetadataHolds
  <2>2. CASE root = Root
    <3>1. scopes[root].parent = None
      BY <1>2, <2>1, <2>2, Zenon DEF Checked
    <3> QED
      BY <1>2, <1>4, <3>1, Zenon
  <2>3. CASE root # Root
    <3> DEFINE at == {profiles[q].scope : q \in DOMAIN profiles}
    <3>1. \A s \in at \ {Root} : scopes[s].kind = 1 /\ scopes[s].parent = Root
      BY CheckedProfiles, Zenon DEF VaultForm, Package!MetadataHolds, ProfilesAt
    <3>2. root \in at \ {Root}
      BY <2>3
    <3> HIDE DEF root, at
    <3>3. scopes[root].parent = Root
      BY <3>1, <3>2, Zenon
    <3> QED
      BY <1>5, <2>3, <3>3, Zenon
  <2> QED
    BY <2>2, <2>3
<1>7. Hangs(scopes, root, selected)
  BY <1>1, <1>3, Zenon DEF Subtree
<1> HIDE DEF root
<1>8. Takes(scopes, root, selected)
  BY <1>5, <1>6, <1>7 DEF Takes
<1> QED
  BY <1>3, <1>8 DEF root

\* An export of the whole vault takes everything.
LEMMA WorkspaceTakes ==
  ASSUME NEW scopes, NEW profiles, VaultForm(scopes, profiles)
  PROVE  Takes(scopes, Root, DOMAIN scopes)
<1>1. \A s \in DOMAIN scopes : Checked(scopes, s)
  BY CheckedScopes, Zenon DEF VaultForm, Package!MetadataHolds
<1>2. Root \in DOMAIN scopes /\ None \notin DOMAIN scopes
      /\ \A s \in DOMAIN scopes : scopes[s].parent \in DOMAIN scopes \cup {None}
  BY DEF VaultForm, ScopesForm, Rooted
<1>3. \A s \in DOMAIN scopes : s = Root <=> scopes[s].parent = None
  BY <1>1, Zenon DEF Checked
<1> QED
  BY <1>2, <1>3 DEF Takes, Hangs

\* A payload (build_export_payload).
Payload(kind, scopes, profiles, secrets) ==
    [kind |-> kind, scopes |-> scopes, profiles |-> profiles, secrets |-> secrets]

\* Its parts.
LEMMA PayloadParts ==
  ASSUME NEW kind, NEW scopes, NEW profiles, NEW secrets
  PROVE  LET payload == Payload(kind, scopes, profiles, secrets)
         IN  /\ payload.kind = kind /\ payload.scopes = scopes
             /\ payload.profiles = profiles /\ payload.secrets = secrets
BY DEF Payload

\* A payload without secrets has none that could be wrong.
LEMMA NoSecrets ==
  ASSUME NEW payload, DOMAIN payload.secrets = {}
  PROVE  Package!ValidSecrets(payload)
BY Zenon DEF Package!ValidSecrets, Package!Injective

\* An export of a profile is a valid package.
LEMMA ProfileExport ==
  ASSUME NEW scopes, NEW profiles, VaultForm(scopes, profiles), NEW p \in DOMAIN profiles
  PROVE  Package!ValidPayload(Package!BuildExportPayload(VaultInput(scopes, profiles), "profile", p))
<1> DEFINE v == VaultInput(scopes, profiles)
           root == profiles[p].scope
           selected == Package!ProfileSubtree(v, root)
           rows == Package!ExportedScopes(v, selected)
           kept == [q \in {p} |-> profiles[q]]
           none == [s \in {t \in DOMAIN NoRows : v.secrets[t].scope \in selected} |-> v.secrets[s]]
           payload == Package!BuildExportPayload(v, "profile", p)
<1>1. v.scopes = scopes /\ v.profiles = profiles /\ v.secrets = NoRows
  BY VaultParts
<1>2. "profile" # "workspace"
  OBVIOUS
<1>3. payload = Payload("profile", rows, kept, none)
  <2> HIDE DEF v
  <2> QED
    BY <1>1, <1>2, Zenon DEF Package!BuildExportPayload, Payload, Package!Restrict
<1>4. Takes(scopes, root, selected) /\ Subtree(v, root, selected)
  BY ProfileTakes, Zenon
<1> HIDE DEF payload
<1>5. payload.kind = "profile" /\ payload.scopes = rows /\ payload.profiles = kept /\ payload.secrets = none
  <2> HIDE DEF rows, kept, none
  <2> QED
    BY <1>3, PayloadParts
<1>6. DOMAIN rows = selected
  BY DEF Package!ExportedScopes
<1>7. DOMAIN payload.secrets = {}
  <2>1. DOMAIN none = {t \in DOMAIN NoRows : v.secrets[t].scope \in selected}
    BY Zenon
  <2>2. DOMAIN NoRows = {}
    BY DEF NoRows
  <2> HIDE DEF none, v, selected
  <2> QED
    BY <1>5, <2>1, <2>2
<1>8. DOMAIN kept = {p} /\ kept[p] = profiles[p] /\ kept[p].scope = root
  BY Zenon
<1>9. payload.kind # "workspace"
  BY <1>2, <1>5, Zenon
<1>10. /\ Package!Roots(payload) = {root} /\ Package!RootScope(payload) = root
       /\ Package!ValidScopes(payload)
  <2>1. payload.scopes = Package!ExportedScopes(VaultInput(scopes, profiles), selected)
    BY <1>5, Zenon
  <2>2. payload.kind = "workspace" => root = Root
    BY <1>9, Zenon
  <2> HIDE DEF v, selected, root
  <2>3. ValidFrom(payload, root)
    BY <1>4, <2>1, <2>2, ExportedScopesValid, Zenon
  <2> QED
    BY <2>3, Zenon DEF ValidFrom
<1>11. root \in selected
  <2> HIDE DEF v, root, selected
  <2> QED
    BY <1>4 DEF Subtree, Hangs
<1>12. Package!ValidHeader(payload)
  <2>1. Package!Cardinality({p}) = Cardinality({p})
    BY Zenon DEF Package!Cardinality, Cardinality
  <2>2. Package!Cardinality({p}) = 1
    BY <2>1, FS_Singleton, Zenon
  <2>3. {p} # {} /\ selected # {}
    BY <1>11
  <2> HIDE DEF rows, kept, none, selected
  <2> QED
    BY <1>5, <1>6, <1>8, <2>2, <2>3, Zenon DEF Package!ValidHeader
<1>13. ASSUME NEW s \in selected, rows[s].kind = 1
       PROVE  s = root
  <2> DEFINE at == {profiles[q].scope : q \in DOMAIN profiles}
  <2>1. \A t \in DOMAIN scopes : scopes[t].kind = 1 => t \in at
    BY CheckedProfiles, Zenon DEF VaultForm, Package!MetadataHolds, ProfilesAt
  <2>2. s \in DOMAIN scopes
    <3> HIDE DEF selected, root
    <3> QED
      BY <1>4 DEF Takes, Hangs
  <2>3. rows[s].kind = scopes[s].kind
    <3>1. Leaves(rows, scopes, selected, s)
      BY <2>2, FormLeaves, Zenon
    <3> QED
      BY <3>1, Zenon DEF Leaves
  <2>4. s \in at
    <3> HIDE DEF at, rows
    <3> QED
      BY <1>13, <2>1, <2>2, <2>3, Zenon
  <2>5. s # root => s \in Others(v, root)
    <3> HIDE DEF v, root
    <3> QED
      BY <1>1, <2>4, Zenon DEF Others
  <2>6. s # root => s \notin Others(v, root)
    <3> HIDE DEF v, root, selected
    <3> QED
      BY <1>4 DEF Subtree
  <2> QED
    BY <2>5, <2>6, Zenon
<1>14. Package!ProfilesFit(payload)
  <2> DEFINE at == {kept[q].scope : q \in DOMAIN kept}
  <2>1. at = {root}
    <3> HIDE DEF kept, root
    <3> QED
      BY <1>8
  <2>2. \A s \in DOMAIN rows : rows[s].kind = 1 => s \in at
    <3> HIDE DEF at, rows, root, selected
    <3> QED
      BY <1>6, <1>13, <2>1
  <2> HIDE DEF rows, kept, none, selected, root, v
  <2> QED
    BY <1>5, <1>9, <1>10, <2>1, <2>2, Zenon DEF Package!ProfilesFit, Package!ProfileKind, at
<1>15. Package!ValidProfiles(payload)
  <2>1. \A q \in DOMAIN kept : q = p
    BY <1>8, Zenon
  <2>2. \A q \in DOMAIN kept : kept[q].scope \in DOMAIN rows
    <3> HIDE DEF rows, kept, root, selected
    <3> QED
      BY <1>6, <1>8, <1>11, <2>1, Zenon
  <2>3. Package!Injective([q \in DOMAIN kept |-> kept[q].name])
        /\ Package!Injective([q \in DOMAIN kept |-> kept[q].scope])
    <3> HIDE DEF kept
    <3> QED
      BY <2>1, Zenon DEF Package!Injective
  <2> HIDE DEF rows, kept, none, selected, root
  <2> QED
    BY <1>5, <1>9, <1>14, <2>2, <2>3, Zenon DEF Package!ValidProfiles
<1>16. Package!ValidSecrets(payload)
  BY <1>7, NoSecrets
<1>17. Package!ValidPayload(payload)
  <2> HIDE DEF v
  <2> QED
    BY <1>10, <1>12, <1>15, <1>16, Zenon DEF Package!ValidPayload
<1> QED
  BY <1>17 DEF payload

\* An export of a vault in which one profile starts is a valid package.
LEMMA WorkspaceExport ==
  ASSUME NEW scopes, NEW profiles, VaultForm(scopes, profiles),
         Package!Cardinality({p \in DOMAIN profiles : profiles[p].starts}) = 1
  PROVE  Package!ValidPayload(Package!BuildExportPayload(VaultInput(scopes, profiles), "workspace", "base"))
<1> DEFINE v == VaultInput(scopes, profiles)
           selected == DOMAIN scopes
           rows == Package!ExportedScopes(v, selected)
           kept == [q \in DOMAIN profiles |-> profiles[q]]
           none == [s \in {t \in DOMAIN NoRows : v.secrets[t].scope \in selected} |-> v.secrets[s]]
           payload == Package!BuildExportPayload(v, "workspace", "base")
           at == {profiles[q].scope : q \in DOMAIN profiles}
<1>1. v.scopes = scopes /\ v.profiles = profiles /\ v.secrets = NoRows
  BY VaultParts
<1>2. payload = Payload("workspace", rows, kept, none)
  <2> HIDE DEF v
  <2> QED
    BY <1>1, Zenon DEF Package!BuildExportPayload, Payload, Package!Restrict
<1>3. Takes(scopes, Root, selected)
  BY WorkspaceTakes, Zenon
<1> HIDE DEF payload
<1>4. payload.kind = "workspace" /\ payload.scopes = rows /\ payload.profiles = kept /\ payload.secrets = none
  <2> HIDE DEF rows, kept, none
  <2> QED
    BY <1>2, PayloadParts
<1>5. DOMAIN rows = selected
  BY DEF Package!ExportedScopes
<1>6. DOMAIN payload.secrets = {}
  <2>1. DOMAIN none = {t \in DOMAIN NoRows : v.secrets[t].scope \in selected}
    BY Zenon
  <2>2. DOMAIN NoRows = {}
    BY DEF NoRows
  <2> HIDE DEF none, v, selected
  <2> QED
    BY <1>4, <2>1, <2>2
<1>7. DOMAIN kept = DOMAIN profiles /\ \A q \in DOMAIN profiles : kept[q] = profiles[q]
  BY Zenon
<1>8. /\ Package!Roots(payload) = {Root} /\ Package!RootScope(payload) = Root
      /\ Package!ValidScopes(payload)
  <2>1. payload.scopes = Package!ExportedScopes(VaultInput(scopes, profiles), selected)
    BY <1>4, Zenon
  <2> HIDE DEF v, selected
  <2>2. ValidFrom(payload, Root)
    BY <1>3, <2>1, ExportedScopesValid, Zenon
  <2> QED
    BY <2>2, Zenon DEF ValidFrom
<1>9. Root \in selected /\ \A s \in DOMAIN scopes : s \in selected
  BY DEF VaultForm, ScopesForm
<1>10. Package!ValidHeader(payload)
  <2>1. "base" \in DOMAIN profiles
    BY Zenon DEF VaultForm, ProfilesForm
  <2>2. payload.kind # "profile"
    <3>1. "workspace" # "profile"
      OBVIOUS
    <3> QED
      BY <1>4, <3>1, Zenon
  <2> HIDE DEF rows, kept, none, selected
  <2>3. DOMAIN payload.scopes # {} /\ DOMAIN payload.profiles # {}
    BY <1>4, <1>5, <1>7, <1>9, <2>1, SMT
  <2> QED
    BY <2>2, <2>3, Zenon DEF Package!ValidHeader
<1>11. /\ \A p, q \in DOMAIN profiles : profiles[p].scope = profiles[q].scope => p = q
       /\ Root \in at
       /\ \A s \in at \ {Root} : scopes[s].kind = 1 /\ scopes[s].parent = Root
       /\ \A s \in DOMAIN scopes : scopes[s].kind = 1 => s \in at
  BY CheckedProfiles, Zenon DEF VaultForm, Package!MetadataHolds, ProfilesAt
<1>12. ASSUME NEW s \in selected
       PROVE  /\ rows[s].parent = IF scopes[s].parent \in selected THEN scopes[s].parent ELSE None
              /\ rows[s].kind = scopes[s].kind
  <2>1. Leaves(rows, scopes, selected, s)
    BY FormLeaves, Zenon
  <2> QED
    BY <2>1, Zenon DEF Leaves
<1>13. at \subseteq selected
  BY DEF VaultForm, ScopesForm, ProfilesForm
<1>14. Package!ProfilesFit(payload)
  <2>1. {kept[q].scope : q \in DOMAIN kept} = at
    <3> HIDE DEF kept
    <3> QED
      BY <1>7
  <2>2. payload.kind # "profile"
    <3>1. "workspace" # "profile"
      OBVIOUS
    <3> QED
      BY <1>4, <3>1, Zenon
  <2> HIDE DEF rows, kept, none, at, v
  <2>3. \A s \in at \ {Root} : rows[s].kind = 1 /\ rows[s].parent = Root
    <3> TAKE s \in at \ {Root}
    <3>1. s \in selected /\ scopes[s].kind = 1 /\ scopes[s].parent = Root
      BY <1>11, <1>13
    <3> QED
      BY <1>9, <1>12, <3>1, Zenon
  <2>4. \A s \in DOMAIN rows : rows[s].kind = 1 => s \in at
    BY <1>5, <1>11, <1>12, Zenon
  <2> HIDE DEF selected
  <2> QED
    BY <1>4, <1>8, <1>11, <2>1, <2>2, <2>3, <2>4, Zenon DEF Package!ProfilesFit, Package!ProfileKind
<1>15. Package!ValidProfiles(payload)
  <2>1. \A q \in DOMAIN kept : kept[q].scope \in DOMAIN rows
    <3> HIDE DEF rows, kept
    <3> QED
      BY <1>5, <1>7, <1>13
  <2>2. Package!Injective([q \in DOMAIN kept |-> kept[q].name])
    <3>1. \A q \in DOMAIN profiles : profiles[q].name = q
      BY Zenon DEF VaultForm, ProfilesForm
    <3>2. \A q \in DOMAIN kept : kept[q].name = q
      BY <3>1, Zenon
    <3> HIDE DEF kept
    <3> QED
      BY <3>2, Zenon DEF Package!Injective
  <2>3. Package!Injective([q \in DOMAIN kept |-> kept[q].scope])
    <3>1. \A p, q \in DOMAIN kept : kept[p].scope = kept[q].scope => p = q
      BY <1>11, Zenon
    <3> HIDE DEF kept
    <3> QED
      BY <3>1, Zenon DEF Package!Injective
  <2>4. Package!Cardinality({p \in DOMAIN kept : kept[p].starts}) = 1
    <3>1. {p \in DOMAIN kept : kept[p].starts} = {p \in DOMAIN profiles : profiles[p].starts}
      <4> HIDE DEF kept
      <4> QED
        BY <1>7
    <3> QED
      BY <3>1, Zenon
  <2> HIDE DEF rows, kept, none, selected
  <2> QED
    BY <1>4, <1>14, <2>1, <2>2, <2>3, <2>4, Zenon DEF Package!ValidProfiles
<1>16. Package!ValidSecrets(payload)
  BY <1>6, NoSecrets
<1>17. Package!ValidPayload(payload)
  <2> HIDE DEF v
  <2> QED
    BY <1>8, <1>10, <1>15, <1>16, Zenon DEF Package!ValidPayload
<1> QED
  BY <1>17 DEF payload

\* A depth is a number.
LEMMA DepthType ==
  ASSUME NEW scopes, NEW s, NEW bound \in Nat
  PROVE  Package!Depth(scopes, s, bound) \in Int
<1> DEFINE up == Package!Climb(scopes, s, bound)
           ends == {k \in 0 .. bound : up[k] = None}
           least == CHOOSE k \in ends : \A j \in ends : k <= j
<1>1. Package!Depth(scopes, s, bound) = IF ends = {} THEN bound + 1 ELSE least
  BY Zenon DEF Package!Depth
<1> HIDE DEF up
<1>2. ends # {} => least \in Nat
  <2>1. ends \subseteq Nat
    OBVIOUS
  <2> HIDE DEF ends
  <2>2. ends # {} => \E k \in ends : \A j \in ends : k <= j
    BY <2>1, Ascending!NatMin, Zenon
  <2>3. ends # {} => least \in ends
    BY <2>2, Zenon
  <2> HIDE DEF least
  <2> QED
    BY <2>1, <2>3, Zenon
<1> HIDE DEF ends, least
<1> QED
  BY <1>1, <1>2

\* A path is above every one that continues it.
LEMMA LongerBelow ==
  ASSUME NEW T, NEW path \in Seq(T), NEW x \in T
  PROVE  Package!Below(Append(path, x), path)
<1> DEFINE longer == Append(path, x)
           n == Len(path)
<1>1. longer \in Seq(T) /\ n \in Nat /\ Len(longer) = n + 1 /\ \A i \in 1 .. n : longer[i] = path[i]
  OBVIOUS
<1>2. SubSeq(path, 1, n) = SubSeq(longer, 1, n)
  <2> DEFINE a == SubSeq(path, 1, n)
             b == SubSeq(longer, 1, n)
  <2>1. a \in Seq(T) /\ Len(a) = n /\ \A i \in 1 .. n : a[i] = path[i]
    BY <1>1
  <2>2. b \in Seq(T) /\ Len(b) = n /\ \A i \in 1 .. n : b[i] = longer[i]
    <3> HIDE DEF longer, n
    <3> QED
      BY <1>1
  <2> HIDE DEF a, b, longer, n
  <2>3. \A i \in 1 .. n : a[i] = b[i]
    BY <1>1, <2>1, <2>2, Zenon
  <2>4. a = b
    BY <2>1, <2>2, <2>3, Ascending!SameSequence, Zenon
  <2> QED
    BY <2>4, Zenon DEF a, b
<1>3. n <= Len(longer) /\ path # longer
  BY <1>1
<1> HIDE DEF longer
<1>4. Package!IsPrefix(path, longer)
  BY <1>2, <1>3, Zenon DEF Package!IsPrefix, n
<1>5. Package!Below(longer, path)
  BY <1>3, <1>4, Zenon DEF Package!Below, Package!IsStrictPrefix
<1> QED
  BY <1>5 DEF longer

\* A row that fits under one of the vault's scopes.
RowFits(scopes, row) ==
    /\ row \in ScopeRow /\ row.parent \in DOMAIN scopes
    /\ row.kind \in {1, 3} /\ (row.kind = 1 => row.parent = Root)
    /\ \A s \in DOMAIN scopes : scopes[s].path # row.path
    /\ Package!Below(row.path, scopes[row.parent].path)
    /\ Ends(scopes, row.parent, MaxScopeDepth - 1)

\* The scopes stay a tree, and checked, with such a row.
LEMMA TreeGrows ==
  ASSUME NEW scopes, ScopesForm(scopes), \A s \in DOMAIN scopes : Checked(scopes, s),
         NEW id \in NewScope \ DOMAIN scopes, NEW row, RowFits(scopes, row)
  PROVE  LET grown == AddRow(scopes, id, row)
         IN  ScopesForm(grown) /\ \A s \in DOMAIN grown : Checked(grown, s)
<1> DEFINE grown == AddRow(scopes, id, row)
<1>1. DOMAIN grown = DOMAIN scopes \cup {id} /\ grown[id] = row
      /\ \A s \in DOMAIN scopes : grown[s] = scopes[s]
  BY DEF AddRow
<1>2. id # None /\ id # Root /\ Root \in DOMAIN scopes /\ None \notin DOMAIN scopes
  BY GrowthAssumption DEF ScopesForm, Rooted
<1> HIDE DEF grown
<1>3. ScopesForm(grown)
  <2>1. /\ IsFiniteSet(DOMAIN grown)
        /\ Root \in DOMAIN grown /\ DOMAIN grown \subseteq {Root} \cup NewScope
    <3>1. IsFiniteSet(DOMAIN scopes)
      BY DEF ScopesForm
    <3>2. IsFiniteSet(DOMAIN scopes \cup {id})
      BY <3>1, FS_AddElement, Zenon
    <3>3. DOMAIN scopes \subseteq {Root} \cup NewScope
      BY Zenon DEF ScopesForm
    <3> QED
      BY <1>1, <1>2, <3>2, <3>3
  <2>2. \A s \in DOMAIN grown : grown[s] \in ScopeRow
    BY <1>1, Zenon DEF ScopesForm, RowFits
  <2>3. Rooted(grown)
    <3>1. None \notin DOMAIN grown
      BY <1>1, <1>2
    <3>2. \A s \in DOMAIN scopes : scopes[s].parent \in DOMAIN scopes \cup {None}
      BY Zenon DEF ScopesForm, Rooted
    <3>3. row.parent \in DOMAIN scopes
      BY Zenon DEF RowFits
    <3>4. \A s \in DOMAIN grown : grown[s].parent \in DOMAIN grown \cup {None}
      BY <1>1, <3>2, <3>3
    <3> QED
      BY <3>1, <3>4, Zenon DEF Rooted
  <2>4. \A a, b \in DOMAIN grown : grown[a].path = grown[b].path => a = b
    <3>1. \A a, b \in DOMAIN scopes : scopes[a].path = scopes[b].path => a = b
      BY Zenon DEF ScopesForm
    <3>2. \A s \in DOMAIN scopes : scopes[s].path # row.path
      BY Zenon DEF RowFits
    <3> QED
      BY <1>1, <3>1, <3>2
  <2> QED
    BY <2>1, <2>2, <2>3, <2>4, Zenon DEF ScopesForm
<1>4. MaxScopeDepth \in Nat /\ MaxScopeDepth - 1 \in Nat /\ (MaxScopeDepth - 1) + 1 = MaxScopeDepth
  BY GrowthAssumption
<1>5. Rooted(scopes) /\ id \notin DOMAIN scopes
  BY DEF ScopesForm
<1>6. ASSUME NEW s \in DOMAIN scopes
      PROVE  Checked(grown, s)
  <2>1. Ends(grown, s, MaxScopeDepth)
    <3>1. Ends(scopes, s, MaxScopeDepth)
      BY Zenon DEF Checked
    <3> QED
      BY <1>2, <1>4, <1>5, <3>1, OthersEnd, Zenon DEF grown
  <2>2. s # Root => scopes[s].parent \in DOMAIN scopes
    <3>1. s # Root => scopes[s].parent # None
      BY Zenon DEF Checked
    <3>2. scopes[s].parent \in DOMAIN scopes \cup {None}
      BY <1>5, Zenon DEF Rooted
    <3> QED
      BY <3>1, <3>2
  <2>3. grown[s] = scopes[s] /\ (s # Root => grown[scopes[s].parent] = scopes[scopes[s].parent])
    BY <1>1, <2>2, Zenon
  <2> QED
    BY <2>1, <2>3, Zenon DEF Checked
<1>7. Checked(grown, id)
  <2>1. row.parent \in DOMAIN scopes /\ Ends(scopes, row.parent, MaxScopeDepth - 1)
    BY Zenon DEF RowFits
  <2>2. Ends(grown, row.parent, MaxScopeDepth - 1)
    BY <1>2, <1>4, <1>5, <2>1, OthersEnd, Zenon DEF grown
  <2>3. id \in DOMAIN grown /\ grown[id].parent = row.parent
    BY <1>1, Zenon
  <2>4. Ends(grown, id, (MaxScopeDepth - 1) + 1)
    BY <1>4, <2>2, <2>3, OneHigher, Zenon
  <2>5. Ends(grown, id, MaxScopeDepth)
    BY <1>4, <2>4, Zenon
  <2>6. row.parent # None /\ grown[row.parent] = scopes[row.parent]
    BY <1>1, <1>2, <2>1, Zenon
  <2>7. row.kind # 0 /\ row.kind # 2 /\ (row.kind = 1 => row.parent = Root)
    BY DEF RowFits
  <2>8. Package!Below(row.path, scopes[row.parent].path)
    BY Zenon DEF RowFits
  <2> QED
    BY <1>1, <1>2, <2>5, <2>6, <2>7, <2>8, Zenon DEF Checked
<1>8. \A s \in DOMAIN grown : Checked(grown, s)
  BY <1>1, <1>6, <1>7
<1> QED
  BY <1>3, <1>8 DEF grown

\* The check of the metadata, taken apart.
LEMMA MetadataIs ==
  ASSUME NEW scopes, NEW profiles
  PROVE  Package!MetadataHolds(VaultInput(scopes, profiles))
         <=> /\ scopes[Root].path = <<"user">>
             /\ \A s \in DOMAIN scopes : Checked(scopes, s)
             /\ Package!ProfilesHold(VaultInput(scopes, profiles))
<1>1. VaultInput(scopes, profiles).scopes = scopes
  BY VaultParts
<1> QED
  BY <1>1, CheckedScopes, Zenon DEF Package!MetadataHolds

\* Profiles of a smaller tree are profiles of a larger one.
LEMMA ProfilesStay ==
  ASSUME NEW scopes, NEW profiles, ProfilesForm(scopes, profiles), NEW id, NEW row
  PROVE  ProfilesForm(AddRow(scopes, id, row), profiles)
<1>1. DOMAIN scopes \subseteq DOMAIN AddRow(scopes, id, row)
  BY DEF AddRow
<1> HIDE DEF AddRow
<1> QED
  BY <1>1 DEF ProfilesForm

\* A nested scope fits.
LEMMA ScopeFits ==
  ASSUME NEW scopes, NEW profiles, VaultForm(scopes, profiles),
         NEW id \in NewScope \ DOMAIN scopes, NEW parent \in DOMAIN scopes, NEW label \in Labels,
         Package!CanCreateScope(VaultInput(scopes, profiles), parent, label)
  PROVE  RowFits(scopes, [parent |-> parent, kind |-> 3, path |-> Append(scopes[parent].path, label)])
<1> DEFINE v == VaultInput(scopes, profiles)
           T == {"user", "profile"} \cup Labels \cup NewScope
           path == scopes[parent].path
           longer == Append(path, label)
           row == [parent |-> parent, kind |-> 3, path |-> longer]
<1>1. v.scopes = scopes
  BY VaultParts
<1>2. scopes[parent] \in ScopeRow /\ parent \in {Root, None} \cup NewScope
  <2>1. \A s \in DOMAIN scopes : scopes[s] \in ScopeRow
    BY Zenon DEF VaultForm, ScopesForm
  <2>2. parent \in {Root, None} \cup NewScope
    BY DEF VaultForm, ScopesForm
  <2> QED
    BY <2>1, <2>2, Zenon
<1>3. path \in Seq(T) /\ label \in T
  BY <1>2 DEF ScopeRow
<1>4. Package!Below(longer, path)
  <2> HIDE DEF T, path
  <2> QED
    BY <1>3, LongerBelow, Zenon
<1>5. longer \in Seq(T)
  <2> HIDE DEF T, path
  <2> QED
    BY <1>3
<1>6. /\ Package!Depth(scopes, parent, MaxScopeDepth) < MaxScopeDepth
      /\ \A s \in DOMAIN scopes : scopes[s].path # longer
  BY <1>1, Zenon DEF Package!CanCreateScope
<1>7. Ends(scopes, parent, MaxScopeDepth - 1)
  <2>1. MaxScopeDepth \in Nat /\ MaxScopeDepth - 1 \in 0 .. MaxScopeDepth
    BY GrowthAssumption
  <2>2. Package!Depth(scopes, parent, MaxScopeDepth) \in Int
    BY <2>1, DepthType, Zenon
  <2>3. Package!Depth(scopes, parent, MaxScopeDepth) <= MaxScopeDepth - 1
    BY <1>6, <2>1, <2>2
  <2> QED
    BY <2>1, <2>3, DepthIs, Zenon
<1>8. row.parent = parent /\ row.kind = 3 /\ row.path = longer
  OBVIOUS
<1>9. row \in ScopeRow
  <2> HIDE DEF path, longer
  <2> QED
    BY <1>2, <1>5 DEF ScopeRow
<1> HIDE DEF row, longer
<1>10. RowFits(scopes, row)
  <2>1. row.kind \in {1, 3} /\ row.kind # 1
    BY <1>8
  <2> QED
    BY <1>4, <1>6, <1>7, <1>8, <1>9, <2>1, Zenon DEF RowFits
<1> QED
  BY <1>10, Zenon DEF row, longer

\* A nested scope keeps the form of the vault.
LEMMA ScopeGrows ==
  ASSUME NEW scopes, NEW profiles, VaultForm(scopes, profiles),
         NEW id \in NewScope \ DOMAIN scopes, NEW parent \in DOMAIN scopes, NEW label \in Labels,
         Package!CanCreateScope(VaultInput(scopes, profiles), parent, label),
         NEW row, row = [parent |-> parent, kind |-> 3, path |-> Append(scopes[parent].path, label)]
  PROVE  VaultForm(AddRow(scopes, id, row), profiles)
<1> DEFINE grown == AddRow(scopes, id, row)
<1>1. RowFits(scopes, row)
  BY ScopeFits, Zenon
<1>2. row.kind = 3
  OBVIOUS
<1>3. /\ scopes[Root].path = <<"user">>
      /\ \A s \in DOMAIN scopes : Checked(scopes, s)
      /\ Package!ProfilesHold(VaultInput(scopes, profiles))
  BY MetadataIs, Zenon DEF VaultForm
<1>4. ScopesForm(scopes) /\ ProfilesForm(scopes, profiles)
  BY Zenon DEF VaultForm
<1>5. ScopesForm(grown) /\ \A s \in DOMAIN grown : Checked(grown, s)
  BY <1>1, <1>3, <1>4, TreeGrows, Zenon
<1>6. ProfilesForm(grown, profiles)
  BY <1>4, ProfilesStay, Zenon
<1>7. DOMAIN grown = DOMAIN scopes \cup {id} /\ grown[id] = row
      /\ \A s \in DOMAIN scopes : grown[s] = scopes[s]
  BY DEF AddRow
<1>8. Root \in DOMAIN scopes
  BY <1>4, Zenon DEF ScopesForm
<1> HIDE DEF grown
<1>9. Package!ProfilesHold(VaultInput(grown, profiles))
  <2> DEFINE at == {profiles[p].scope : p \in DOMAIN profiles}
  <2>1. /\ \A p, q \in DOMAIN profiles : profiles[p].scope = profiles[q].scope => p = q
        /\ Root \in at
        /\ \A s \in at \ {Root} : scopes[s].kind = 1 /\ scopes[s].parent = Root
        /\ \A s \in DOMAIN scopes : scopes[s].kind = 1 => s \in at
    BY <1>3, CheckedProfiles, Zenon DEF ProfilesAt
  <2>2. at \subseteq DOMAIN scopes
    BY <1>4, <1>8 DEF ProfilesForm
  <2>3. /\ \A s \in at \ {Root} : grown[s].kind = 1 /\ grown[s].parent = Root
        /\ \A s \in DOMAIN grown : grown[s].kind = 1 => s \in at
    <3> HIDE DEF at
    <3> QED
      BY <1>2, <1>7, <2>1, <2>2
  <2> QED
    BY <2>1, <2>3, CheckedProfiles, Zenon DEF ProfilesAt
<1>10. grown[Root].path = <<"user">>
  BY <1>3, <1>7, <1>8, Zenon
<1> QED
  BY <1>5, <1>6, <1>9, <1>10, MetadataIs, Zenon DEF VaultForm, grown

\* A profile's scope fits.
LEMMA ProfileFits ==
  ASSUME NEW scopes, NEW profiles, VaultForm(scopes, profiles),
         NEW id \in NewScope \ DOMAIN scopes, id \in FreshIds(scopes)
  PROVE  RowFits(scopes, [parent |-> Root, kind |-> 1, path |-> <<"user", "profile", id>>])
<1> DEFINE T == {"user", "profile"} \cup Labels \cup NewScope
           path == <<"user", "profile", id>>
           row == [parent |-> Root, kind |-> 1, path |-> path]
<1>1. ScopesForm(scopes) /\ scopes[Root].path = <<"user">> /\ \A s \in DOMAIN scopes : Checked(scopes, s)
  BY MetadataIs, Zenon DEF VaultForm
<1>2. Root \in DOMAIN scopes
  BY <1>1, Zenon DEF ScopesForm
<1>3. path \in Seq(T) /\ path[Len(path)] = id
  OBVIOUS
<1>4. Package!Below(path, <<"user">>)
  <2>1. SubSeq(<<"user">>, 1, 1) = <<"user">> /\ SubSeq(path, 1, 1) = <<"user">>
    <3> DEFINE a == SubSeq(path, 1, 1)
               b == <<"user">>
    <3>1. b \in Seq(T) /\ Len(b) = 1 /\ b[1] = "user"
      OBVIOUS
    <3>2. path \in Seq(T) /\ Len(path) = 3 /\ path[1] = "user"
      OBVIOUS
    <3> HIDE DEF path, b, T
    <3>3. a \in Seq(T) /\ Len(a) = 1 /\ a[1] = "user"
      BY <3>2
    <3> DEFINE c == SubSeq(b, 1, 1)
    <3>4. c \in Seq(T) /\ Len(c) = 1 /\ c[1] = "user"
      BY <3>1
    <3> HIDE DEF a, c
    <3>5. \A i \in 1 .. Len(c) : c[i] = b[i]
      BY <3>1, <3>4
    <3>6. c = b
      BY <3>1, <3>4, <3>5, Ascending!SameSequence, Zenon
    <3>7. \A i \in 1 .. Len(a) : a[i] = b[i]
      BY <3>1, <3>3
    <3>8. a = b
      BY <3>1, <3>3, <3>7, Ascending!SameSequence, Zenon
    <3> QED
      BY <3>6, <3>8, Zenon DEF a, b, c
  <2>2. Len(<<"user">>) = 1 /\ 1 <= Len(path) /\ <<"user">> # path
    OBVIOUS
  <2> HIDE DEF path
  <2> QED
    BY <2>1, <2>2, Zenon DEF Package!Below, Package!IsStrictPrefix, Package!IsPrefix
<1>5. \A s \in DOMAIN scopes : scopes[s].path # path
  <2>1. \A s \in DOMAIN scopes : scopes[s].path[Len(scopes[s].path)] # id
    BY Zenon DEF FreshIds
  <2> HIDE DEF path
  <2> QED
    BY <1>3, <2>1, Zenon
<1>6. Ends(scopes, Root, MaxScopeDepth - 1)
  <2>1. 1 \in Nat /\ MaxScopeDepth - 1 \in Nat /\ 1 <= MaxScopeDepth - 1
    BY GrowthAssumption
  <2>2. scopes[Root].parent = None
    BY <1>1, <1>2, Zenon DEF Checked
  <2>3. Ends(scopes, Root, 1)
    BY <1>2, <2>2, RootEnds, Zenon
  <2> QED
    BY <2>1, <2>3, EndsLater, Zenon
<1>7. row.parent = Root /\ row.kind = 1 /\ row.path = path
  OBVIOUS
<1>8. row \in ScopeRow
  <2> HIDE DEF path
  <2> QED
    BY <1>3 DEF ScopeRow
<1> HIDE DEF row, path
<1>9. row.kind \in {1, 3}
  BY <1>7
<1>10. RowFits(scopes, row)
  BY <1>1, <1>2, <1>4, <1>5, <1>6, <1>7, <1>8, <1>9, Zenon DEF RowFits
<1> QED
  BY <1>10, Zenon DEF row, path

\* Profiles with one more, at a scope that has its id.
AddProfile(profiles, id, row) ==
    [p \in DOMAIN profiles \cup {id} |-> IF p = id THEN row ELSE profiles[p]]

\* A profile keeps the form of the vault.
LEMMA ProfileGrows ==
  ASSUME NEW scopes, NEW profiles, VaultForm(scopes, profiles),
         NEW id \in NewScope \ DOMAIN scopes, id \in FreshIds(scopes), NEW starts,
         NEW row, row = [parent |-> Root, kind |-> 1, path |-> <<"user", "profile", id>>],
         NEW profile, profile = [scope |-> id, name |-> id, starts |-> starts]
  PROVE  VaultForm(AddRow(scopes, id, row), AddProfile(profiles, id, profile))
<1> DEFINE grown == AddRow(scopes, id, row)
           more == AddProfile(profiles, id, profile)
<1>1. RowFits(scopes, row)
  BY ProfileFits, Zenon
<1>2. row.kind = 1 /\ row.parent = Root /\ profile.scope = id /\ profile.name = id
  OBVIOUS
<1>3. /\ scopes[Root].path = <<"user">>
      /\ \A s \in DOMAIN scopes : Checked(scopes, s)
      /\ Package!ProfilesHold(VaultInput(scopes, profiles))
  BY MetadataIs, Zenon DEF VaultForm
<1>4. ScopesForm(scopes) /\ ProfilesForm(scopes, profiles)
  BY Zenon DEF VaultForm
<1>5. ScopesForm(grown) /\ \A s \in DOMAIN grown : Checked(grown, s)
  BY <1>1, <1>3, <1>4, TreeGrows, Zenon
<1>6. DOMAIN grown = DOMAIN scopes \cup {id} /\ grown[id] = row
      /\ \A s \in DOMAIN scopes : grown[s] = scopes[s]
  BY DEF AddRow
<1>7. DOMAIN more = DOMAIN profiles \cup {id} /\ more[id] = profile
      /\ \A p \in DOMAIN profiles \ {id} : more[p] = profiles[p]
  BY DEF AddProfile
<1>8. Root \in DOMAIN scopes /\ id # Root /\ id # "base"
  BY <1>4, GrowthAssumption DEF ScopesForm
<1>9. id \notin DOMAIN profiles
  BY <1>4, <1>8 DEF ProfilesForm
<1> HIDE DEF grown, more
<1>10. ProfilesForm(grown, more)
  BY <1>2, <1>4, <1>6, <1>7, <1>8, <1>9 DEF ProfilesForm
<1>11. Package!ProfilesHold(VaultInput(grown, more))
  <2> DEFINE at == {profiles[p].scope : p \in DOMAIN profiles}
             then == {more[p].scope : p \in DOMAIN more}
  <2>1. /\ \A p, q \in DOMAIN profiles : profiles[p].scope = profiles[q].scope => p = q
        /\ Root \in at
        /\ \A s \in at \ {Root} : scopes[s].kind = 1 /\ scopes[s].parent = Root
        /\ \A s \in DOMAIN scopes : scopes[s].kind = 1 => s \in at
    BY <1>3, CheckedProfiles, Zenon DEF ProfilesAt
  <2>2. at \subseteq DOMAIN scopes
    BY <1>4, <1>8 DEF ProfilesForm
  <2>3. then = at \cup {id}
    BY <1>2, <1>7, <1>9
  <2>4. \A p, q \in DOMAIN more : more[p].scope = more[q].scope => p = q
    <3>1. \A p \in DOMAIN profiles : profiles[p].scope # id
      BY <2>2
    <3> QED
      BY <1>2, <1>7, <1>9, <2>1, <3>1
  <2>5. /\ Root \in then
        /\ \A s \in then \ {Root} : grown[s].kind = 1 /\ grown[s].parent = Root
        /\ \A s \in DOMAIN grown : grown[s].kind = 1 => s \in then
    <3> HIDE DEF at, then
    <3> QED
      BY <1>2, <1>6, <2>1, <2>2, <2>3
  <2> QED
    BY <2>4, <2>5, CheckedProfiles, Zenon DEF ProfilesAt
<1>12. grown[Root].path = <<"user">>
  BY <1>3, <1>6, <1>8, Zenon
<1> QED
  BY <1>5, <1>10, <1>11, <1>12, MetadataIs, Zenon DEF VaultForm, grown, more

\* The vault that growth begins with.
LEMMA VaultBegins ==
  ASSUME NEW row, row = [parent |-> None, kind |-> 0, path |-> <<"user">>],
         NEW profile, profile = [scope |-> Root, name |-> "base", starts |-> TRUE],
         NEW scopes, scopes = [s \in {Root} |-> row],
         NEW profiles, profiles = [p \in {"base"} |-> profile]
  PROVE  VaultForm(scopes, profiles)
<1>1. row.parent = None /\ row.kind = 0 /\ row.path = <<"user">>
      /\ profile.scope = Root /\ profile.name = "base"
  OBVIOUS
<1>2. row \in ScopeRow 
  BY DEF ScopeRow
<1>3. DOMAIN scopes = {Root} /\ scopes[Root] = row /\ DOMAIN profiles = {"base"} /\ profiles["base"] = profile
  OBVIOUS
<1>4. Root # None /\ MaxScopeDepth \in Nat /\ 1 <= MaxScopeDepth /\ 1 \in Nat
  BY GrowthAssumption
<1>5. IsFiniteSet({Root})
  BY FS_Singleton, Zenon
<1>6. Rooted(scopes)
  BY <1>1, <1>3, <1>4 DEF Rooted
<1>7. ScopesForm(scopes)
  <2>1. \A s \in DOMAIN scopes : s = Root
    BY <1>3
  <2>2. Root \in DOMAIN scopes /\ DOMAIN scopes \subseteq {Root} \cup NewScope
    BY <1>3
  <2> QED
    BY <1>2, <1>3, <1>5, <1>6, <2>1, <2>2, Zenon DEF ScopesForm
<1>8. ProfilesForm(scopes, profiles)
  BY <1>1, <1>3 DEF ProfilesForm
<1>9. \A s \in DOMAIN scopes : Checked(scopes, s)
  <2>1. Ends(scopes, Root, 1)
    BY <1>1, <1>3, RootEnds, Zenon
  <2>2. Ends(scopes, Root, MaxScopeDepth)
    BY <1>4, <2>1, EndsLater, Zenon
  <2>3. row.kind # 2 /\ row.kind # 1
    BY <1>1
  <2>4. Checked(scopes, Root)
    BY <1>1, <1>3, <2>2, <2>3, Zenon DEF Checked
  <2> QED
    BY <1>3, <2>4
<1>10. Package!ProfilesHold(VaultInput(scopes, profiles))
  <2> DEFINE at == {profiles[p].scope : p \in DOMAIN profiles}
  <2>1. at = {Root}
    BY <1>1, <1>3
  <2>2. /\ \A p, q \in DOMAIN profiles : profiles[p].scope = profiles[q].scope => p = q
        /\ Root \in at
        /\ \A s \in at \ {Root} : scopes[s].kind = 1 /\ scopes[s].parent = Root
        /\ \A s \in DOMAIN scopes : scopes[s].kind = 1 => s \in at
    BY <1>3, <2>1
  <2>3. ProfilesAt(scopes, profiles)
    BY <2>2, Zenon DEF ProfilesAt
  <2> QED
    BY <2>3, CheckedProfiles, Zenon
<1>11. scopes[Root].path = <<"user">>
  BY <1>1, <1>3
<1> QED
  BY <1>7, <1>8, <1>9, <1>10, <1>11, MetadataIs, Zenon DEF VaultForm

-----------------------------------------------------------------------------
(* The inputs that are picked.                                             *)

\* The entries of a file, and a vault that grew.
Formed ==
    /\ input.of = "env" => input.entries \in Entries
    /\ input.of = "vault" =>
           \E scopes, profiles : input = VaultInput(scopes, profiles) /\ VaultForm(scopes, profiles)

\* Inputs of another kind.
LEMMA OtherForms ==
  ASSUME input'.of \in {"path", "v4", "v6", "response", "scopes", "profiles", "payload"}
  PROVE  Formed'
BY SMTT(10) DEF Formed

\* A vault is an input.
LEMMA FormedVault ==
  ASSUME NEW scopes, NEW profiles, input' = VaultInput(scopes, profiles), VaultForm(scopes, profiles)
  PROVE  Formed'
<1>1. VaultInput(scopes, profiles).of # "env"
  BY SMTT(10) DEF VaultInput
<1>2. input'.of # "env"
  BY <1>1, Zenon
<1> QED
  BY <1>2, Zenon DEF Formed

\* The vault begins.
LEMMA BeginStep ==
  ASSUME PickVault
  PROVE  Formed'
<1> DEFINE row == [parent |-> None, kind |-> 0, path |-> <<"user">>]
           profile == [scope |-> Root, name |-> "base", starts |-> TRUE]
           scopes == [s \in {Root} |-> row]
           profiles == [p \in {"base"} |-> profile]
<1>1. input' = VaultInput(scopes, profiles)
  BY Zenon DEF PickVault, Package!RootKind
<1>2. VaultForm(scopes, profiles)
  <2> HIDE DEF row, profile
  <2> QED
    BY VaultBegins, Zenon DEF row, profile
<1> HIDE DEF scopes, profiles
<1> QED
  BY <1>1, <1>2, FormedVault, Zenon

\* The scopes of a vault are replaced.
LEMMA ReplacedScopes ==
  ASSUME NEW scopes, NEW profiles, NEW other
  PROVE  [VaultInput(scopes, profiles) EXCEPT !.scopes = other].scopes = other
BY DEF VaultInput

\* A nested scope is a row more.
LEMMA ScopeAdded ==
  ASSUME NEW scopes, NEW profiles, NEW id, NEW parent, NEW label
  PROVE  Package!CreateScope(VaultInput(scopes, profiles), id, parent, Package!ProjectKind, label).scopes
           = AddRow(scopes, id, [parent |-> parent, kind |-> 3, path |-> Append(scopes[parent].path, label)])
<1> DEFINE v == VaultInput(scopes, profiles)
           row == [parent |-> parent, kind |-> 3, path |-> Append(scopes[parent].path, label)]
<1>1. v.scopes = scopes
  BY VaultParts
<1>2. Package!CreateScope(v, id, parent, Package!ProjectKind, label) = [v EXCEPT !.scopes = AddRow(scopes, id, row)]
  BY <1>1, Zenon DEF Package!CreateScope, AddRow, Package!ProjectKind
<1> QED
  BY <1>2, ReplacedScopes

\* So is a profile's scope.
LEMMA ProfileScopeAdded ==
  ASSUME NEW scopes, NEW profiles, NEW id
  PROVE  Package!CreateProfileScope(VaultInput(scopes, profiles), id).scopes
           = AddRow(scopes, id, [parent |-> Root, kind |-> 1, path |-> <<"user", "profile", id>>])
<1> DEFINE v == VaultInput(scopes, profiles)
           row == [parent |-> Root, kind |-> 1, path |-> <<"user", "profile", id>>]
<1>1. v.scopes = scopes
  BY VaultParts
<1>2. Package!CreateProfileScope(v, id) = [v EXCEPT !.scopes = AddRow(scopes, id, row)]
  BY <1>1, Zenon DEF Package!CreateProfileScope, AddRow, Package!ProfileKind
<1> QED
  BY <1>2, ReplacedScopes

\* What grows from a vault.
Grew(v) ==
    \E id \in FreshIds(v.scopes) :
        \/ \E parent \in DOMAIN v.scopes, label \in Labels :
               /\ Package!CanCreateScope(v, parent, label)
               /\ input' = VaultInput(Package!CreateScope(v, id, parent, Package!ProjectKind, label).scopes, v.profiles)
        \/ \E starts \in BOOLEAN :
               input' = VaultInput(Package!CreateProfileScope(v, id).scopes,
                            AddProfile(v.profiles, id, [scope |-> id, name |-> id, starts |-> starts]))

\* The vault grows.
LEMMA GrowStep ==
  ASSUME Formed, GrowVault
  PROVE  Formed'
<1>1. input.of = "vault"
  BY Zenon DEF GrowVault
<1>2. PICK scopes, profiles : input = VaultInput(scopes, profiles) /\ VaultForm(scopes, profiles)
  BY <1>1, Zenon DEF Formed
<1> DEFINE v == VaultInput(scopes, profiles)
<1>3. v.scopes = scopes /\ v.profiles = profiles
  BY VaultParts
<1> HIDE DEF v
<1>4. PICK id \in FreshIds(scopes) :
          \/ \E parent \in DOMAIN scopes, label \in Labels :
                 /\ Package!CanCreateScope(v, parent, label)
                 /\ input' = VaultInput(Package!CreateScope(v, id, parent, Package!ProjectKind, label).scopes, profiles)
          \/ \E starts \in BOOLEAN :
                 input' = VaultInput(Package!CreateProfileScope(v, id).scopes,
                              AddProfile(profiles, id, [scope |-> id, name |-> id, starts |-> starts]))
  <2>1. Grew(input)
    BY Zenon DEF GrowVault, Grew, AddProfile
  <2>2. Grew(v)
    BY <1>2, <2>1, Zenon DEF v
  <2> QED
    BY <1>3, <2>2, Zenon DEF Grew
<1> id \in NewScope \ DOMAIN scopes
  BY Zenon DEF FreshIds
<1>5. ASSUME NEW parent \in DOMAIN scopes, NEW label \in Labels,
             Package!CanCreateScope(v, parent, label),
             input' = VaultInput(Package!CreateScope(v, id, parent, Package!ProjectKind, label).scopes, profiles)
      PROVE  Formed'
  <2> DEFINE row == [parent |-> parent, kind |-> 3, path |-> Append(scopes[parent].path, label)]
             grown == AddRow(scopes, id, row)
  <2> HIDE DEF row
  <2>1. Package!CreateScope(v, id, parent, Package!ProjectKind, label).scopes = grown
    BY ScopeAdded, SMTT(20) DEF v, row
  <2>2. VaultForm(grown, profiles)
    BY <1>2, <1>5, ScopeGrows, Zenon DEF v, row
  <2> HIDE DEF grown
  <2>3. input' = VaultInput(grown, profiles)
    BY <1>5, <2>1, Zenon
  <2> QED
    BY <2>2, <2>3, FormedVault, Zenon
<1>6. ASSUME NEW starts \in BOOLEAN,
             input' = VaultInput(Package!CreateProfileScope(v, id).scopes,
                          AddProfile(profiles, id, [scope |-> id, name |-> id, starts |-> starts]))
      PROVE  Formed'
  <2> DEFINE row == [parent |-> Root, kind |-> 1, path |-> <<"user", "profile", id>>]
             profile == [scope |-> id, name |-> id, starts |-> starts]
             grown == AddRow(scopes, id, row)
             more == AddProfile(profiles, id, profile)
  <2> HIDE DEF row
  <2>1. Package!CreateProfileScope(v, id).scopes = grown
    BY ProfileScopeAdded, Zenon DEF v, row
  <2> HIDE DEF profile
  <2>2. VaultForm(grown, more)
    BY <1>2, ProfileGrows, Zenon DEF row, profile
  <2> HIDE DEF grown
  <2>3. input' = VaultInput(grown, more)
    BY <1>6, <2>1, Zenon DEF profile
  <2> HIDE DEF more
  <2> QED
    BY <2>2, <2>3, FormedVault, Zenon
<1> QED
  BY <1>4, <1>5, <1>6, Zenon

\* Each way of picking an input keeps Formed.
LEMMA FormStep ==
  ASSUME Formed, [AlgorithmsNext]_input
  PROVE  Formed'
<1>1. CASE PickPath
  <2>1. input'.of = "path"
    BY <1>1, SMTT(10) DEF PickPath
  <2> QED
    BY <2>1, OtherForms, Zenon
<1>2. CASE PickAddresses
  <2>1. ASSUME NEW of \in {"v4", "v6"}, NEW some, input' = [of |-> of, some |-> some]
        PROVE  Formed'
    <3>1. input'.of = of
      BY <2>1
    <3> QED
      BY <3>1, OtherForms, Zenon
  <2> QED
    BY <1>2, <2>1, Zenon DEF PickAddresses
<1>3. CASE PickResponse
  <2>1. input'.of = "response"
    BY <1>3, SMTT(10) DEF PickResponse
  <2> QED
    BY <2>1, OtherForms, Zenon
<1>4. CASE PickEnv
  <2>1. input'.of = "env" /\ input'.entries \in Entries
    BY <1>4, SMTT(10) DEF PickEnv
  <2> QED
    BY <2>1, SMTT(10) DEF Formed
<1>5. CASE PickScopes \/ PickProfiles \/ PickSecrets
  <2>1. \A of, kind, scopes, profiles, secrets : PayloadInput(of, kind, scopes, profiles, secrets).of = of
    BY DEF PayloadInput
  <2>2. ASSUME PickScopes PROVE input'.of = "scopes"
    <3>1. PICK scopes \in ScopeTables, kind \in {"workspace", "profile"} :
              input' = PayloadInput("scopes", kind, scopes, NoRows, NoRows)
      BY <2>2, Zenon DEF PickScopes
    <3> QED
      BY <2>1, <3>1
  <2>3. ASSUME PickProfiles PROVE input'.of = "profiles"
    <3>1. PICK profiles \in ProfileTables :
              input' = PayloadInput("profiles", input.kind, input.scopes, profiles, NoRows)
      BY <2>3, Zenon DEF PickProfiles
    <3> QED
      BY <2>1, <3>1
  <2>4. ASSUME PickSecrets PROVE input'.of = "payload"
    <3>1. PICK secrets \in SecretTables :
              input' = PayloadInput("payload", input.kind, input.scopes, input.profiles, secrets)
      BY <2>4, Zenon DEF PickSecrets
    <3> QED
      BY <2>1, <3>1
  <2> QED
    BY <1>5, <2>2, <2>3, <2>4, OtherForms, Zenon
<1>6. CASE PickVault
  BY <1>6, BeginStep
<1>7. CASE GrowVault
  BY <1>7, GrowStep
<1>8. CASE UNCHANGED input
  BY <1>8, Zenon DEF Formed
<1> QED
  BY <1>1, <1>2, <1>3, <1>4, <1>5, <1>6, <1>7, <1>8, Zenon DEF AlgorithmsNext

\* Every vault that grows has the form that exports need.
THEOREM FormedAlways == AlgorithmsSpec => []Formed
<1>1. AlgorithmsInit => Formed
  BY SMTT(10) DEF AlgorithmsInit, Formed
<1>2. Formed /\ [AlgorithmsNext]_input => Formed'
  BY FormStep
<1> QED
  BY <1>1, <1>2, PTL DEF AlgorithmsSpec

\* So it is for every file that is picked.
THEOREM EnvReadsBack == AlgorithmsSpec => []EnvRoundTrip
<1>1. ASSUME Formed PROVE EnvRoundTrip
  <2>1. SUFFICES ASSUME input.of = "env"
                 PROVE  EnvFile!ReadEnv(EnvFile!Written(input.entries))
                        = IF EnvFits(input.entries) THEN EnvFile!Yields(input.entries) ELSE EnvFile!Fails
    BY Zenon DEF EnvRoundTrip
  <2> DEFINE entries == input.entries
  <2>2. entries \in Entries
    BY <1>1, <2>1, Zenon DEF Formed
  <2> HIDE DEF entries
  <2>3. /\ entries \in Seq([name : Seq(STRING), value : Seq(STRING)]) /\ entries # <<>>
        /\ \A i \in DOMAIN entries : EnvFile!ValidEnvName(entries[i].name)
        /\ \A i, j \in DOMAIN entries : entries[i].name = entries[j].name => i = j
    BY <2>2, EntriesAssumption, Zenon
  <2>4. entries \in Seq(EnvEntry)
    <3>1. \A s \in Seq(STRING) : s \in Seq(Token)
      BY DEF Token
    <3>2. \A i \in DOMAIN entries : entries[i] \in [name : Seq(STRING), value : Seq(STRING)]
      <4> DEFINE R == [name : Seq(STRING), value : Seq(STRING)]
      <4>1. entries \in Seq(R)
        BY <2>3, Zenon
      <4> HIDE DEF R
      <4>2. \A i \in DOMAIN entries : entries[i] \in R
        BY <4>1
      <4> QED
        BY <4>2, Zenon DEF R
    <3>3. \A e \in [name : Seq(STRING), value : Seq(STRING)] : e \in [name : Seq(Token), value : Seq(Token)]
      <4> HIDE DEF Token
      <4> TAKE e \in [name : Seq(STRING), value : Seq(STRING)]
      <4>1. e = [name |-> e.name, value |-> e.value] /\ e.name \in Seq(STRING) /\ e.value \in Seq(STRING)
        OBVIOUS
      <4>2. e.name \in Seq(Token) /\ e.value \in Seq(Token)
        BY <3>1, <4>1, Zenon
      <4> QED
        BY <4>1, <4>2
    <3>4. \A i \in DOMAIN entries : entries[i] \in EnvEntry
      BY <2>3, <3>2, <3>3, Zenon DEF EnvEntry
    <3> QED
      BY <2>3, <3>4
  <2> QED
    BY <2>3, <2>4, WrittenReads, Zenon DEF entries
<1> QED
  BY <1>1, FormedAlways, PTL
\* An export of any profile passes the validation of the import, however the vault
\* grew, and so does an export of a vault in which one profile starts
\* (build_export_payload, validate_payload).
THEOREM ExportsPass == AlgorithmsSpec => []ExportsAreAccepted
<1>1. Formed => ExportsAreAccepted
  <2> SUFFICES ASSUME Formed, input.of = "vault"
               PROVE  /\ Package!MetadataHolds(input)
                      /\ \A p \in DOMAIN input.profiles :
                             Package!ValidPayload(Package!BuildExportPayload(input, "profile", p))
                      /\ Package!Cardinality({p \in DOMAIN input.profiles : input.profiles[p].starts}) = 1 =>
                             Package!ValidPayload(Package!BuildExportPayload(input, "workspace", "base"))
    <3>1. \A S : Package!Cardinality(S) = Cardinality(S)
      BY Zenon DEF Package!Cardinality, Cardinality
    <3> QED
      BY <3>1, Zenon DEF ExportsAreAccepted
  <2>1. PICK scopes, profiles : input = VaultInput(scopes, profiles) /\ VaultForm(scopes, profiles)
    BY Zenon DEF Formed
  <2> DEFINE v == VaultInput(scopes, profiles)
  <2>2. v.profiles = profiles
    BY VaultParts
  <2>3. input = v /\ Package!MetadataHolds(v)
    BY <2>1, Zenon DEF VaultForm
  <2>4. \A p \in DOMAIN profiles : Package!ValidPayload(Package!BuildExportPayload(v, "profile", p))
    BY <2>1, ProfileExport, Zenon
  <2>5. Package!Cardinality({p \in DOMAIN profiles : profiles[p].starts}) = 1 =>
            Package!ValidPayload(Package!BuildExportPayload(v, "workspace", "base"))
    BY <2>1, WorkspaceExport, Zenon
  <2> HIDE DEF v
  <2> QED
    BY <2>2, <2>3, <2>4, <2>5, Zenon
<1> QED
  BY <1>1, FormedAlways, PTL

-----------------------------------------------------------------------------
(* Rate windows.                                                           *)

\* Counting in windows that are not full keeps every counter within its limit.
LEMMA TouchBounded ==
  ASSUME RateInv, NEW k \in Kind, NEW X \in SUBSET Key, NEW C \in SUBSET X,
         \A x \in C : ~Full(k, x), Touch(k, X, C)
  PROVE  /\ age' \in [Key -> 0 .. Minute]
         /\ used' \in [Kind -> [Key -> Nat]]
         /\ recent' \in [Kind -> [Key -> [Span -> Nat]]]
         /\ \A j \in Kind, p \in Peer : used'[j][p] <= PeerLimit[j]
         /\ \A j \in Kind : used'[j][Global] <= GlobalLimit[j]
<1> USE RateAssumption DEF RateInv
<1>1. age' \in [Key -> 0 .. Minute]
  BY DEF Touch, TypeOK
<1>2. used' \in [Kind -> [Key -> Nat]]
  BY DEF Touch, TypeOK
<1>3. recent' \in [Kind -> [Key -> [Span -> Nat]]]
  BY DEF Touch, TypeOK
<1>4. ASSUME NEW j \in Kind, NEW x \in Key, NEW limit \in Nat \ {0},
             used[j][x] <= limit, limit = IF x = Global THEN GlobalLimit[j] ELSE PeerLimit[j]
      PROVE  used'[j][x] <= limit
  <2>1. used[j][x] \in Nat
    BY DEF TypeOK
  <2>2. used'[j][x] = (IF x \in X /\ Stale(x) THEN 0 ELSE used[j][x])
                      + (IF j = k /\ x \in C THEN 1 ELSE 0)
    BY DEF Touch
  <2>3. CASE j = k /\ x \in C
    BY <1>4, <2>1, <2>2, <2>3 DEF Full, UsedNow
  <2>4. CASE ~(j = k /\ x \in C)
    BY <1>4, <2>1, <2>2, <2>4
  <2> QED
    BY <2>3, <2>4
<1>5. \A j \in Kind, p \in Peer : used'[j][p] <= PeerLimit[j]
  BY <1>4 DEF StateBounded, Key
<1>6. \A j \in Kind : used'[j][Global] <= GlobalLimit[j]
  BY <1>4 DEF StateBounded, Key
<1> QED
  BY <1>1, <1>2, <1>3, <1>5, <1>6

\* A window made anew begins with nothing counted in this tick, and each count is
\* one more in the window and in every span that ends now.
LEMMA TouchCovers ==
  ASSUME RateInv, NEW k \in Kind, NEW X \in SUBSET Key, NEW C \in SUBSET X, Touch(k, X, C),
         X \cap Peer \subseteq live', live' \subseteq live \cup X,
         \A q \in live \ live' : Stale(q), NEW j \in Kind, NEW x \in Key
  PROVE  Covers(j, x)'
<1> USE RateAssumption
<1> DEFINE one == IF j = k /\ x \in C THEN 1 ELSE 0
<1>1. /\ age[x] \in 0 .. Minute /\ used[j][x] \in Nat /\ Minute \in Nat \ {0}
      /\ \A n \in Span : recent[j][x][n] \in Nat
      /\ Allowed(j, x) \in Nat \ {0} /\ used[j][x] <= Allowed(j, x)
  BY DEF RateInv, TypeOK, StateBounded, Allowed, Key
<1>2. /\ age'[x] = IF x \in X /\ Stale(x) THEN 0 ELSE age[x]
      /\ used'[j][x] = (IF x \in X /\ Stale(x) THEN 0 ELSE used[j][x]) + one
      /\ \A n \in Span : recent'[j][x][n] = recent[j][x][n] + one
  BY DEF Touch
<1>3. Covers(j, x) /\ one \in {0, 1} /\ (x \notin X => one = 0)
  BY DEF RateInv
<1>4. Allowed(j, x)' = Allowed(j, x) /\ 1 \in Span /\ Span \subseteq Nat
  BY <1>1 DEF Allowed, Span
<1> HIDE DEF one
<1>5. CASE Stale(x) /\ x \in X
  <2>1. recent[j][x][1] = 0 /\ \A n \in Span : recent[j][x][n] <= Allowed(j, x)
    BY <1>3, <1>5 DEF Covers
  <2>2. age'[x] = 0 /\ used'[j][x] = one
    BY <1>1, <1>2, <1>3, <1>5
  <2>3. \A n \in Span : n <= age'[x] + 1 => recent'[j][x][n] <= used'[j][x]
    BY <1>1, <1>2, <1>3, <1>4, <2>1, <2>2 DEF Span
  <2>4. \A n \in Span : /\ recent'[j][x][n] >= used'[j][x]
                        /\ recent'[j][x][n] <= used'[j][x] + Allowed(j, x)
    BY <1>1, <1>2, <1>3, <2>1, <2>2
  <2>5. ~Stale(x)'
    BY <1>1, <1>5, <2>2 DEF Stale, Key
  <2> QED
    BY <1>1, <1>4, <2>3, <2>4, <2>5 DEF Covers
<1>6. CASE ~Stale(x)
  <2>1. age'[x] = age[x] /\ used'[j][x] = used[j][x] + one
    BY <1>2, <1>6
  <2>2. ~Stale(x)'
    BY <1>6, <2>1 DEF Stale, Key
  <2>3. \A n \in Span : /\ n <= age[x] + 1 => recent[j][x][n] <= used[j][x]
                        /\ n >= age[x] + 1 =>
                              /\ recent[j][x][n] >= used[j][x]
                              /\ recent[j][x][n] <= used[j][x] + Allowed(j, x)
    BY <1>3, <1>6 DEF Covers
  <2>4. \A n \in Span : /\ n <= age'[x] + 1 => recent'[j][x][n] <= used'[j][x]
                        /\ n >= age'[x] + 1 =>
                              /\ recent'[j][x][n] >= used'[j][x]
                              /\ recent'[j][x][n] <= used'[j][x] + Allowed(j, x)
    BY <1>1, <1>2, <1>3, <2>1, <2>3
  <2> QED
    BY <1>4, <2>2, <2>4 DEF Covers
<1>7. CASE Stale(x) /\ x \notin X
  <2>1. Stale(x)'
    BY <1>2, <1>7 DEF Stale
  <2>2. \A n \in Span : recent'[j][x][n] = recent[j][x][n]
    BY <1>1, <1>2, <1>3, <1>7
  <2> QED
    BY <1>3, <1>4, <1>7, <2>1, <2>2 DEF Covers
<1> QED
  BY <1>5, <1>6, <1>7

\* What was counted moves one tick back, and a window that is a minute old says
\* of the whole minute what it counted.
LEMMA AgeCovers ==
  ASSUME RateInv, TimePasses, NEW k \in Kind, NEW x \in Key
  PROVE  Covers(k, x)'
<1> USE RateAssumption
<1>1. /\ age[x] \in 0 .. Minute /\ used[k][x] \in Nat /\ Minute \in Nat \ {0}
      /\ \A n \in Span : recent[k][x][n] \in Nat
      /\ Allowed(k, x) \in Nat \ {0} /\ used[k][x] <= Allowed(k, x)
  BY DEF RateInv, TypeOK, StateBounded, Allowed, Key
<1>2. /\ age'[x] = IF age[x] = Minute THEN Minute ELSE age[x] + 1
      /\ used'[k][x] = used[k][x] /\ live' = live
      /\ \A n \in Span : recent'[k][x][n] = IF n = 1 THEN 0 ELSE recent[k][x][n - 1]
  BY DEF TimePasses
<1>3. Covers(k, x)
  BY DEF RateInv
<1>4. /\ Allowed(k, x)' = Allowed(k, x) /\ 1 \in Span
      /\ \A n \in Span : n \in Nat /\ n >= 1 /\ n <= Minute /\ (n # 1 => n - 1 \in Span)
  BY <1>1 DEF Allowed, Span
<1>5. recent'[k][x][1] = 0
  BY <1>2, <1>4
<1>6. CASE Stale(x)
  <2>1. Stale(x)'
    BY <1>2, <1>6 DEF Stale
  <2>2. \A n \in Span : recent[k][x][n] <= Allowed(k, x)
    BY <1>3, <1>6 DEF Covers
  <2>3. \A n \in Span : recent'[k][x][n] <= Allowed(k, x)
    BY <1>1, <1>2, <1>4, <2>2
  <2> QED
    BY <1>4, <1>5, <2>1, <2>3 DEF Covers
<1>7. CASE ~Stale(x)
  <2>1. age[x] < Minute /\ age'[x] = age[x] + 1 /\ (x \in Peer => x \in live')
    BY <1>1, <1>2, <1>7 DEF Stale
  <2>2. \A n \in Span : /\ n <= age[x] + 1 => recent[k][x][n] <= used[k][x]
                        /\ n >= age[x] + 1 =>
                              /\ recent[k][x][n] >= used[k][x]
                              /\ recent[k][x][n] <= used[k][x] + Allowed(k, x)
    BY <1>3, <1>7 DEF Covers
  <2>3. \A n \in Span : n <= age'[x] + 1 => recent'[k][x][n] <= used'[k][x]
    BY <1>1, <1>2, <1>4, <2>1, <2>2
  <2>4. \A n \in Span : n >= age'[x] + 1 =>
                            /\ recent'[k][x][n] >= used'[k][x]
                            /\ recent'[k][x][n] <= used'[k][x] + Allowed(k, x)
    BY <1>1, <1>2, <1>4, <2>1, <2>2
  <2>5. Stale(x)' => \A n \in Span : recent'[k][x][n] <= Allowed(k, x)
    <3>1. Stale(x)' => age'[x] = Minute
      BY <2>1 DEF Stale
    <3>2. ASSUME age'[x] = Minute, NEW n \in Span
          PROVE  n <= age'[x] + 1
      <4>1. n \in Nat /\ n <= Minute /\ Minute \in Nat
        BY <1>1, <1>4
      <4> QED
        BY <3>2, <4>1
    <3> QED
      BY <1>1, <1>2, <1>4, <2>3, <3>1, <3>2
  <2> QED
    BY <1>4, <1>5, <2>3, <2>4, <2>5 DEF Covers
<1> QED
  BY <1>6, <1>7

\* Making room, and taking it, keeps at most MaxWindows windows.
LEMMA KeptBounded ==
  ASSUME RateInv, NEW p \in Peer
  PROVE  /\ Kept(p) \in SUBSET Peer
         /\ Cardinality(Kept(p)) <= MaxWindows
         /\ HasRoom(p) => Cardinality(Kept(p) \cup {p}) <= MaxWindows
<1> USE RateAssumption DEF RateInv
<1>1. live \in SUBSET Peer /\ IsFiniteSet(live)
  BY FS_Subset DEF TypeOK
<1>2. Kept(p) \in SUBSET live /\ IsFiniteSet(Kept(p))
  BY <1>1, FS_Subset DEF Kept
<1>3. Cardinality(live) \in Nat /\ Cardinality(Kept(p)) \in Nat
  BY <1>1, <1>2, FS_CardinalityType
<1>4. Cardinality(Kept(p)) <= Cardinality(live)
  BY <1>1, <1>2, FS_Subset
<1>5. Cardinality(Kept(p)) <= MaxWindows
  BY <1>3, <1>4 DEF StateBounded
<1>6. ASSUME HasRoom(p)
      PROVE  Cardinality(Kept(p) \cup {p}) <= MaxWindows
  <2>1. CASE p \in live
    <3>1. Kept(p) \cup {p} = live
      BY <2>1 DEF Kept
    <3> QED
      BY <3>1 DEF StateBounded
  <2>2. CASE p \notin live
    <3>1. Cardinality(Kept(p)) < MaxWindows
      BY <1>6, <2>2 DEF HasRoom
    <3>2. Cardinality(Kept(p) \cup {p}) = Cardinality(Kept(p)) + 1
      BY <1>2, <2>2, FS_AddElement
    <3> QED
      BY <1>3, <3>1, <3>2
  <2> QED
    BY <2>1, <2>2
<1> QED
  BY <1>1, <1>2, <1>5, <1>6

\* A check keeps the invariant.
LEMMA CheckInv ==
  ASSUME RateInv, NEW k \in Kind, NEW p \in Peer, Check(k, p)
  PROVE  RateInv'
<1> USE RateAssumption DEF Check
<1>1. CASE UNCHANGED <<windows, recent>>
  BY <1>1 DEF RateInv, TypeOK, StateBounded, Covers, Stale, Allowed, windows
<1>2. ASSUME NEW X \in SUBSET Key, NEW C \in SUBSET X, \A x \in C : ~Full(k, x),
             Touch(k, X, C), live' \in SUBSET Peer, Cardinality(live') <= MaxWindows,
             X \cap Peer \subseteq live', live' \subseteq live \cup X,
             \A q \in live \ live' : Stale(q)
      PROVE  RateInv'
  <2>1. TypeOK' /\ StateBounded'
    BY <1>2, TouchBounded DEF TypeOK, StateBounded
  <2>2. \A j \in Kind, x \in Key : Covers(j, x)'
    BY <1>2, TouchCovers
  <2> QED
    BY <2>1, <2>2 DEF RateInv
<1>3. Kept(p) \subseteq live /\ \A q \in live \ Kept(p) : Stale(q)
  BY DEF Kept
<1>4. CASE ~Full(k, Global) /\ ~HasRoom(p) /\ live' = Kept(p) /\ Touch(k, {Global}, {Global})
  <2>1. live' \in SUBSET Peer /\ Cardinality(live') <= MaxWindows
    BY <1>4, KeptBounded
  <2>2. /\ {Global} \in SUBSET Key /\ {Global} \cap Peer \subseteq live'
        /\ live' \subseteq live \cup {Global} /\ \A q \in live \ live' : Stale(q)
    BY <1>3, <1>4 DEF Key
  <2> QED
    BY <1>2, <1>4, <2>1, <2>2
<1>5. CASE ~Full(k, Global) /\ HasRoom(p) /\ live' = Kept(p) \cup {p}
  <2>1. live' \in SUBSET Peer /\ Cardinality(live') <= MaxWindows
    BY <1>5, KeptBounded
  <2>2. /\ {Global, p} \in SUBSET Key /\ {Global, p} \cap Peer \subseteq live'
        /\ live' \subseteq live \cup {Global, p} /\ \A q \in live \ live' : Stale(q)
    BY <1>3, <1>5 DEF Key
  <2>3. CASE Full(k, p) /\ Touch(k, {Global, p}, {Global})
    BY <1>2, <1>5, <2>1, <2>2, <2>3
  <2>4. CASE ~Full(k, p) /\ Touch(k, {Global, p}, {Global, p})
    BY <1>2, <1>5, <2>1, <2>2, <2>4
  <2>5. (Full(k, p) /\ Touch(k, {Global, p}, {Global}))
        \/ (~Full(k, p) /\ Touch(k, {Global, p}, {Global, p}))
    BY <1>5
  <2> QED
    BY <2>3, <2>4, <2>5
<1> QED
  BY <1>1, <1>4, <1>5

\* Every step does.
LEMMA InvStep == RateInv /\ [Next]_vars => RateInv'
<1> SUFFICES ASSUME RateInv, [Next]_vars PROVE RateInv'
  OBVIOUS
<1>1. CASE TimePasses
  <2>1. TypeOK'
    BY <1>1, RateAssumption DEF TimePasses, RateInv, TypeOK, Span
  <2>2. StateBounded'
    BY <1>1 DEF TimePasses, RateInv, StateBounded
  <2>3. \A k \in Kind, x \in Key : Covers(k, x)'
    BY <1>1, AgeCovers
  <2> QED
    BY <2>1, <2>2, <2>3 DEF RateInv
<1>2. CASE \E k \in Kind, p \in Peer : Check(k, p)
  BY <1>2, CheckInv
<1>3. CASE UNCHANGED vars
  BY <1>3 DEF RateInv, TypeOK, StateBounded, Covers, Stale, Allowed, vars, windows
<1> QED
  BY <1>1, <1>2, <1>3 DEF Next

\* And it holds at first.
LEMMA InitInv == Init => RateInv
<1> SUFFICES ASSUME Init PROVE RateInv
  OBVIOUS
<1> USE RateAssumption DEF Init
<1>1. Cardinality({}) = 0
  BY FS_EmptySet
<1>2. TypeOK /\ StateBounded
  BY <1>1 DEF TypeOK, StateBounded, Span, Key
<1>3. ASSUME NEW k \in Kind, NEW x \in Key
      PROVE  Covers(k, x)
  <2>1. Allowed(k, x) \in Nat \ {0} /\ used[k][x] = 0 /\ 1 \in Span
        /\ \A n \in Span : recent[k][x][n] = 0
    BY DEF Allowed, Span, Key
  <2> QED
    BY <2>1 DEF Covers
<1> QED
  BY <1>2, <1>3 DEF RateInv

\* Whatever sessions connect and try passwords, no counter passes its limit and
\* no more than MaxWindows windows are kept.
THEOREM BoundedState == Spec => []RateInv
<1> QED
  BY InitInv, InvStep, PTL DEF Spec

\* No minute, wherever it starts, counts more than twice a limit.
THEOREM TwiceTheLimit == Spec => []SlidingBound
<1>1. ASSUME RateInv, NEW k \in Kind, NEW x \in Key
      PROVE  Recent(k, x) <= 2 * Allowed(k, x)
  <2>1. /\ Covers(k, x) /\ Minute \in Span /\ age[x] \in 0 .. Minute /\ Minute \in Nat
        /\ used[k][x] \in Nat /\ recent[k][x][Minute] \in Nat
        /\ Allowed(k, x) \in Nat /\ used[k][x] <= Allowed(k, x)
    BY <1>1, RateAssumption DEF RateInv, TypeOK, StateBounded, Allowed, Key, Span
  <2>2. CASE Stale(x)
    BY <2>1, <2>2 DEF Covers, Recent
  <2>3. CASE ~Stale(x)
    <3>1. recent[k][x][Minute] <= used[k][x] + Allowed(k, x)
      BY <2>1, <2>3 DEF Covers, Stale
    <3> QED
      BY <2>1, <3>1 DEF Recent
  <2> QED
    BY <2>2, <2>3
<1>2. RateInv => SlidingBound
  BY <1>1, RateAssumption DEF SlidingBound, Allowed, Key
<1> QED
  BY <1>2, BoundedState, PTL

\* A window that is full is so because of what was counted in this minute.
LEMMA FullByRecent ==
  ASSUME RateInv, NEW k \in Kind, NEW x \in Key, Full(k, x)
  PROVE  Recent(k, x) >= Allowed(k, x)
<1>1. /\ Covers(k, x) /\ Minute \in Span /\ age[x] \in 0 .. Minute /\ Minute \in Nat
      /\ used[k][x] \in Nat /\ recent[k][x][Minute] \in Nat /\ Allowed(k, x) \in Nat \ {0}
  BY RateAssumption DEF RateInv, TypeOK, Allowed, Key, Span
<1>2. ~Stale(x) /\ used[k][x] >= Allowed(k, x)
  BY <1>1, RateAssumption DEF Full, UsedNow, Allowed
<1>3. recent[k][x][Minute] >= used[k][x]
  BY <1>1, <1>2 DEF Covers, Stale
<1> QED
  BY <1>1, <1>2, <1>3 DEF Recent

\* A refusal has its cause in the minute before.
LEMMA RefusedStep ==
  ASSUME RateInv, RefusedForCause, [Next]_vars
  PROVE  RefusedForCause'
<1> USE RateAssumption
<1>1. CASE TimePasses
  BY <1>1 DEF TimePasses, NoCheck, RefusedForCause
<1>2. ASSUME NEW k \in Kind, NEW p \in Peer, Check(k, p)
      PROVE  RefusedForCause'
  <2>1. CASE Full(k, Global) /\ Answer(k, p, "refused") /\ UNCHANGED <<windows, recent>>
    <3>1. Recent(k, Global) >= GlobalLimit[k]
      BY <2>1, FullByRecent DEF Allowed, Key
    <3> QED
      BY <2>1, <3>1 DEF Answer, RefusedForCause, Recent
  <2>2. CASE /\ ~HasRoom(p) /\ live' = Kept(p) /\ Touch(k, {Global}, {Global})
             /\ Answer(k, p, "refused")
    <3>1. p \notin live /\ Kept(p) = {q \in live : ~Stale(q)}
      BY <2>2 DEF HasRoom, Kept
    <3>2. Cardinality(Kept(p)) >= MaxWindows
      <4>1. IsFiniteSet(Kept(p))
        BY <3>1, FS_Subset DEF RateInv, TypeOK
      <4>2. Cardinality(Kept(p)) \in Nat
        BY <4>1, FS_CardinalityType
      <4> QED
        BY <2>2, <4>2 DEF HasRoom
    <3>3. \A q \in Peer : age'[q] = age[q]
      BY <2>2 DEF Touch, Key
    <3>4. {q \in live \ {p} : ~Stale(q)}' = Kept(p)
      BY <2>2, <3>1, <3>3 DEF Stale, RateInv, TypeOK
    <3> QED
      BY <2>2, <3>2, <3>4 DEF Answer, RefusedForCause
  <2>3. CASE Full(k, p) /\ Touch(k, {Global, p}, {Global}) /\ Answer(k, p, "refused")
    <3>1. Recent(k, p) >= PeerLimit[k]
      BY <2>3, FullByRecent DEF Allowed, Key
    <3>2. Recent(k, p)' = Recent(k, p)
      <4>1. p \in Key /\ p # Global /\ Minute \in Span /\ recent[k][p][Minute] \in Nat
        BY DEF Key, Span, RateInv, TypeOK
      <4> QED
        BY <2>3, <4>1 DEF Touch, Recent
    <3> QED
      BY <2>3, <3>1, <3>2 DEF Answer, RefusedForCause
  <2>4. CASE Answer(k, p, "granted")
    BY <2>4 DEF Answer, RefusedForCause
  <2> QED
    BY <1>2, <2>1, <2>2, <2>3, <2>4 DEF Check
<1>3. CASE UNCHANGED vars
  BY <1>3 DEF RefusedForCause, Recent, Stale, vars, windows
<1> QED
  BY <1>1, <1>2, <1>3 DEF Next

\* Whoever is refused finds the cause in the minute before: the budget of all
\* sessions, its own, or windows of as many others as are kept.
THEOREM RefusalsJustified == Spec => []RefusedForCause
<1>1. Init => RefusedForCause
  BY DEF Init, NoCheck, RefusedForCause
<1>2. RateInv /\ RefusedForCause /\ [Next]_vars => RefusedForCause'
  BY RefusedStep
<1> QED
  BY <1>1, <1>2, BoundedState, PTL DEF Spec
=============================================================================
