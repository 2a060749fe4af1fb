---------------------------- MODULE OtaHttpHeader ----------------------------
(***************************************************************************)
(* The request header of an upload (sonoff_ota_http.c): where it ends, in  *)
(* whatever pieces it arrives, and how long it says the package is.        *)
(***************************************************************************)
EXTENDS Text, FiniteSetsExt

CONSTANTS
  BufferSize,  \* SNF_OTA_HTTP_HEADER_BUFFER_SIZE
  NumberMax,   \* UINT32_MAX
  FieldName    \* "Content-Length"

Cr == 13
Lf == 10
Colon == 58
IsSpace(c) == c \in {32, 9}

HeaderEndMark == <<Cr, Lf, Cr, Lf>>
EndSize == Len(HeaderEndMark)

\* How long the header is, 0 while its end has not come.
FindHeaderEnd(data) ==
  LET ends == {e \in EndSize .. Len(data) : SubSeq(data, e - EndSize + 1, e) = HeaderEndMark}
  IN IF ends = {} THEN 0 ELSE Min(ends)

\* The first piece is what the server had read of the request, the others come
\* from the socket; cuts[k] is how much of the stream is there after the k-th.
\* Refused when the buffer is full, or the stream ends, before the header does.
ReceiveHeader(stream, cuts) ==
  LET Seen(k) == FindHeaderEnd(SubSeq(stream, 1, cuts[k]))
      enough == {k \in 1 .. Len(cuts) : cuts[k] <= BufferSize /\ Seen(k) # 0}
  IN IF enough = {} THEN << >>
     ELSE LET k == Min(enough) IN <<[header |-> Seen(k), buffered |-> cuts[k]]>>

-----------------------------------------------------------------------------
AsciiEqual(left, right) ==
  Len(left) = Len(right) /\ \A k \in 1 .. Len(left) : Lower(left[k]) = Lower(right[k])

\* A field's value, without the blanks around it; zero is refused too.
ParseUint32(value) ==
  LET marks == {k \in 1 .. Len(value) : ~IsSpace(value[k])}
      number == IF marks = {} THEN Refused
                ELSE Decimal(NumberMax, SubSeq(value, Min(marks), Max(marks)))
  IN IF number = 0 THEN Refused ELSE number

\* The line from s ends before the next CR LF, or with the text.
LineEnd(text, s) ==
  LET ends == {e \in s .. Len(text) - 1 : text[e] = Cr /\ text[e + 1] = Lf}
  IN IF ends = {} THEN Len(text) ELSE Min(ends) - 1

IsField(line) ==
  /\ Len(line) > Len(FieldName)
  /\ line[Len(FieldName) + 1] = Colon
  /\ AsciiEqual(SubSeq(line, 1, Len(FieldName)), FieldName)

\* The field counts in every line but the first, and may come once.
ParseContentLength(header) ==
  LET text == SubSeq(header, 1, Len(header) - EndSize)
      Line(s) == SubSeq(text, s, LineEnd(text, s))
      Value(line) == SubSeq(line, Len(FieldName) + 2, Len(line))
      values[s \in 1 .. Len(text) + 3] ==
        IF s > Len(text) THEN << >>
        ELSE (IF s # 1 /\ IsField(Line(s)) THEN <<Value(Line(s))>> ELSE << >>)
             \o values[LineEnd(text, s) + 3]
  IN IF Len(values[1]) = 1 THEN ParseUint32(values[1][1]) ELSE Refused
=============================================================================
