------------------------------- MODULE HttpCgi -------------------------------
(***************************************************************************)
(* What the page asks of the device (sonoff_http_cgi.c): which route serves *)
(* a request, and the clock that counts from a fixed moment on, by ticks.   *)
(***************************************************************************)
EXTENDS Integers, Sequences, FiniteSetsExt

CONSTANTS
  TickWord,  \* 2^32
  TickRate   \* configTICK_RATE_HZ

Space == 32
Mark == 63
Get == <<71, 69, 84, Space>>

At(text, c) == {k \in 1 .. Len(text) : text[k] = c}

\* The request line's second word, up to the space behind it.
Target(request) ==
  LET rest == SubSeq(request, Len(Get) + 1, Len(request))
  IN IF SubSeq(request, 1, Len(Get)) = Get /\ At(rest, Space) # {}
     THEN <<SubSeq(rest, 1, Min(At(rest, Space)) - 1)>> ELSE << >>

\* The first route with the path in front of the first question mark, and the query.
HandleRequest(routes, request) ==
  IF Target(request) = << >> THEN << >>
  ELSE LET target == Target(request)[1]
           marks == At(target, Mark)
           path == IF marks = {} THEN target ELSE SubSeq(target, 1, Min(marks) - 1)
           query == IF marks = {} THEN << >> ELSE SubSeq(target, Min(marks) + 1, Len(target))
           serving == {k \in 1 .. Len(routes) : routes[k] = path}
       IN IF serving = {} THEN << >> ELSE <<[route |-> Min(serving), query |-> query]>>

-----------------------------------------------------------------------------
IsLeapYear(year) == year % 4 = 0 /\ (year % 100 # 0 \/ year % 400 = 0)

DaysInMonth(year, month) ==
  IF month = 2 /\ IsLeapYear(year) THEN 29
  ELSE <<31, 28, 31, 30, 31, 30, 31, 31, 30, 31, 30, 31>>[month]

NextDay(date) ==
  IF date.day < DaysInMonth(date.year, date.month) THEN [date EXCEPT !.day = @ + 1]
  ELSE IF date.month < 12 THEN [date EXCEPT !.day = 1, !.month = @ + 1]
  ELSE [year |-> date.year + 1, month |-> 1, day |-> 1]

FirstDate == [year |-> 2026, month |-> 8, day |-> 26]
FirstSecond == 9 * 3600
Day == 24 * 3600

\* The tick counter wraps, and the clock with it.
GetTime(started, now) ==
  LET total == FirstSecond + ((now - started) % TickWord) \div TickRate
      date[d \in 0 .. total \div Day] == IF d = 0 THEN FirstDate ELSE NextDay(date[d - 1])
  IN [date |-> date[total \div Day], hour |-> (total \div 3600) % 24,
      minute |-> (total \div 60) % 60, second |-> total % 60]
=============================================================================
