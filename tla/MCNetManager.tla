---------------------------- MODULE MCNetManager -----------------------------
(* The network manager, and the requests the HTTP server it starts answers.  *)
EXTENDS NetManager

Page == INSTANCE HttpCgi WITH TickWord <- 4000000, TickRate <- 2

MCTexts(alphabet, lengths) == UNION {[1 .. n -> alphabet] : n \in lengths}
MCRoutes == <<<<47, 97>>, <<47>>, <<47, 97, 97>>, <<47>>>>

\* snfHttpCgiHandleRequest: a request reaches the first route that has its path
\* whole, with all of its query, whatever comes behind.
ASSUME RequestsReachTheirRoute ==
  \A path \in MCTexts({47, 97}, 0 .. 3), query \in MCTexts({63, 97}, 0 .. 2),
     rest \in MCTexts({32, 63, 97}, 0 .. 2), asked \in BOOLEAN :
    LET target == IF asked THEN path \o <<63>> \o query ELSE path
        serving == {k \in 1 .. 4 : MCRoutes[k] = path}
    IN Page!HandleRequest(MCRoutes, Page!Get \o target \o <<32>> \o rest) =
         IF serving = {} THEN << >>
         ELSE <<[route |-> CHOOSE k \in serving : \A l \in serving : k <= l,
                 query |-> IF asked THEN query ELSE << >>]>>

\* The number of a day, counted from March so that the odd day comes last.
DayNumber(date) ==
  LET y == IF date.month > 2 THEN date.year ELSE date.year - 1
      m == (date.month + 9) % 12
  IN 365 * y + y \div 4 - y \div 100 + y \div 400 + (153 * m + 2) \div 5 + date.day

\* snfHttpCgiGetTime goes from day to day of the calendar, leap years and all.
ASSUME DaysFollow ==
  \A year \in (1896 .. 1904) \cup (1996 .. 2004) \cup (2024 .. 2104), month \in 1 .. 12, day \in 1 .. 31 :
    day <= Page!DaysInMonth(year, month) =>
      LET date == [year |-> year, month |-> month, day |-> day]
          next == Page!NextDay(date)
      IN /\ DayNumber(next) = DayNumber(date) + 1
         /\ next.month \in 1 .. 12 /\ next.day \in 1 .. Page!DaysInMonth(next.year, next.month)

\* The clock is as far from its first moment as the ticks are, until the ticks
\* wrap: then it starts again.
ASSUME ClockFollowsTicks ==
  LET Seconds(t) == Page!Day * (DayNumber(t.date) - DayNumber(Page!FirstDate))
                      + 3600 * t.hour + 60 * t.minute + t.second
  IN \A started \in {0, 7, 3999999}, ticks \in {0, 1, 2, 119, 120, 107999, 108000, 1000003, 3999999} :
       /\ Seconds(Page!GetTime(started, (started + ticks) % 4000000))
            = Page!FirstSecond + ticks \div 2
       /\ Page!GetTime(started, started + 4000000) = Page!GetTime(started, started)
=============================================================================
