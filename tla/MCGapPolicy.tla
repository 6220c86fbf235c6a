---------------------------- MODULE MCGapPolicy ----------------------------
(* Instances of GapPolicy for TLC: three days of four minutes. *)
EXTENDS GapPolicy

Feed(missing, holes) == [missing |-> missing, holes |-> holes]

\* On each day a file is missing, or minutes are: none, the first, the last, the
\* first bar of two minutes, or all but one.
DayHoles == {{}, {0}, {3}, {0, 1}, {0, 1, 2}}
DayKinds == DayHoles \cup {{99}}
FeedOf(f) == Feed({d \in Days : 99 \in f[d]},
                  UNION {{d * DayLength + k : k \in f[d] \ {99}} : d \in Days})
SingleFeeds == {FeedOf(f) : f \in [Days -> DayKinds]}
FewFeeds    == {FeedOf(f) : f \in [Days -> {{}, {3}, {0, 1}, {99}}]}
OtherFeeds  == {FeedOf(f) : f \in [Days -> {{0}, {99}}]}

OneOrTwoLegs == {<<a>> : a \in SingleFeeds} \cup {<<a, b>> : a \in FewFeeds, b \in OtherFeeds}
TwoLegs == {<<a, b>> : a \in FewFeeds, b \in OtherFeeds}

AllWindows == {Span(0, 12), Span(2, 10), Span(3, 9)}

\* Date 0 is a Friday.  Always open, with the second day closed or a break in the
\* middle of every day; weekends of the presets, in a zone whose clock is changed on
\* the second day; trading days from the third minute on; breaks over midnight, and
\* one that is empty; a week within the calendar week; a table that does not parse.
TwoZones == [z \in {"UTC", "America/New_York"} |->
               IF z = "UTC" THEN [before |-> 0, after |-> 0, change |-> 0]
               ELSE [before |-> -1, after |-> 0, change |-> 5]]
At(d, t) == [day |-> d, at |-> t]
Break(s, e) == [start |-> s, end |-> e]
Always == [zone |-> "UTC", open |-> At(0, 0), close |-> At(0, 0), dayStart |-> 0,
           breaks |-> {}, yearly |-> {}, dates |-> {}]
AllCalendars == {Always,
                 [Always EXCEPT !.dates = {1}],
                 [Always EXCEPT !.breaks = {Break(1, 3)}],
                 [Always EXCEPT !.open = At(6, 2), !.close = At(4, 3)],
                 Preset("fx_new_york"),
                 Preset("fx_utc"),
                 [Always EXCEPT !.dayStart = 2, !.dates = {1}, !.zone = "America/New_York"],
                 [Always EXCEPT !.breaks = {Break(3, 1), Break(2, 2)}],
                 [Always EXCEPT !.breaks = {Break(3, 1)}],
                 [Always EXCEPT !.open = At(4, 1), !.close = At(5, 3), !.yearly = {2}],
                 [Always EXCEPT !.close = At(7, 0)],
                 [Always EXCEPT !.zone = "nowhere"]}

\* The detector takes the last minute of day 1 for closed.
DetectorOpen == Minutes \ {7}
=============================================================================
