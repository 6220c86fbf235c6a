----------------------------- MODULE MCManifest -----------------------------
(* Instances of Manifest for TLC. *)
EXTENDS Manifest

\* event_window, cointegration_rolling and cusum_break, by what validate asks.
ThreeScans ==
  [event |-> [arity |-> 1, supports |-> {"bootstrap"}, spans |-> TRUE],
   pair  |-> [arity |-> 2, supports |-> {"bootstrap"}, spans |-> FALSE],
   plain |-> [arity |-> 1, supports |-> {}, spans |-> FALSE]]

Method(name, n) == [name |-> name, n |-> n]
Unset == Method("absent", 0)
HygieneOf(b, n) == [x \in Methods |-> IF x = "bootstrap" THEN b ELSE n]
NoHygiene == HygieneOf(Unset, Unset)

Window(s, e, d) == [ok |-> TRUE, start |-> s, end |-> e, dateEnd |-> d]
BadWindow == [ok |-> FALSE, start |-> 0, end |-> 0, dateEnd |-> FALSE]

Axis(a, e) == [array |-> a, elems |-> e]
EventsAt(S) == [form |-> "events", at |-> S, n |-> 0]
Bars(n) == [form |-> "bars", at |-> {}, n |-> n]
Other == [form |-> "other", at |-> {}, n |-> 0]

Block(s, i, t, w, g, c, p, h) ==
  [scan |-> s, array |-> TRUE, instruments |-> i, timeframes |-> t, windows |-> w,
   gap |-> g, calendar |-> c, params |-> p, hygiene |-> h]

None == [k \in {} |-> Axis(FALSE, <<Other>>)]
Both(e, p) == [k \in {"event_timestamps", "post_window_bars"} |->
                 IF k = "event_timestamps" THEN e ELSE p]
OneEvent(e) == [k \in {"event_timestamps"} |-> e]

\* Grids: slots, timeframes and windows from none to two, events and bars from one
\* value to two, arrays that are empty and numbers that are not arrays.
Grids ==
  {Block("event", i, t, w, "absent", "absent", p, NoHygiene) :
     i \in {<<>>, <<"one">>, <<"one", "one">>},
     t \in {<<>>, <<2>>, <<2, BadTimeframe>>, <<1, 2>>},
     w \in {<<>>, <<Window(0, 4, TRUE)>>, <<Window(0, 4, TRUE), Window(2, 7, FALSE)>>, <<BadWindow>>},
     p \in {None,
            OneEvent(Axis(TRUE, <<EventsAt({3, 5})>>)),
            OneEvent(Axis(TRUE, <<>>)),
            OneEvent(Axis(TRUE, <<Other, Other>>)),
            Both(Axis(TRUE, <<EventsAt({1}), EventsAt({5})>>), Axis(FALSE, <<Bars(1)>>)),
            Both(Axis(TRUE, <<EventsAt({2})>>), Axis(TRUE, <<Bars(1), Bars(20)>>)),
            Both(Axis(TRUE, <<EventsAt({2})>>), Axis(TRUE, <<>>)),
            Both(Axis(TRUE, <<EventsAt({1}), EventsAt({2}), Other>>), Axis(TRUE, <<Bars(1), Bars(2)>>))}}

\* Blocks: every way a block may be refused.
Kinds ==
  {Block(s, i, <<2>>, <<Window(0, 4, TRUE)>>, g, c, None, h) :
     s \in {"event", "pair", "plain", "unknown"},
     i \in {<<"one">>, <<"two">>, <<"two", "bad">>},
     g \in {"absent", "strict", "bad"},
     c \in {"absent", "fx_utc", "bad"},
     h \in {NoHygiene, HygieneOf(Method("known", 1), Unset), HygieneOf(Method("absent", 3), Unset),
            HygieneOf(Unset, Method("known", 1)), HygieneOf(Method("bad", 1), Unset)}}
  \cup {[Block("plain", <<>>, <<2>>, <<Window(0, 4, TRUE)>>, "absent", "absent", None, NoHygiene)
           EXCEPT !.array = FALSE]}

Plain == Block("plain", <<"one", "one">>, <<1, 2>>, <<Window(0, 4, FALSE)>>, "strict", "fx_utc",
               None, NoHygiene)

Root(j, c, h, n) ==
  [jobs |-> j, calendar |-> c, hygiene |-> h, maxJobs |-> n, alphaOk |-> TRUE,
   seed |-> IF n = 4 THEN NoSeed ELSE 7]

SomeManifests ==
  {Root(<<b>>, "absent", NoHygiene, n) : b \in Grids, n \in {4, 12}}
  \cup {Root(<<Plain, b>>, "fx_utc", NoHygiene, n) : b \in Grids, n \in {4, 12}}
  \cup {[Root(<<Plain>>, "fx_utc", NoHygiene, 4) EXCEPT !.alphaOk = FALSE]}
  \cup {Root(<<b>>, c, h, 4) :
          b \in Kinds, c \in {"absent", "bad"},
          h \in {NoHygiene, HygieneOf(Method("known", 2), Unset), HygieneOf(Method("absent", 3), Unset)}}

\* Nothing beside the manifest; a seed; numbers and methods over those of [hygiene].
SomeFlags == {[seed |-> NoSeed, hygiene |-> NoHygiene],
              [seed |-> 5, hygiene |-> HygieneOf(Method("absent", 1), Unset)],
              [seed |-> NoSeed, hygiene |-> HygieneOf(Method("known", 3), Unset)]}

\* The fence at the first minute, on a day's end, inside a day, and past everything;
\* layers and files that disagree; words that are no instant.
Fenced(named, native, cwd, env, flag) ==
  [files |-> [f \in {"named", "native", "cwd"} |->
                CASE f = "named" -> named [] f = "native" -> native [] OTHER -> cwd],
   env |-> env, flag |-> flag]
SomeFences ==
  {Fenced(NoFile, NoFile, f, NoFence, NoFence) : f \in {NoFence, 0, 5, 8, 9, 15, BadFence}}
  \cup {Fenced(15, NoFile, NoFile, 8, NoFence), Fenced(NoFile, 15, NoFile, NoFence, 5),
        Fenced(BadFence, 5, NoFile, NoFence, 9), Fenced(NoFile, NoFile, NoFile, 15, 5),
        Fenced(NoFile, 5, 15, NoFence, NoFence), Fenced(NoFence, 5, 5, NoFence, NoFence)}
=============================================================================
