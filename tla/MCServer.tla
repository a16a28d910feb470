------------------------------- MODULE MCServer -------------------------------
(* Metadata of every kind, with each field at its bounds and missing. *)
EXTENDS Server

Full == [session |-> "s", process |-> "p", model |-> "m", title |-> "t", event |-> "Stop",
         size |-> 8, percent |-> 50, usage |-> [input |-> 1, read |-> 2, write |-> 3],
         limits |-> [five_hour |-> [percent |-> 10, resets |-> 9],
                     seven_day |-> [percent |-> Missing, resets |-> 9]]]
Lines == {[Full EXCEPT !.session = Missing], Full,
          [Full EXCEPT !.size = 0, !.limits.seven_day.percent = 100],
          [Full EXCEPT !.size = -1, !.usage.read = 21, !.percent = 101, !.limits.five_hour.resets = -3],
          [Full EXCEPT !.limits.five_hour.resets = 20]}
Metadata(mode, provider, bodies) == {[mode |-> mode, provider |-> provider, body |-> b] : b \in bodies}

Record == [session |-> "s", request |-> "r", event |-> "api_request", model |-> "m", age |-> 0,
           input |-> 1, output |-> 2, cached |-> 3, write |-> Missing, reasoning |-> -1, total |-> Missing]
Old == [Record EXCEPT !.age = MaxDays * Day]
Batches == {<<[Record EXCEPT !.age = MaxDays * Day - 1]>>,
            <<Record, [Record EXCEPT !.total = 9], [Record EXCEPT !.age = -2]>>, <<Old>>,
            <<[Record EXCEPT !.event = "other"], [Record EXCEPT !.age = -1, !.input = -1],
              [Record EXCEPT !.age = MaxDays * Day + 1]>>}

Tab == [provider |-> "claude", session |-> "s", title |-> "t", model |-> "m", activity |-> "generating"]
Tabs == {<<Tab, [Tab EXCEPT !.activity = "odd"]>>, <<Tab, Tab, Tab>>}

MCPosts ==
    Metadata("statusline", "claude", Lines)
    \cup Metadata("hook", "openai", {[Full EXCEPT !.event = e] : e \in {"PreCompact", "Other"}})
    \cup Metadata("hook", "other", {Full})
    \cup Metadata("otlp", "claude", {[records |-> b] : b \in Batches})
    \cup Metadata("browser", "claude", {[events |-> b] : b \in Tabs})

Window == [percent |-> 20, window |-> 5, resets |-> 9]
None == [percent |-> Missing, window |-> Missing, resets |-> Missing]
Bucket == [key |-> "codex", length |-> 5, primary |-> Window, secondary |-> None]
Buckets == {[byID |-> {}, single |-> Bucket],
            [byID |-> {[Bucket EXCEPT !.secondary = [Window EXCEPT !.window = 0]]}, single |-> Bucket],
            [byID |-> {Bucket, [Bucket EXCEPT !.key = "other", !.length = 13]}, single |-> Bucket],
            [byID |-> {[Bucket EXCEPT !.secondary = Window, !.primary.window = -1],
                       [Bucket EXCEPT !.key = "other"]}, single |-> Bucket]}
Utilization == [id |-> "five_hour", length |-> 9, percent |-> 30, window |-> 300, resets |-> Missing, malformed |-> FALSE]
Answers(kind, provider, bodies) ==
    {[kind |-> kind, provider |-> provider, account |-> "a", body |-> b] : b \in bodies}

MCReadings ==
    Answers("account", "claude", {[subscription |-> TRUE, id |-> "a", plan |-> n] : n \in {4, 21}})
    \cup Answers("quota", "openai", Buckets)
    \cup Answers("quota", "claude", {[available |-> TRUE, limits |-> {Utilization}],
                                     [available |-> TRUE, limits |-> {[Utilization EXCEPT !.resets = -9]}],
                                     [available |-> FALSE, limits |-> {Utilization}]})
    \cup Answers("usage", "openai",
            {[buckets |-> <<[date |-> -1, tokens |-> 4], [date |-> 0, tokens |-> 5],
                            [date |-> 1, tokens |-> 6], [date |-> 0, tokens |-> 7]>>],
             [buckets |-> <<[date |-> -2, tokens |-> 4]>>]})

\* Greenwich at noon; and west of it, at night, after the clock was put forward.
MCClocks == {[time |-> 1, offset |-> 0, gained |-> 0], [time |-> 0, offset |-> -2, gained |-> 1]}
MCFirstSecond == -5

MCCapacity == [p \in Pools |-> IF p = "requests" THEN 2 ELSE 1]
MCHangs == {{}, {"adapters", "displays"}, {"modules"}}
=============================================================================
