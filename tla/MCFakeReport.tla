----------------------------- MODULE MCFakeReport -----------------------------
(***************************************************************************)
(* Every name of one and of three narrow and wide characters and some with *)
(* a character that has no code, for a column of three places; results     *)
(* whose bitrates are on, next to and between the baselines, with their    *)
(* other fields at boundaries of their own: fake in one report, fake in    *)
(* two, genuine, and not recognized.                                       *)
(***************************************************************************)
EXTENDS FakeReport

MCNames ==
    [1..1 -> {"n", "w"}] \cup [1..3 -> {"n", "w"}]
        \cup {<<"n", "x", "n">>, <<"w", "w", "x">>}

Info(format, bitrate, cutoff, duration, rate, channels) ==
    [format |-> format, bitrate |-> bitrate, cutoff |-> cutoff,
     duration |-> duration, rate |-> rate, channels |-> channels]

MCInfos ==
    {Info("mp3", 320000, 16000, 600, 44100, 2), Info("mp3", 318000, 18000, 599, 44100, 2),
     Info("mp3", 317999, 17001, 30, 48000, 1),  Info("mp3", 222000, 16000, 29, 44100, 6),
     Info("mp3", 190000, 16000, 360, 44100, 3), Info("mp3", 125999, 15000, 60, 22050, 1),
     Info("mp3", 0, 0, 0, 0, 0),                Info("[Unknown]", 320000, 0, 10, 44100, 2),
     Info("[Crash]", 0, 0, 0, 0, 0)}
==============================================================================
