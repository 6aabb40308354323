------------------------- MODULE MCAudioQualityIdent -------------------------
(***************************************************************************)
(* Four frequencies and five spectra: silence, a full band, a band cut off *)
(* low, one cut off higher, and a slope too gentle to be a cutoff.  Levels *)
(* are rounded: 10*ln 4 is 13 and 10*ln 5 is 16, less than 3.0 apart.      *)
(***************************************************************************)
EXTENDS AudioQualityIdent

MCLevel == [m \in {0, 1, 4, 5} |->
                CASE m = 0 -> -1 [] m = 1 -> 0 [] m = 4 -> 13 [] m = 5 -> 16]

Spectrum(a, b, c, d) ==
    [i \in Bins |-> CASE i = 0 -> a [] i = 1 -> b [] i = 2 -> c [] i = 3 -> d]

MCSpectra ==
    {Spectrum(0, 0, 0, 0), Spectrum(5, 5, 5, 5), Spectrum(5, 1, 0, 0),
     Spectrum(4, 5, 4, 0), Spectrum(5, 4, 4, 4)}

\* No file, an empty one, the greatest that is read, and sizes that become
\* negative, zero and positive as an int.
MCSizes == {-1, 0, IntLimit - 1, IntLimit, 2 * IntLimit, 2 * IntLimit + 1}
==============================================================================
