--------------------------- MODULE MCProviderCache ---------------------------
(***************************************************************************)
(* The two halves of providers/cache.py for TLC: candle series and         *)
(* provider responses live in directories of their own and share nothing,  *)
(* so a behaviour moves one half and leaves the other untouched.           *)
(*                                                                         *)
(* Candles last two ticks, so that every second review time lies between   *)
(* two candles.                                                            *)
(***************************************************************************)
EXTENDS SeriesCache, ResponseCache, TLC

MCListed == {c \in 0 .. Horizon : c % Day = 0}

InitCaches == Init /\ InitResponses

NextCaches ==
    \/ clock = 0 /\ jobs = 0 /\ dataset = "plain" /\ Next /\ UNCHANGED responseVars
    \/ Init /\ NextResponse /\ UNCHANGED vars

CacheSpec == InitCaches /\ [][NextCaches]_<<vars, responseVars>>

MCSymmetry == Permutations(Session)

=============================================================================
