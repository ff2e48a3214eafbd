----------------------------- MODULE MCActivity -----------------------------
(***************************************************************************)
(* A small instance of Activity for TLC: three days, the last two of one   *)
(* year, one book on KOReader and one on a Kobo.                           *)
(***************************************************************************)
EXTENDS Activity

CONSTANTS k, o

TwoDayYear(d) == d \div 2
=============================================================================
