--------------------------- MODULE MCHourlyCheck ---------------------------
(* Small instances of HourlyCheck for TLC. *)
EXTENDS HourlyCheck

\* The evenings before both changes of 2026.
Evenings ==
  { [year |-> 2026, month |-> 3, day |-> 28, hour |-> 23],
    [year |-> 2026, month |-> 10, day |-> 24, hour |-> 23] }

FullDay == {24}

=============================================================================
