-------------------------------- MODULE MCDates --------------------------------
(***************************************************************************)
(* Model checking of Dates as test/utils/time.cc uses it: the clock is     *)
(* read, its time written and read again.                                  *)
(***************************************************************************)
EXTENDS Dates

CONSTANTS
  Zones,  (* the time zones of the machine                                  *)
  Starts, (* when the clock may be read first                               *)
  Days    (* bound: how many days it goes on                                *)

VARIABLES
  zone, start, now, (* now is time(nullptr)                                 *)
  read              (* what the test read back                              *)

Init ==
  /\ zone \in Zones /\ start \in Starts
  /\ now = start /\ read = now

Tick == now < start + Days * Day /\ now' = now + Day /\ read' = now' /\ UNCHANGED <<zone, start>>
Test == read' \in GmtToTime(GmtTime(now), zone) /\ UNCHANGED <<zone, start, now>>

Spec == Init /\ [][Tick \/ Test]_<<zone, start, now, read>>

UTC == [offset |-> 0, summer |-> FALSE]
East == [offset |-> 8 * 3600, summer |-> FALSE]
West == [offset |-> -5 * 3600, summer |-> FALSE]
MCZones == {UTC, East, West}
(* 25 December 2023 and 2024, both at 12:00.                                 *)
MCStarts == {YearStart(y + 1) * Day - 7 * Day + 12 * 3600 : y \in {2023, 2024}}

(* TEST_CHECK(gmtToTime(gmtTime(now)) == now)  (test/utils/time.cc:9).       *)
ReadsItsOwnDates == read = now
=============================================================================
