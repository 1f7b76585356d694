\* Three hours around midnight, with two reboots or outages of a day.
SPECIFICATION Spec
CONSTANTS
  Starts <- Evenings
  Hours = 3
  Outages <- FullDay
  SyncHours = 1
  MaxFault = 2
INVARIANTS LocalTimeRight OneCheckPerHour HourChecked
CHECK_DEADLOCK FALSE
