\* All four tasks with every kind of section they enter.
SPECIFICATION FairSpec
CONSTANTS
  Task = {"usbTask", "loop", "ethernetTask", "emailTask"}
  Jobs <- CodeJobs
  Free = Free
INVARIANTS SectionsExclusive NoLeak LogInBusRefused
PROPERTIES EveryCallEnds
