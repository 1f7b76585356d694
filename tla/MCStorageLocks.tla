--------------------------- MODULE MCStorageLocks ---------------------------
(* The tasks of vao23.ino and the sections they enter. *)
EXTENDS StorageLocks

Kind(outer, forever, logs) == [outer |-> outer, forever |-> forever, logs |-> logs]

\* usbTask: queueEmail, addOrUpdateDetector, writeLog.  loop: the same and
\* mqttReconnect, mqttLoop.  ethernetTask: writeLog, ethernetOK,
\* ethernetConnect.  emailTask: the scan, markSent, sessions, ethernetOK.
CodeJobs == [
  usbTask      |-> {Kind("sd", FALSE, FALSE)},
  loop         |-> {Kind("sd", FALSE, FALSE), Kind("eth", FALSE, FALSE)},
  ethernetTask |-> {Kind("sd", FALSE, FALSE), Kind("eth", FALSE, TRUE)},
  emailTask    |-> {Kind("sd", FALSE, FALSE), Kind("sd", TRUE, FALSE),
                    Kind("eth", FALSE, FALSE), Kind("eth", FALSE, TRUE)}]

==============================================================================
