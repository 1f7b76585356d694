---------------------------- MODULE MCUsbEvents ----------------------------
(* Small instances of UsbEvents for TLC. *)
EXTENDS UsbEvents

\* Headers of both kinds and body lines, with and without an address; only a
\* header is asked for SUITSUHAIRE.
AllLines == {l \in [head : BOOLEAN, smoke : BOOLEAN, address : BOOLEAN] : l.smoke => l.head}

==============================================================================
