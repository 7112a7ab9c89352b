--------------------------- MODULE MC_SuperClient ---------------------------
(* Instances of SuperClient for TLC.                                       *)
EXTENDS SuperClient

(* What only a silent client refuses, what a package cripple blocks, what  *)
(* a configuration cripple blocks (and what would fail on a client whose   *)
(* configuration has not been changed to 0), and what does not exist.      *)
MCOffered == [type : {"reboot", "install_package", "validate_config", "format_disk"},
              package : Package, config : {0}]
=============================================================================
