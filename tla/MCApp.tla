------------------------------- MODULE MCApp -------------------------------
(* An instance of App for TLC: two devices that have a function, one that  *)
(* has none, a name that is no device, and a file that cannot be read.     *)
EXTENDS App

FiveConfigs == {"dragonFire", "dragonPad", "dragonPi5", "toaster", Unreadable}
=============================================================================
