------------------------------- MODULE MCWifi -------------------------------
(***************************************************************************)
(* One context with two networks in the assets and one more that the user  *)
(* may give rules to; a network seen near and far, one access point that a *)
(* black list excludes.                                                    *)
(***************************************************************************)
EXTENDS WifiContext

CONSTANTS Home, Office, x, y, b1, b2

AssetRules == {
  [result_context |-> Home, ssid |-> x, level_threshold |-> -100,
   black |-> TRUE, essid_list |-> {b2}] }

SignalLevels == {-105, -60}

Signals == {
  [ssid |-> x, bssid |-> b1, level |-> -60],
  [ssid |-> x, bssid |-> b2, level |-> -60],
  [ssid |-> y, bssid |-> b1, level |-> -105] }
=============================================================================
