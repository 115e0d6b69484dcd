---------------------------- MODULE MCRequestLog ----------------------------
(***************************************************************************)
(* Model values and bounds for RequestLog.  The three windows keep their   *)
(* relative shape at a small scale: minute buckets of width 1 (two kept),  *)
(* hour buckets of width 2 (two kept), day buckets of width 4 (one kept),  *)
(* so that gaps, eviction and several entries per bucket all occur within *)
(* a clock of 0..3.                                                        *)
(***************************************************************************)
EXTENDS RequestLog

CONSTANTS r1, r2

OneReq == {r1}

MCWindows == {"minute", "hour", "day"}
MCStep == [w \in MCWindows |-> CASE w = "minute" -> 1 [] w = "hour" -> 2 [] OTHER -> 4]
MCCap == [w \in MCWindows |-> IF w = "day" THEN 1 ELSE 2]

MCStatuses == {200, 404, 500}
AllWrites == {"ok", "fail", "nolf"}
====
