----------------------------- MODULE MCSelection -----------------------------
(* Small instances of Selection: settings and requests of which each rule   *)
(* lets some pass and takes others out.                                     *)
EXTENDS Selection

CONSTANTS d1, d2, d3, alien

MCOrder == <<d1, d2, d3>>
MCOrder2 == <<d1, d2>>

Plain ==
    [group |-> 1, limit |-> <<60, 0>>, alg |-> <<"D", "v">>, nodiff |-> <<FALSE, TRUE>>,
     pro |-> "none", qos |-> {"NOS", "GOO", "NOR"}, im |-> {"N", "B", "C", "D"},
     can_sout |-> TRUE, cap |-> {"new", "ok"},
     work |-> [wake |-> -1, sleep |-> -1], holiday |-> [wake |-> -1, sleep |-> -1],
     imsi3 |-> 123, idle |-> 100,
     diff_min |-> [any |-> 120, goo |-> 30, nor |-> 50, sout |-> 30, imode |-> 10],
     priority |-> 5, out_calls |-> 3]

MCProfiles ==
    { Plain,
      [Plain EXCEPT !.limit = <<30, 30>>, !.alg = <<"a", "P">>, !.pro = "p", !.cap = {"new"}],
      [Plain EXCEPT !.alg = <<"Q", "v">>, !.idle = 90000, !.priority = 6, !.qos = {"BLO"},
                    !.im = {"N", "E"}, !.pro = "p"],
      [Plain EXCEPT !.work = [wake |-> 9, sleep |-> 17], !.out_calls = 5, !.alg = <<"B", "<">>,
                    !.can_sout = FALSE, !.idle = 60],
      [Plain EXCEPT !.holiday = [wake |-> 10, sleep |-> 20], !.alg = <<"b", "D">>,
                    !.qos = {"ROB", "NOS"}, !.diff_min.any = 100, !.priority = 4],
      [Plain EXCEPT !.group = 2] }

Ask ==
    [resource |-> None, group |-> 1, limitnum |-> 1, limited |-> FALSE, imb |-> <<>>,
     any |-> FALSE, pay |-> TRUE, qos |-> "GOO", cap |-> "new", pros |-> {"p"},
     souimsito |-> None, penalty |-> 0, hold |-> FALSE, requestor |-> None,
     now |-> [hour |-> 10, minute |-> 30, day |-> 20000, holiday |-> FALSE]]

MCVariables ==
    { Ask,
      [Ask EXCEPT !.imb = <<"any">>, !.penalty = 50],
      [Ask EXCEPT !.imb = <<d2, "any", d1>>, !.limited = TRUE, !.limitnum = 2],
      [Ask EXCEPT !.imb = <<alien, d3, d2>>, !.qos = "ROB", !.now.hour = 17],
      [Ask EXCEPT !.qos = "NO", !.cap = "ok", !.now.hour = 8],
      [Ask EXCEPT !.qos = "BLO", !.imb = <<"any">>, !.limitnum = 2],
      [Ask EXCEPT !.qos = "SOU", !.souimsito = d2],
      [Ask EXCEPT !.qos = "VIP", !.imb = <<d1>>, !.now.holiday = TRUE, !.cap = "fail"],
      [Ask EXCEPT !.qos = "SYS", !.now.holiday = TRUE, !.pros = {}],
      [Ask EXCEPT !.resource = d1, !.hold = TRUE, !.requestor = d2] }

(* Calls to SIMs, one after another.                                        *)
MCSout == {[Ask EXCEPT !.qos = "SOU", !.souimsito = s] : s \in {d3, alien}}
MCPlain == {Plain}
=============================================================================
