----------------------------- MODULE MCWebServer -----------------------------
(* WebServer for TLC: uploads that get shorter, one longer than the buffer; every  *)
(* request while nothing fails, and the configuration and uploads while things do. *)
EXTENDS WebServer

MCContent == {<<1, 2, 3>>, <<4, 5>>, <<6>>}

Asks(kinds, requests) == [kinds |-> kinds, may |-> {}, requests |-> requests,
                          failures |-> 0, restarts |-> 1]
May(scenario, hardships, failures) ==
  [scenario EXCEPT !.may = hardships, !.failures = failures]

MCScenarios == {Asks(Kind, 3),
                May(Asks({"putConfig", "getConfig", "putFile"}, 2), Hardship, 2),
                May(Asks({"putFile", "getFile"}, 2), {"file"}, 1)}

\* The worlds of the divergences, one hardship each.
MCUploads == {Asks({"putFile"}, 2)}
MCNVSFails == {May(Asks({"putConfig"}, 2), {"nvs"}, 1)}
MCStalls == {May(Asks({"putConfig"}, 2), {"stall"}, 1)}
MCOtherRecord == {May(Asks({"putConfig"}, 2), {"record"}, 0)}

===============================================================================
