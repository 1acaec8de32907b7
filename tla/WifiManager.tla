------------------------------ MODULE WifiManager ------------------------------
(***************************************************************************)
(* sw/src/wifiManager.cpp and its one caller, main() (sw/src/main.cpp):     *)
(* connecting with retries, waiting for the driver's events, and watching   *)
(* the connection afterwards.                                               *)
(*                                                                          *)
(* Two threads: main(), whose place is pc, and the network thread, which    *)
(* runs onWifiEvent() for each event.  That thread is cooperative           *)
(* (Zephyr's default): its handler is one step and may come between any     *)
(* two steps of main().  What the radio does takes milliseconds: an event   *)
(* is handled before the next is raised, and none is raised in the          *)
(* microseconds from Prepare to Request.  The radio and the access point    *)
(* are external.  startAP() has no caller, so ApMode never occurs, and      *)
(* there is one network, CONFIG_WSPR_WIFI_SSID.                             *)
(***************************************************************************)
EXTENDS Integers

CONSTANTS
  MaxFaults       \* bound on refusals, failures, losses and early time-outs

ASSUME BoundAssumption == MaxFaults \in Nat

VARIABLES
  pc,             \* where main() is
  state,          \* WifiManager::state
  ip,             \* ipAddr: "zero" is 0.0.0.0, "empty" the empty string
  named,          \* currentSSID is the network's name, not empty
  sem,            \* the three semaphores, limit 1
  wasConnected,   \* local of main()
  event,          \* what the network thread has to handle, or none
  link,           \* the radio: down, joining, up
  dhcp,           \* the DHCP client has been started
  leased,         \* it has an address on this link
  faults,
  crossed         \* history: an event waited when this attempt reset the first semaphore,
                  \* and may pass for its own

vars == <<pc, state, ip, named, sem, wasConnected, event, link, dhcp, leased, faults, crossed>>
mgrVars == <<state, ip, named, sem>>
radioVars == <<event, link, dhcp, leased, faults>>

Init ==
  /\ pc = "connect"
  /\ state = "Disconnected" /\ ip = "zero" /\ named = FALSE
  /\ sem = [connected |-> 0, disconnected |-> 0, acquired |-> 0]
  /\ wasConnected = FALSE
  /\ event = "none" /\ link = "down" /\ dhcp = FALSE /\ leased = FALSE
  /\ faults = 0 /\ crossed = FALSE

-------------------------------------------------------------------------------
(* Semaphores. *)

Give(s) == [sem EXCEPT ![s] = 1]

\* k_sem_take with a time-out of seconds, longer than an event waits to be handled.
\* It runs out before the radio's answer only as a fault, and always when no answer
\* can come.
Take(s, then) ==
  /\ sem[s] = 1
  /\ sem' = [sem EXCEPT ![s] = 0]
  /\ pc' = then
  /\ UNCHANGED <<state, ip, named, wasConnected, radioVars, crossed>>

Idle == link # "joining" /\ ~(link = "up" /\ dhcp /\ ~leased)
TimesOut(s, then) ==
  /\ sem[s] = 0 /\ event = "none"
  /\ pc' = then
  /\ Idle \/ faults < MaxFaults
  /\ faults' = IF Idle THEN faults ELSE faults + 1
  /\ UNCHANGED <<mgrVars, wasConnected, event, link, dhcp, leased, crossed>>

-------------------------------------------------------------------------------
(* WifiManager::connect() and disconnect(). *)

Go(from, to) == pc = from /\ pc' = to

HasAddress == ip # "empty" /\ ip # "zero"

\* connect() is entered; connected already, it returns at once or disconnects.
Enter ==
  /\ pc = "connect"
  /\ pc' = IF state # "Connected" THEN "prepare"
           ELSE IF named /\ HasAddress THEN "online"
           ELSE "disconnect"
  /\ UNCHANGED <<mgrVars, wasConnected, radioVars, crossed>>

\* net_mgmt(NET_REQUEST_WIFI_DISCONNECT): the radio leaves and says so.
Disconnect ==
  /\ pc = "disconnect"
  /\ IF state = "Disconnected"
     THEN pc' = "prepare" /\ UNCHANGED <<event, link, leased>>
     ELSE /\ event = "none"
          /\ pc' = "waitDisconnected"
          /\ event' = "disconnected"
          /\ link' = "down" /\ leased' = FALSE
  /\ UNCHANGED <<mgrVars, wasConnected, dhcp, faults, crossed>>

WaitDisconnected == pc = "waitDisconnected" /\ (Take("disconnected", "forget") \/ TimesOut("disconnected", "forget"))

Forget ==
  /\ Go("forget", "prepare")
  /\ state' = "Disconnected" /\ ip' = "empty" /\ named' = FALSE
  /\ UNCHANGED <<sem, wasConnected, radioVars, crossed>>

Prepare ==
  /\ Go("prepare", "resetConnected")
  /\ state' = "Connecting"
  /\ UNCHANGED <<ip, named, sem, wasConnected, radioVars, crossed>>

ResetConnected ==
  /\ Go("resetConnected", "resetAcquired")
  /\ sem' = [sem EXCEPT !.connected = 0]
  /\ crossed' = (event # "none")
  /\ UNCHANGED <<state, ip, named, wasConnected, radioVars>>

\* Mutant of ResetAcquired: leaves the address semaphore as it is.
ResetNothing == Go("resetAcquired", "request") /\ UNCHANGED <<mgrVars, wasConnected, radioVars, crossed>>

ResetAcquired ==
  /\ Go("resetAcquired", "request")
  /\ sem' = [sem EXCEPT !.acquired = 0]
  /\ UNCHANGED <<state, ip, named, wasConnected, radioVars, crossed>>

\* net_mgmt(NET_REQUEST_WIFI_CONNECT), accepted or refused.
Request ==
  /\ pc = "request"
  /\ \/ /\ pc' = "waitConnected"
        /\ link' = "joining" /\ leased' = FALSE
        /\ named' = TRUE
        /\ UNCHANGED <<state, faults>>
     \/ /\ faults < MaxFaults
        /\ faults' = faults + 1
        /\ pc' = "retry"
        /\ state' = "Disconnected"
        /\ UNCHANGED <<named, link, leased>>
  /\ UNCHANGED <<ip, sem, wasConnected, event, dhcp, crossed>>

WaitConnected == pc = "waitConnected" /\ (Take("connected", "joined") \/ TimesOut("connected", "gaveUp"))

GiveUp ==
  /\ Go("gaveUp", "retry")
  /\ state' = "Disconnected"
  /\ UNCHANGED <<ip, named, sem, wasConnected, radioVars, crossed>>

\* Mutant of Joined: DHCP is started for the first connection only.
JoinedFirst ==
  /\ pc = "joined"
  /\ IF state = "Connected" THEN pc' = "waitAcquired" /\ dhcp' = (dhcp \/ ip = "zero")
                            ELSE pc' = "retry" /\ UNCHANGED dhcp
  /\ UNCHANGED <<mgrVars, wasConnected, event, link, leased, faults, crossed>>

\* The result is in `state'; net_dhcpv4_start.
Joined ==
  /\ pc = "joined"
  /\ IF state = "Connected" THEN pc' = "waitAcquired" /\ dhcp' = TRUE
                            ELSE pc' = "retry" /\ UNCHANGED dhcp
  /\ UNCHANGED <<mgrVars, wasConnected, event, link, leased, faults, crossed>>

WaitAcquired == pc = "waitAcquired" /\ (Take("acquired", "online") \/ TimesOut("acquired", "retry"))

-------------------------------------------------------------------------------
(* main(): wifiConnectWithRetry() and the loop. *)

\* Ten seconds, and again without limit.
Retry == Go("retry", "connect") /\ UNCHANGED <<mgrVars, wasConnected, radioVars, crossed>>

\* After a connection, at boot or in the loop, main() notes how it is.
Note ==
  /\ pc \in {"online", "note"} /\ pc' = "loop"
  /\ wasConnected' = (state = "Connected")
  /\ UNCHANGED <<mgrVars, radioVars, crossed>>

Watch ==
  /\ pc = "loop"
  /\ pc' = IF wasConnected /\ state # "Connected" THEN "connect" ELSE "note"
  /\ UNCHANGED <<mgrVars, wasConnected, radioVars, crossed>>

Main == \/ Enter \/ Disconnect \/ WaitDisconnected \/ Forget
        \/ Prepare \/ ResetConnected \/ ResetAcquired \/ Request
        \/ WaitConnected \/ GiveUp \/ Joined \/ WaitAcquired
        \/ Retry \/ Note \/ Watch

-------------------------------------------------------------------------------
(* onWifiEvent(). *)

\* While connecting it is taken for a quirk of the driver.
OnDisconnected ==
  IF state = "Connecting" THEN UNCHANGED mgrVars
  ELSE /\ state' = "Disconnected" /\ ip' = "empty"
       /\ sem' = Give("disconnected")
       /\ UNCHANGED named

OnResult(ok) ==
  /\ state' = IF ok THEN "Connected" ELSE "Disconnected"
  /\ sem' = Give("connected")
  /\ UNCHANGED <<ip, named>>

OnAddress ==
  /\ ip' = "leased"
  /\ sem' = Give("acquired")
  /\ UNCHANGED <<state, named>>

Handle ==
  /\ event # "none" /\ event' = "none"
  /\ CASE event = "disconnected" -> OnDisconnected
       [] event = "ok" -> OnResult(TRUE)
       [] event = "failed" -> OnResult(FALSE)
       [] event = "address" -> OnAddress
  /\ UNCHANGED <<pc, wasConnected, link, dhcp, leased, faults, crossed>>

-------------------------------------------------------------------------------
(* The radio, the access point and the DHCP client. *)

Raise(e) == /\ event = "none" /\ event' = e
            /\ pc \notin {"resetConnected", "resetAcquired", "request"}
            /\ UNCHANGED <<pc, mgrVars, wasConnected, dhcp, crossed>>

Associate == link = "joining" /\ link' = "up" /\ Raise("ok") /\ UNCHANGED <<leased, faults>>

Fail == /\ link = "joining" /\ faults < MaxFaults
        /\ link' = "down" /\ faults' = faults + 1
        /\ Raise("failed") /\ UNCHANGED leased

Lose == /\ link = "up" /\ faults < MaxFaults
        /\ link' = "down" /\ leased' = FALSE /\ faults' = faults + 1
        /\ Raise("disconnected")

Lease == /\ link = "up" /\ dhcp /\ ~leased
         /\ leased' = TRUE
         /\ Raise("address") /\ UNCHANGED <<link, faults>>

Radio == Associate \/ Fail \/ Lose \/ Lease

Next == Main \/ Handle \/ Radio

\* Threads go on, and past its faults the network works.
Fairness == WF_vars(Main) /\ WF_vars(Handle) /\ WF_vars(Associate) /\ WF_vars(Lease)

Spec == Init /\ [][Next]_vars /\ Fairness

-------------------------------------------------------------------------------
\* Types of the manager's, main()'s and the radio's state.
TypeOK ==
  /\ state \in {"Disconnected", "Connecting", "Connected"}
  /\ ip \in {"zero", "empty", "leased"} /\ named \in BOOLEAN /\ wasConnected \in BOOLEAN
  /\ sem \in [{"connected", "disconnected", "acquired"} -> {0, 1}]
  /\ event \in {"none", "ok", "failed", "disconnected", "address"}
  /\ link \in {"down", "joining", "up"} /\ dhcp \in BOOLEAN /\ leased \in BOOLEAN
  /\ faults \in 0 .. MaxFaults /\ crossed \in BOOLEAN

\* When connect() has waited for an address and returns 0, and the connection stands, the
\* address is one of this link and not what is left of an earlier attempt
\* (wifiManager.cpp:148-150, 188-195): as long as no event was still to be handled when the
\* semaphores were reset.
AddressIsOwn ==
  [][/\ pc = "waitAcquired" /\ pc' = "online"
     /\ state = "Connected" /\ event # "disconnected" /\ ~crossed
     => leased /\ HasAddress]_vars

\* The same of every event and of every return with 0, the one at once included
\* (wifiManager.cpp:134, `Already connected to %s with IP %s').
OnlineIsLeased == pc = "online" /\ state = "Connected" /\ event # "disconnected" => leased

\* Whatever fails at first, boot comes to the main loop (main.cpp:51-85, 114-119).
ComesOnline == <>(pc = "loop")

\* A connection that is lost is made again (main.cpp:162, `Monitor WiFi connection
\* and reconnect if needed').
Reconnects == []<>(state = "Connected")

================================================================================
