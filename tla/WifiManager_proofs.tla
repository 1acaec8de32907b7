--------------------------- MODULE WifiManager_proofs --------------------------
(***************************************************************************)
(* The address that connect() waited for is this attempt's, for any number  *)
(* of faults, unless an event crossed its resets.                           *)
(***************************************************************************)
EXTENDS WifiManager, TLAPS

\* Here no event is raised, and there the attempt waits for its answers.
Window == {"resetAcquired", "request"}
Waits == {"waitConnected", "joined", "waitAcquired"}

\* The link has gone, and nothing that could make it seem to stand waits.
Gone == /\ link = "down"
        /\ event = "disconnected" \/ (state # "Connected" /\ event # "ok")

\* An attempt whose resets no event crossed begins with nothing to handle and no address to
\* take, so the address it can take later is the lease of its link, unless that has gone.
WifiInv ==
  /\ state \in {"Disconnected", "Connecting", "Connected"} /\ ip \in {"zero", "empty", "leased"}
  /\ event \in {"none", "ok", "failed", "disconnected", "address"}
  /\ sem \in [{"connected", "disconnected", "acquired"} -> {0, 1}]
  /\ leased \in BOOLEAN /\ crossed \in BOOLEAN
  /\ leased => link = "up"
  /\ pc \in Window /\ ~crossed => event = "none" /\ (pc = "request" => sem["acquired"] = 0)
  /\ pc \in Waits /\ ~crossed =>
       /\ event = "disconnected" => link = "down"
       /\ event = "address" => leased
       /\ sem["acquired"] = 1 => (leased /\ ip = "leased") \/ Gone

LEMMA GiveIs ==
  ASSUME WifiInv, NEW s \in {"connected", "disconnected", "acquired"},
         NEW n \in {0, 1}, NEW t \in {"connected", "disconnected", "acquired"}
  PROVE  /\ [sem EXCEPT ![s] = n] \in [{"connected", "disconnected", "acquired"} -> {0, 1}]
         /\ [sem EXCEPT ![s] = n][t] = IF t = s THEN n ELSE sem[t]
BY DEF WifiInv

LEMMA StepWifiMain == WifiInv /\ Main => WifiInv'
<1> SUFFICES ASSUME WifiInv, Main PROVE WifiInv'
  OBVIOUS
<1> USE DEF WifiInv, Window, Waits, Gone
<1>1. CASE Enter
  BY <1>1 DEF Enter, mgrVars, radioVars, HasAddress
<1>2. CASE Disconnect
  BY <1>2 DEF Disconnect, mgrVars
<1>3. CASE WaitDisconnected \/ WaitConnected \/ WaitAcquired
  BY <1>3, GiveIs DEF WaitDisconnected, WaitConnected, WaitAcquired,
                      Take, TimesOut, mgrVars, radioVars
<1>4. CASE Forget \/ Prepare
  BY <1>4 DEF Forget, Prepare, Go, radioVars
<1>5. CASE ResetConnected \/ ResetAcquired
  <2>1. CASE ResetConnected
    BY <2>1, GiveIs DEF ResetConnected, Go, radioVars
  <2>2. CASE ResetAcquired
    BY <2>2, GiveIs DEF ResetAcquired, Go, radioVars
  <2> QED
    BY <1>5, <2>1, <2>2
<1>6. CASE Request
  <2>1. /\ pc = "request" /\ UNCHANGED <<ip, sem, event, crossed>> /\ pc' \in {"waitConnected", "retry"}
        /\ \/ pc' = "waitConnected" /\ link' = "joining" /\ leased' = FALSE /\ state' = state
           \/ pc' = "retry" /\ state' = "Disconnected" /\ UNCHANGED <<link, leased>>
    BY <1>6 DEF Request
  <2>2. CASE pc' = "waitConnected"
    <3>1. ~crossed => event = "none" /\ sem["acquired"] = 0
      BY <2>1
    <3>2. pc' \notin Window /\ leased' = FALSE
      BY <2>1, <2>2
    <3>3. ~crossed' => event' = "none" /\ sem'["acquired"] = 0
      BY <2>1, <3>1
    <3>4. /\ state' \in {"Disconnected", "Connecting", "Connected"} /\ leased' \in BOOLEAN
          /\ crossed' \in BOOLEAN /\ ip' \in {"zero", "empty", "leased"}
          /\ event' \in {"none", "ok", "failed", "disconnected", "address"}
          /\ sem' \in [{"connected", "disconnected", "acquired"} -> {0, 1}] /\ ~leased'
      BY <2>1, <3>2
    <3>5. ~crossed' => /\ event' = "disconnected" => link' = "down"
                       /\ event' = "address" => leased'
                       /\ sem'["acquired"] = 1 => (leased' /\ ip' = "leased") \/ Gone'
      BY <3>3
    <3> HIDE DEF Gone
    <3> QED
      BY <3>2, <3>4, <3>5
  <2>3. CASE pc' = "retry"
    BY <2>1, <2>3
  <2> QED
    BY <2>1, <2>2, <2>3
<1>7. CASE GiveUp \/ Joined \/ Retry \/ Note \/ Watch
  BY <1>7 DEF GiveUp, Joined, Retry, Note, Watch, Go,
              mgrVars, radioVars
<1> QED
  BY <1>1, <1>2, <1>3, <1>4, <1>5, <1>6, <1>7 DEF Main

LEMMA StepWifiInv == WifiInv /\ [Next]_(vars) => WifiInv'
<1> SUFFICES ASSUME WifiInv, [Next]_(vars) PROVE WifiInv'
  OBVIOUS
<1>1. CASE Main
  BY <1>1, StepWifiMain
<1>2. CASE Handle
  <2>1. CASE event = "disconnected"
    BY <1>2, <2>1, GiveIs DEF Handle, OnDisconnected, Give, mgrVars,
                              WifiInv, Window, Waits, Gone
  <2>2. CASE event = "ok"
    BY <1>2, <2>2, GiveIs DEF Handle, OnResult, Give, mgrVars, WifiInv,
                              Window, Waits, Gone
  <2>3. CASE event = "failed"
    BY <1>2, <2>3, GiveIs DEF Handle, OnResult, Give, mgrVars, WifiInv,
                              Window, Waits, Gone
  <2>4. CASE event = "address"
    BY <1>2, <2>4, GiveIs DEF Handle, OnAddress, Give, mgrVars,
                              WifiInv, Window, Waits, Gone
  <2> QED
    BY <1>2, <2>1, <2>2, <2>3, <2>4 DEF Handle, WifiInv
<1>3. CASE Radio
  <2>1. CASE Associate
    BY <2>1 DEF Associate, Raise, mgrVars, WifiInv, Window, Waits, Gone
  <2>2. CASE Fail
    BY <2>2 DEF Fail, Raise, mgrVars, WifiInv, Window, Waits, Gone
  <2>3. CASE Lose
    BY <2>3 DEF Lose, Raise, mgrVars, WifiInv, Window, Waits, Gone
  <2>4. CASE Lease
    BY <2>4 DEF Lease, Raise, mgrVars, WifiInv, Window, Waits, Gone
  <2> QED
    BY <1>3, <2>1, <2>2, <2>3, <2>4 DEF Radio
<1>4. CASE UNCHANGED vars
  BY <1>4 DEF vars, WifiInv, Window, Waits, Gone
<1> QED
  BY <1>1, <1>2, <1>3, <1>4 DEF Next

\* Only there connect() takes the address, and the invariant says whose it is.
LEMMA OwnAddress ==
  ASSUME WifiInv, Main, pc = "waitAcquired", pc' = "online", state = "Connected",
         event # "disconnected", ~crossed
  PROVE  leased /\ HasAddress
<1>1. sem["acquired"] = 1
  BY DEF Main, Enter, Disconnect, WaitDisconnected, Forget, Prepare, ResetConnected,
         ResetAcquired, Request, WaitConnected, GiveUp, Joined, WaitAcquired, Retry, Note,
         Watch, Take, TimesOut, Go
<1>2. (leased /\ ip = "leased") \/ Gone
  BY <1>1 DEF WifiInv, Waits
<1> QED
  BY <1>2 DEF Gone, HasAddress

\* However often the radio, the access point and the DHCP client fail, and whenever their
\* events come: the address that connect() waited for is a lease of the link that stands, not
\* what an earlier attempt left behind (wifiManager.cpp:148-150, 188-195), unless an event was
\* still to be handled when it reset the semaphores.
THEOREM AddressesAreOwn == Spec => AddressIsOwn
<1> DEFINE Own == /\ pc = "waitAcquired" /\ pc' = "online"
                  /\ state = "Connected" /\ event # "disconnected" /\ ~crossed
                  => leased /\ HasAddress
<1>1. Init => WifiInv
  <2>1. [connected |-> 0, disconnected |-> 0, acquired |-> 0]
          \in [{"connected", "disconnected", "acquired"} -> {0, 1}]
    OBVIOUS
  <2> QED
    BY <2>1 DEF Init, WifiInv, Window, Waits
<1>2. WifiInv /\ [Next]_vars => [Own]_vars
  <2> SUFFICES ASSUME WifiInv, Next, pc = "waitAcquired", pc' = "online",
                      state = "Connected", event # "disconnected", ~crossed
               PROVE  leased /\ HasAddress
    BY DEF vars
  <2>1. Main
    BY DEF Next, Handle, Radio, Associate, Fail, Lose, Lease, Raise
  <2> QED
    BY <2>1, OwnAddress
<1> QED
  BY <1>1, <1>2, StepWifiInv, PTL DEF Spec, AddressIsOwn

================================================================================
