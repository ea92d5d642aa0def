------------------------ MODULE FailureDetectorProofs ------------------------
(***************************************************************************)
(* The failure detector is perfect for every number of meta servers and    *)
(* every choice of the periods that satisfies TimingAssumption.            *)
(***************************************************************************)
EXTENDS FailureDetector, TLAPS

Inv == TypeOK /\ FDInv

USE DEF workerVars, recordVars, leaderVars

\* The fields of a call of send_beacon.
LEMMA PingFields ==
    ASSUME NEW p \in Ping
    PROVE  /\ p # None
           /\ p.to \in Meta /\ p.time \in Nat
           /\ p.stage \in {"sent", "master", "other"}
  BY NoneAssumption DEF Ping

\* The invariant holds when the worker and the leader have registered each other.
LEMMA InitInv == Init => Inv
<1> SUFFICES ASSUME Init PROVE Inv
  OBVIOUS
<1>1. TypeOK
  BY DEF Init, TypeOK
<1>2. ClockInv
  BY TimingAssumption DEF Init, ClockInv
<1>3. PingInv /\ LeaseInv /\ GraceInv
  BY DEF Init, PingInv, LeaseInv, GraceInv
<1> QED
  BY <1>1, <1>2, <1>3 DEF Inv, FDInv

\* Every step keeps the types.
LEMMA TypeStep == TypeOK /\ [Next]_vars => TypeOK'
<1> SUFFICES ASSUME TypeOK, [Next]_vars PROVE TypeOK'
  OBVIOUS
<1> USE DEF TypeOK
<1>1. CASE Tick
  BY <1>1 DEF Tick
<1>2. CASE send_beacon
  BY <1>2 DEF send_beacon, Ping
<1>3. CASE on_ping
  BY <1>3, PingFields DEF on_ping, on_ping_internal, Ping
<1>4. CASE \E m \in Meta : on_ping_late(m)
  BY <1>4 DEF on_ping_late, on_ping_internal
<1>5. CASE end_ping
  BY <1>5, PingFields DEF end_ping
<1>6. CASE end_ping_switch_master
  BY <1>6, PingFields DEF end_ping_switch_master, switch_master
<1>7. CASE end_ping_timeout
  BY <1>7 DEF end_ping_timeout, switch_master
<1>8. CASE check_all_records_worker
  BY <1>8 DEF check_all_records_worker
<1>9. CASE check_all_records_master
  BY <1>9 DEF check_all_records_master
<1>10. CASE leader_initialize
  BY <1>10 DEF leader_initialize
<1>11. CASE start_service
  BY <1>11 DEF start_service
<1>12. CASE Restart
  BY <1>12 DEF Restart
<1>13. CASE UNCHANGED vars
  BY <1>13 DEF vars
<1> QED
  BY <1>1, <1>2, <1>3, <1>4, <1>5, <1>6, <1>7, <1>8, <1>9, <1>10, <1>11, <1>12, <1>13 DEF Next

\* Only end_ping, check_all_records and Restart touch what the worker knows;
\* only a beacon, a check or an election touch what the leader knows.
LEMMA FDStep == Inv /\ [Next]_vars => FDInv'
<1> SUFFICES ASSUME Inv, [Next]_vars PROVE FDInv'
  OBVIOUS
<1>0. TypeOK /\ TypeOK' /\ ClockInv /\ PingInv /\ LeaseInv /\ GraceInv
  BY TypeStep DEF Inv, FDInv
<1>p. ping # None => ping \in Ping /\ ping.time \in Nat
  BY <1>0, PingFields DEF TypeOK
<1> USE <1>0, <1>p, TimingAssumption DEF TypeOK
<1> USE DEF ClockInv, PingInv, LeaseInv, GraceInv
<1>1. CASE Tick
  BY <1>1 DEF Tick, FDInv
<1>2. CASE send_beacon
  BY <1>2, NoneAssumption DEF send_beacon, FDInv
<1>3. CASE on_ping
  <2>1. /\ ping \in Ping /\ ping' # None
        /\ ping'.time = ping.time
    BY <1>3, NoneAssumption, PingFields DEF on_ping, Ping
  <2> QED
    BY <1>3, <2>1 DEF on_ping, on_ping_internal, FDInv
<1>4. CASE \E m \in Meta : on_ping_late(m)
  <2> PICK m \in Meta : on_ping_late(m)
    BY <1>4
  <2>1. /\ UNCHANGED <<now, ping, target, last_send_time_for_beacon_with_ack,
                        master_is_alive, checked>>
        /\ on_ping_internal \/ UNCHANGED recordVars
    BY DEF on_ping_late
  <2> QED
    BY <2>1 DEF on_ping_internal, FDInv
<1>5. CASE end_ping
  <2>1. \/ /\ ~Applicable
           /\ UNCHANGED <<last_send_time_for_beacon_with_ack, master_is_alive>>
        \/ /\ Applicable
           /\ last_send_time_for_beacon_with_ack' = ping.time
           /\ master_is_alive' => master_is_alive \/ now - ping.time <= Lease
    BY <1>5 DEF end_ping
  <2>2. /\ ping # None /\ ping.stage = "master" /\ ping' = None
        /\ UNCHANGED <<now, checked, registered, last_beacon_recv_time, worker_is_alive>>
    BY <1>5 DEF end_ping
  <2>3. ClockInv' /\ PingInv' /\ GraceInv'
    BY <2>1, <2>2
  <2>4. CASE ~Applicable
    BY <2>1, <2>2, <2>3, <2>4 DEF FDInv
  <2>5. CASE Applicable
    <3> DEFINE t == ping.time
               last == last_send_time_for_beacon_with_ack
    <3>1. /\ t \in Nat /\ t > last /\ last' = t
          /\ t <= now /\ now <= t + BeaconTimeout
          /\ registered => t <= last_beacon_recv_time
      BY <2>1, <2>2, <2>5 DEF Applicable
    <3>2. (registered => last <= last_beacon_recv_time)'
      BY <2>2, <3>1
    <3>3. checked + CheckInterval <= t + Lease
      <4> HIDE DEF t
      <4> QED
        BY <3>1
    <3> QED
      BY <2>2, <2>3, <3>1, <3>2, <3>3 DEF FDInv
  <2> QED
    BY <2>4, <2>5
<1>6. CASE end_ping_switch_master
  BY <1>6 DEF end_ping_switch_master, switch_master, FDInv
<1>7. CASE end_ping_timeout
  BY <1>7 DEF end_ping_timeout, switch_master, FDInv
<1>8. CASE check_all_records_worker
  <2>1. master_is_alive' => master_is_alive /\ ~ExpiresBeforeNextCheck
    BY <1>8 DEF check_all_records_worker
  <2> QED
    BY <1>8, <2>1 DEF check_all_records_worker, ExpiresBeforeNextCheck, FDInv
<1>9. CASE check_all_records_master
  BY <1>9 DEF check_all_records_master, FDInv
<1>10. CASE leader_initialize
  BY <1>10 DEF leader_initialize, FDInv
<1>11. CASE start_service
  BY <1>11 DEF start_service, FDInv
<1>12. CASE Restart
  BY <1>12 DEF Restart, FDInv
<1>13. CASE UNCHANGED vars
  BY <1>13 DEF vars, FDInv
<1> QED
  BY <1>1, <1>2, <1>3, <1>4, <1>5, <1>6, <1>7, <1>8, <1>9, <1>10, <1>11, <1>12, <1>13 DEF Next

\* The records of both sides always have their types and FDInv orders them.
THEOREM Invariance == Spec => [](TypeOK /\ FDInv)
<1>1. Init => Inv
  BY InitInv
<1>2. Inv /\ [Next]_vars => Inv'
  BY TypeStep, FDStep DEF Inv
<1> QED
  BY <1>1, <1>2, PTL DEF Spec, Inv

\* A replica server that thinks it is connected has not been declared dead by
\* the leading meta server: check_all_records on the worker always comes first.
THEOREM Perfect == Spec => []PerfectFD
<1>1. TypeOK /\ FDInv => PerfectFD
  <2> SUFFICES ASSUME TypeOK, FDInv, master_is_alive, ~worker_is_alive PROVE FALSE
    BY DEF PerfectFD, TypeOK
  <2>1. now > last_beacon_recv_time + Grace
        /\ last_send_time_for_beacon_with_ack <= last_beacon_recv_time
    BY DEF FDInv, GraceInv, LeaseInv
  <2>2. now <= last_send_time_for_beacon_with_ack + Lease
    BY TimingAssumption DEF FDInv, ClockInv, LeaseInv, TypeOK
  <2> QED
    BY <2>1, <2>2, TimingAssumption DEF TypeOK
<1> QED
  BY <1>1, Invariance, PTL

\* Between two runs of check_all_records a connected worker's lease does not
\* run out.
THEOREM LeaseNeverExpires == Spec => []LeaseHonoured
<1>1. TypeOK /\ FDInv => LeaseHonoured
  BY TimingAssumption DEF TypeOK, FDInv, ClockInv, LeaseInv, LeaseHonoured
<1> QED
  BY <1>1, Invariance, PTL
===============================================================================
